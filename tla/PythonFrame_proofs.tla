--------------------------- MODULE PythonFrame_proofs ---------------------------
(***************************************************************************)
(* Theorems about PythonFrame, for programs without the unusual shapes    *)
(* (Odd = {}): what the two stacks hold follows from the regions around   *)
(* the statement, so every step is one that the nesting of the constructs *)
(* allows.                                                                *)
(***************************************************************************)
EXTENDS PythonFrame, FiniteSums, SequenceTheorems

(***************************************************************************)
(* The regions are those of a program.                                    *)
(***************************************************************************)
\* Region k is open for the code at region m: no jump in between has left it.
Held(w, k, m) == \A i \in (k + 1) .. m : w[i].kind \in Leaving => w[i].at > k

\* A return at m: each cleanup that is open lies inside the tries that are open.
CrossesNoTry(w, m) ==
    \A i, k \in 1 .. (m - 1) :
        /\ w[i].kind = "try" /\ Held(w, i, m)
        /\ w[k].kind \in HasCleanup /\ Held(w, k, m)
        => i < k

\* A break or continue at m belongs to the loop t, whose body it leaves no try of.
LoopOf(w, m, t) ==
    /\ t \in 1 .. (m - 1) /\ w[t].kind \in Loops /\ Held(w, t, m)
    /\ \A i \in (t + 1) .. m : /\ w[i].kind \notin Loops
                               /\ ~(w[i].kind = "try" /\ Held(w, i, m))
    /\ \A i \in 1 .. t : ~(w[i].kind = "leave" /\ w[i].jump = "return")

JumpFits(w, k) ==
    /\ w[k].at \in 1 .. k
    /\ w[k].jump \in JumpKinds
    /\ IF w[k].jump = "return" THEN CrossesNoTry(w, k) ELSE \E t \in 1 .. k : LoopOf(w, k, t)

\* Region k, n constructs having been entered.
RegionFits(w, k, n) ==
    /\ w[k].kind \in Leaving => JumpFits(w, k)
    /\ w[k].kind \notin Leaving =>
          /\ w[k].id \in 1 .. n
          /\ \A j \in 1 .. (k - 1) : w[j].kind \notin Leaving => w[j].id /= w[k].id
    /\ w[k].kind \in Protected => w[k] = Region(w[k].kind, w[k].id, None)
    /\ w[k].kind \in Handling =>
          w[k].exc /= None /\ w[k] = Region(w[k].kind, w[k].id, w[k].exc)

Brief == {"jump", "clauses", "exiting"}
Shaped(w, n) ==
    /\ w \in Seq(Regions)
    /\ \A k \in 1 .. Len(w) : RegionFits(w, k, n) /\ (w[k].kind \in Brief => k = Len(w))

(***************************************************************************)
(* A cleanup is owed for each guard and with that is open.                *)
(***************************************************************************)
Cleanups(w) == {w[k].id : k \in Opened(w, HasCleanup \cup {"exiting"})}
Accounted(w, c) ==
    /\ c \in Seq(Int)
    /\ \A id \in DOMAIN c : c[id] = IF id \in Cleanups(w) THEN 1 ELSE 0

(***************************************************************************)
(* f lists the regions that hold a value, and st has their values.        *)
(***************************************************************************)
Values == [what : {"iterator", "exit", "result"}, id : Nat]
Rises(f) == \A i, j \in 1 .. Len(f) : i < j => f[i] < f[j]
Valued(w, st, f) ==
    /\ f \in Seq(Nat) /\ st \in Seq(Values) /\ Len(f) = Len(st)
    /\ Rises(f)
    /\ \A i \in 1 .. Len(f) : f[i] \in Holding(w) /\ st[i] = ValueOf(w[f[i]])
    /\ \A k \in Holding(w) : \E i \in 1 .. Len(f) : f[i] = k

(***************************************************************************)
(* The blocks are those of the regions that are open.  A manager that     *)
(* swallowed its exception has left its Handler block behind; such blocks *)
(* are among the first p, and no region but a with has a block there.     *)
(***************************************************************************)
Guarding == Protected \cup {"exiting"}
At(b) == Len(b.home)
KindOf(blockKind) ==
    CASE blockKind = "Except" -> "try" [] blockKind = "Finally" -> "guard" [] blockKind = "With" -> "with"

\* The exception that is current outside region k.
Outer(w, k) ==
    LET h == LastOr0({j \in Opened(w, Handling) : j < k}) IN IF h = 0 THEN None ELSE w[h].exc

Guards(w, b, f) ==
    /\ At(b) \in Opened(w, Guarding)
    /\ w[At(b)].kind = KindOf(b.kind) \/ (w[At(b)].kind = "exiting" /\ b.kind = "With")
    /\ b.home = Append(SubSeq(w, 1, At(b) - 1), Region(KindOf(b.kind), w[At(b)].id, None))
    /\ b.depth \in 0 .. Len(f)
    /\ \A j \in 1 .. Len(f) : j <= b.depth <=> f[j] <= At(b)
Handles(w, b) == At(b) \in Opened(w, Handling) /\ b.saved = Outer(w, At(b))

\* Block i is the block of a region.
Proper(bl, p, i) == i > p \/ bl[i].kind = "With"
Before(b, c) == At(b) < At(c) \/ (At(b) = At(c) /\ b.kind /= "Handler" /\ c.kind = "Handler")

Framed(w, bl, cur, f, p) ==
    /\ bl \in Seq(BlockSet)
    /\ p \in 0 .. Len(bl)
    /\ \A i \in 1 .. p : bl[i].kind = "With" \/ (bl[i].kind = "Handler" /\ bl[i].saved = None)
    /\ \A i \in 1 .. Len(bl) : bl[i].kind /= "Handler" => Guards(w, bl[i], f)
    /\ \A i \in (p + 1) .. Len(bl) : bl[i].kind = "Handler" => Handles(w, bl[i])
    /\ \A i, j \in 1 .. Len(bl) : i < j /\ bl[i].kind /= "Handler" => bl[i].depth <= bl[j].depth
    /\ \A i, j \in 1 .. Len(bl) :
          i < j /\ Proper(bl, p, i) /\ Proper(bl, p, j) => Before(bl[i], bl[j])
    /\ \A i, j \in 1 .. Len(bl) :
          i < j /\ bl[i].kind /= "Handler" /\ w[At(bl[i])].kind = "exiting" => Proper(bl, p, j)
    /\ \A k \in Opened(w, Guarding) :
          \E i \in 1 .. Len(bl) : bl[i].kind /= "Handler" /\ At(bl[i]) = k
    /\ \A k \in Opened(w, Handling) :
          \E i \in (p + 1) .. Len(bl) : bl[i].kind = "Handler" /\ At(bl[i]) = k
    /\ cur = Outer(w, Len(w) + 1)

(***************************************************************************)
(* The inductive invariant.                                               *)
(***************************************************************************)
Endings == [how : {"running", "returned", "raised", "crashed"}, exc : Raisable \cup {None}]
Stacked(w, bl, st, cur) ==
    \E f : Valued(w, st, f) /\ (Abandoned(w) \/ \E p \in Nat : Framed(w, bl, cur, f, p))
IInv ==
    /\ ended \in Endings
    /\ ended /= Running => where = <<>>
    /\ blocks \in Seq(BlockSet)
    /\ current \in Raisable \cup {None}
    /\ Shaped(where, Len(owed))
    /\ Accounted(where, owed)
    /\ Stacked(where, blocks, stack, current)

-----------------------------------------------------------------------------
(***************************************************************************)
(* The greatest element.                                                  *)
(***************************************************************************)
\* A set of positions has a greatest element, which LastOr0 finds.
LEMMA Greatest ==
  ASSUME NEW n \in Nat, NEW S, S \subseteq 1 .. n, S /= {}
  PROVE  LastOr0(S) \in S /\ \A j \in S : j <= LastOr0(S)
  <1> DEFINE Greats == {m \in Nat : \A T : T \subseteq 1 .. m /\ T /= {} => \E k \in T : \A j \in T : j <= k}
  <1>1. 0 \in Greats
    OBVIOUS
  <1>2. \A m \in Nat : m \in Greats => m + 1 \in Greats
    <2> SUFFICES ASSUME NEW m \in Nat, m \in Greats,
                        NEW T, T \subseteq 1 .. (m + 1), T /= {}
                 PROVE  \E k \in T : \A j \in T : j <= k
      OBVIOUS
    <2>1. CASE m + 1 \in T
      BY <2>1
    <2>2. CASE m + 1 \notin T
      <3>1. T \subseteq 1 .. m
        BY <2>2
      <3> QED BY <3>1
    <2> QED BY <2>1, <2>2
  <1>3. Nat \subseteq Greats
    <2> HIDE DEF Greats
    <2> QED BY <1>1, <1>2, Inductive
  <1>4. \E k \in S : \A j \in S : j <= k
    BY <1>3
  <1> QED BY <1>4 DEF LastOr0

\* What has no greater element beside it is the greatest.
LEMMA GreatestIs ==
  ASSUME NEW n \in Nat, NEW S, S \subseteq 1 .. n, NEW k \in S, \A j \in S : j <= k
  PROVE  LastOr0(S) = k
  <1>1. LastOr0(S) \in S /\ \A j \in S : j <= LastOr0(S)
    BY Greatest
  <1>2. LastOr0(S) \in 1 .. n /\ k \in 1 .. n
    BY <1>1
  <1>3. k <= LastOr0(S) /\ LastOr0(S) <= k
    BY <1>1
  <1> QED BY <1>2, <1>3

(***************************************************************************)
(* Which regions are open when regions are added, left and replaced.      *)
(***************************************************************************)
\* The fields of a region.
LEMMA RegionTypes ==
  ASSUME NEW w \in Seq(Regions), NEW k \in 1 .. Len(w)
  PROVE  /\ w[k] \in Regions /\ w[k].kind \in Kinds /\ w[k].id \in Nat
         /\ w[k].exc \in Raisable \cup {None} /\ w[k].at \in Nat
  <1>1. w[k] \in Regions
    OBVIOUS
  <1> QED BY <1>1 DEF Regions

\* The regions that are open, in numbers.
LEMMA OpenedHeld ==
  ASSUME NEW w \in Seq(Regions), NEW K
  PROVE  Opened(w, K) = {k \in 1 .. Len(w) : w[k].kind \in K /\ Held(w, k, Len(w))}
  BY DEF Opened, Active, Held

\* A region that is added leaves the others open unless it is a jump that has left them.
LEMMA OpenedAppend ==
  ASSUME NEW w \in Seq(Regions), NEW r \in Regions, NEW K
  PROVE  Opened(Append(w, r), K) =
            {k \in Opened(w, K) : r.kind \in Leaving => r.at > k}
               \cup (IF r.kind \in K THEN {Len(w) + 1} ELSE {})
  <1> DEFINE v == Append(w, r)
  <1>1. v \in Seq(Regions) /\ Len(v) = Len(w) + 1 /\ v[Len(w) + 1] = r
        /\ \A k \in 1 .. Len(w) : v[k] = w[k]
    OBVIOUS
  <1>2. \A k \in 1 .. Len(w) :
            Held(v, k, Len(v)) <=> Held(w, k, Len(w)) /\ (r.kind \in Leaving => r.at > k)
    BY <1>1 DEF Held
  <1>3. Held(v, Len(v), Len(v))
    BY <1>1 DEF Held
  <1>4. Opened(v, K) = {k \in 1 .. Len(v) : v[k].kind \in K /\ Held(v, k, Len(v))}
    BY <1>1, OpenedHeld
  <1>5. Opened(w, K) = {k \in 1 .. Len(w) : w[k].kind \in K /\ Held(w, k, Len(w))}
    BY OpenedHeld
  <1> HIDE DEF v
  <1>6. 1 .. Len(v) = 1 .. Len(w) \cup {Len(w) + 1}
    BY <1>1
  <1>7. Opened(v, K) = {k \in Opened(w, K) : r.kind \in Leaving => r.at > k}
               \cup (IF r.kind \in K THEN {Len(w) + 1} ELSE {})
    BY <1>1, <1>2, <1>3, <1>4, <1>5, <1>6
  <1> QED BY <1>7 DEF v

\* When the regions above t are cut off, and none of them has left t, those up to t stay.
LEMMA OpenedCut ==
  ASSUME NEW w \in Seq(Regions), NEW t \in 0 .. Len(w), Held(w, t, Len(w)), NEW K
  PROVE  Opened(SubSeq(w, 1, t), K) = {k \in Opened(w, K) : k <= t}
  <1> DEFINE v == SubSeq(w, 1, t)
  <1>1. v \in Seq(Regions) /\ Len(v) = t /\ \A k \in 1 .. t : v[k] = w[k]
    OBVIOUS
  <1>2. \A i \in 1 .. Len(w) : w[i].at \in Nat
    BY RegionTypes
  <1>3. \A k \in 1 .. t : Held(v, k, t) <=> Held(w, k, Len(w))
    <2> TAKE k \in 1 .. t
    <2>1. \A i \in (t + 1) .. Len(w) : w[i].kind \in Leaving => w[i].at > k
      BY <1>2 DEF Held
    <2> HIDE DEF v
    <2> QED BY <1>1, <2>1 DEF Held
  <1>4. Opened(v, K) = {k \in 1 .. Len(v) : v[k].kind \in K /\ Held(v, k, Len(v))}
    BY <1>1, OpenedHeld
  <1>5. Opened(w, K) = {k \in 1 .. Len(w) : w[k].kind \in K /\ Held(w, k, Len(w))}
    BY OpenedHeld
  <1> HIDE DEF v
  <1>6. Opened(v, K) = {k \in Opened(w, K) : k <= t}
    BY <1>1, <1>3, <1>4, <1>5
  <1> QED BY <1>6 DEF v

\* The same of the regions that hold a value.
LEMMA HoldingAppend ==
  ASSUME NEW w \in Seq(Regions), NEW r \in Regions
  PROVE  Holding(Append(w, r)) =
            {k \in Holding(w) : w[k].kind = "with" /\ r.kind \in Leaving => r.at > k}
               \cup (IF r.kind \in {"for", "with", "exiting"} \/ (r.kind \in Leaving /\ r.jump = "return")
                     THEN {Len(w) + 1} ELSE {})
  <1> DEFINE v == Append(w, r)
  <1>1. v \in Seq(Regions) /\ Len(v) = Len(w) + 1 /\ v[Len(w) + 1] = r
        /\ \A k \in 1 .. Len(w) : v[k] = w[k]
    OBVIOUS
  <1>2. \A k \in 1 .. Len(w) : Active(v, k) <=> Active(w, k) /\ (r.kind \in Leaving => r.at > k)
    BY <1>1 DEF Active
  <1>3. Active(v, Len(v))
    BY <1>1 DEF Active
  <1>4. DOMAIN v = 1 .. Len(w) \cup {Len(w) + 1} /\ DOMAIN w = 1 .. Len(w)
    BY <1>1
  <1> HIDE DEF v
  <1>5. Holding(v) = {k \in Holding(w) : w[k].kind = "with" /\ r.kind \in Leaving => r.at > k}
               \cup (IF r.kind \in {"for", "with", "exiting"} \/ (r.kind \in Leaving /\ r.jump = "return")
                     THEN {Len(w) + 1} ELSE {})
    BY <1>1, <1>2, <1>3, <1>4, Zenon DEF Holding, Leaving
  <1> QED BY <1>5 DEF v

\* What holds a value when the regions above t are cut off.
LEMMA HoldingCut ==
  ASSUME NEW w \in Seq(Regions), NEW t \in 0 .. Len(w), Held(w, t, Len(w))
  PROVE  Holding(SubSeq(w, 1, t)) = {k \in Holding(w) : k <= t}
  <1> DEFINE v == SubSeq(w, 1, t)
  <1>1. v \in Seq(Regions) /\ Len(v) = t /\ \A k \in 1 .. t : v[k] = w[k]
    OBVIOUS
  <1>2. \A i \in 1 .. Len(w) : w[i].at \in Nat
    BY RegionTypes
  <1>3. \A k \in 1 .. t : Active(v, k) <=> Active(w, k)
    BY <1>1, <1>2 DEF Held, Active
  <1>4. DOMAIN v = 1 .. t /\ DOMAIN w = 1 .. Len(w)
    BY <1>1
  <1> HIDE DEF v
  <1>5. Holding(v) = {k \in Holding(w) : k <= t}
    BY <1>1, <1>3, <1>4 DEF Holding
  <1> QED BY <1>5 DEF v

(***************************************************************************)
(* The blocks when regions are left.                                      *)
(***************************************************************************)
\* Below region k the regions v are those of w, and the same of them are open.
Agree(w, v, k) ==
    /\ k \in 1 .. (Len(w) + 1) /\ k <= Len(v) + 1
    /\ \A j \in 1 .. (k - 1) :
          /\ v[j] = w[j]
          /\ j \in Opened(v, Guarding) <=> j \in Opened(w, Guarding)
          /\ j \in Opened(v, Handling) <=> j \in Opened(w, Handling)

\* Besides, nothing else is open in v.
Below(w, v, k) ==
    /\ k \in 1 .. (Len(w) + 1) /\ k <= Len(v) + 1
    /\ \A j \in 1 .. (k - 1) : v[j] = w[j]
    /\ Opened(v, Guarding) = {j \in Opened(w, Guarding) : j < k}
    /\ Opened(v, Handling) = {j \in Opened(w, Handling) : j < k}

\* The values of the regions below k have the same places.
SameBelow(f, g, k) ==
    /\ \A j \in 1 .. Len(f) : f[j] < k => j <= Len(g) /\ g[j] = f[j]
    /\ \A j \in 1 .. Len(g) : g[j] < k => j <= Len(f) /\ f[j] = g[j]

\* Open regions are regions.
LEMMA OpenedIn ==
  ASSUME NEW w \in Seq(Regions), NEW K
  PROVE  Opened(w, K) \subseteq 1 .. Len(w)
  BY DEF Opened

\* What Outer finds is an open handling region, or none.
LEMMA OuterFinds ==
  ASSUME NEW w \in Seq(Regions), NEW k \in Nat
  PROVE  \/ Outer(w, k) = None /\ \A j \in Opened(w, Handling) : j >= k
         \/ \E h \in Opened(w, Handling) :
               h < k /\ Outer(w, k) = w[h].exc /\ \A j \in Opened(w, Handling) : j < k => j <= h
  <1> DEFINE S == {j \in Opened(w, Handling) : j < k}
  <1>1. S \subseteq 1 .. Len(w) /\ Len(w) \in Nat
    BY OpenedIn
  <1>2. CASE S = {}
    <2>1. Outer(w, k) = None
      BY <1>2 DEF Outer, LastOr0
    <2> QED BY <1>1, <1>2, <2>1, OpenedIn
  <1>3. CASE S /= {}
    <2>1. LastOr0(S) \in S /\ \A j \in S : j <= LastOr0(S)
      <3> HIDE DEF S
      <3> QED BY <1>1, <1>3, Greatest
    <2>2. Outer(w, k) = w[LastOr0(S)].exc
      BY <1>1, <2>1 DEF Outer
    <2> QED BY <2>1, <2>2
  <1> QED BY <1>2, <1>3

\* Outer depends on the regions below only.
LEMMA OuterSame ==
  ASSUME NEW w \in Seq(Regions), NEW v \in Seq(Regions), NEW k \in Nat, NEW m \in Nat,
         {j \in Opened(v, Handling) : j < m} = {j \in Opened(w, Handling) : j < k},
         \A j \in Opened(w, Handling) : j < k => v[j].exc = w[j].exc
  PROVE  Outer(v, m) = Outer(w, k)
  <1> DEFINE S == {j \in Opened(w, Handling) : j < k}
  <1>1. S \subseteq 1 .. Len(w) /\ Len(w) \in Nat
    BY OpenedIn
  <1>2. CASE S = {}
    BY <1>2 DEF Outer, LastOr0
  <1>3. CASE S /= {}
    <2>1. LastOr0(S) \in S
      <3> HIDE DEF S
      <3> QED BY <1>1, <1>3, Greatest
    <2>2. Outer(w, k) = w[LastOr0(S)].exc
      BY <1>1, <2>1 DEF Outer
    <2>3. {j \in Opened(v, Handling) : j < m} = S /\ LastOr0(S) /= 0
      BY <1>1, <2>1
    <2>4. Outer(v, m) = v[LastOr0(S)].exc
      <3> HIDE DEF S
      <3> QED BY <2>3 DEF Outer
    <2> QED BY <2>1, <2>2, <2>4
  <1> QED BY <1>2, <1>3

\* The one implies the other.
LEMMA BelowAgrees ==
  ASSUME NEW w \in Seq(Regions), NEW v \in Seq(Regions), NEW k, Below(w, v, k)
  PROVE  Agree(w, v, k)
  <1>1. k \in 1 .. (Len(w) + 1) /\ \A j \in 1 .. (k - 1) : j < k
    BY DEF Below
  <1> QED BY <1>1 DEF Agree, Below

\* A block of a region below k stays the block of its region.
LEMMA GuardsAgree ==
  ASSUME NEW w \in Seq(Regions), NEW v \in Seq(Regions), NEW k, Agree(w, v, k),
         NEW f \in Seq(Nat), NEW g \in Seq(Nat), SameBelow(f, g, k),
         NEW b \in BlockSet, Guards(w, b, f), At(b) < k
  PROVE  Guards(v, b, g)
  <1>1. At(b) \in 1 .. Len(w) /\ At(b) \in 1 .. (k - 1) /\ k \in Nat
    BY OpenedIn DEF Guards, Agree
  <1>2. v[At(b)] = w[At(b)] /\ At(b) \in Opened(v, Guarding)
    BY <1>1 DEF Guards, Agree
  <1>3. SubSeq(v, 1, At(b) - 1) = SubSeq(w, 1, At(b) - 1)
    <2>1. At(b) - 1 \in Nat /\ At(b) - 1 <= Len(w) /\ At(b) - 1 <= Len(v)
          /\ \A j \in 1 .. (At(b) - 1) : v[j] = w[j]
      BY <1>1 DEF Agree
    <2> HIDE DEF At
    <2> QED BY <2>1
  <1>4. b.depth \in 0 .. Len(g)
    <2>1. CASE b.depth = 0
      BY <2>1
    <2>2. CASE b.depth /= 0
      <3>1. b.depth \in 1 .. Len(f)
        BY <2>2 DEF Guards
      <3>2. f[b.depth] < k
        BY <1>1, <3>1 DEF Guards
      <3> QED BY <3>1, <3>2 DEF SameBelow
    <2> QED BY <2>1, <2>2
  <1>5. ASSUME NEW j \in 1 .. Len(g)
        PROVE  j <= b.depth <=> g[j] <= At(b)
    <2>1. ASSUME j <= b.depth
          PROVE  g[j] <= At(b)
      <3>1. j \in 1 .. Len(f)
        BY <2>1 DEF Guards
      <3>2. f[j] <= At(b)
        BY <2>1, <3>1 DEF Guards
      <3>3. f[j] < k
        BY <1>1, <3>1, <3>2
      <3> QED BY <3>1, <3>2, <3>3 DEF SameBelow
    <2>2. ASSUME g[j] <= At(b)
          PROVE  j <= b.depth
      <3>1. g[j] < k
        BY <1>1, <2>2
      <3>2. j \in 1 .. Len(f) /\ f[j] = g[j]
        BY <3>1 DEF SameBelow
      <3> QED BY <2>2, <3>2 DEF Guards
    <2> QED BY <2>1, <2>2
  <1> QED BY <1>2, <1>3, <1>4, <1>5 DEF Guards

\* A Handler block of a region below k stays the block of its region.
LEMMA HandlesAgree ==
  ASSUME NEW w \in Seq(Regions), NEW v \in Seq(Regions), NEW k, Agree(w, v, k),
         NEW b, Handles(w, b), At(b) < k
  PROVE  Handles(v, b)
  <1>1. At(b) \in 1 .. Len(w) /\ At(b) \in 1 .. (k - 1) /\ k \in Nat /\ At(b) \in Nat
    BY OpenedIn DEF Handles, Agree
  <1>2. At(b) \in Opened(v, Handling)
    BY <1>1 DEF Handles, Agree
  <1>3. \A j \in Opened(v, Handling) : j < At(b) => j \in 1 .. (k - 1)
    BY <1>1, OpenedIn
  <1>4. \A j \in Opened(w, Handling) : j < At(b) => j \in 1 .. (k - 1)
    BY <1>1, OpenedIn
  <1>5. {j \in Opened(v, Handling) : j < At(b)} = {j \in Opened(w, Handling) : j < At(b)}
    BY <1>3, <1>4 DEF Agree
  <1>6. \A j \in Opened(w, Handling) : j < At(b) => v[j].exc = w[j].exc
    BY <1>4 DEF Agree
  <1>7. Outer(v, At(b)) = Outer(w, At(b))
    BY <1>1, <1>5, <1>6, OuterSame
  <1> QED BY <1>2, <1>7 DEF Handles

\* When the regions from k on are left, the blocks of the others are those up to q.
LEMMA FramedBelow ==
  ASSUME NEW w \in Seq(Regions), NEW v \in Seq(Regions), NEW k, Below(w, v, k),
         NEW f \in Seq(Nat), NEW g \in Seq(Nat), SameBelow(f, g, k),
         NEW bl, NEW cur, NEW p \in Nat, Framed(w, bl, cur, f, p),
         NEW q \in 0 .. Len(bl),
         \A i \in 1 .. Len(bl) : Proper(bl, p, i) => (i <= q <=> At(bl[i]) < k)
  PROVE  Framed(v, SubSeq(bl, 1, q), Outer(w, k), g, IF p <= q THEN p ELSE q)
  <1> DEFINE left == SubSeq(bl, 1, q)
             r == IF p <= q THEN p ELSE q
  <1>1. bl \in Seq(BlockSet) /\ Len(bl) \in Nat /\ p \in 0 .. Len(bl)
    BY DEF Framed
  <1>2. left \in Seq(BlockSet) /\ Len(left) = q /\ \A i \in 1 .. q : left[i] = bl[i]
    BY <1>1
  <1>3. r \in 0 .. q /\ r <= p /\ \A i \in 1 .. q : i > r <=> i > p
    BY <1>1
  <1>4. \A i \in 1 .. q : i \in 1 .. Len(bl) /\ bl[i] \in BlockSet
    BY <1>1
  <1> HIDE DEF left, r
  <1>5. \A i \in 1 .. Len(left) : Proper(left, r, i) <=> Proper(bl, p, i)
    BY <1>2, <1>3 DEF Proper
  <1>6. k \in 1 .. (Len(w) + 1) /\ k <= Len(v) + 1
    BY DEF Below
  <1>a. \A i \in 1 .. r : left[i].kind = "With" \/ (left[i].kind = "Handler" /\ left[i].saved = None)
    <2> TAKE i \in 1 .. r
    <2>1. i \in 1 .. q /\ i \in 1 .. p
      BY <1>1, <1>3
    <2> QED BY <1>2, <2>1 DEF Framed
  <1>b. \A i \in 1 .. Len(left) : left[i].kind /= "Handler" => Guards(v, left[i], g)
    <2> SUFFICES ASSUME NEW i \in 1 .. q, bl[i].kind /= "Handler"
                 PROVE  Guards(v, bl[i], g)
      BY <1>2
    <2>1. Guards(w, bl[i], f)
      BY <1>4 DEF Framed
    <2>2. Proper(bl, p, i)
      <3>1. i \in 1 .. p => bl[i].kind = "With"
        BY DEF Framed
      <3> QED BY <1>1, <3>1 DEF Proper
    <2>3. At(bl[i]) < k
      BY <1>4, <2>2
    <2> QED BY <1>4, <2>1, <2>3, BelowAgrees, GuardsAgree
  <1>c. \A i \in (r + 1) .. Len(left) : left[i].kind = "Handler" => Handles(v, left[i])
    <2> SUFFICES ASSUME NEW i \in 1 .. q, i > p, bl[i].kind = "Handler"
                 PROVE  Handles(v, bl[i])
      <3>1. \A i \in (r + 1) .. Len(left) : i \in 1 .. q /\ i > r
        BY <1>2, <1>3
      <3>2. \A i \in (r + 1) .. Len(left) : i \in 1 .. q /\ i > p /\ left[i] = bl[i]
        BY <1>2, <1>3, <3>1
      <3> QED BY <3>2
    <2>1. Handles(w, bl[i])
      <3>1. i \in (p + 1) .. Len(bl)
        BY <1>1, <1>4
      <3> QED BY <3>1 DEF Framed
    <2>2. At(bl[i]) < k
      BY <1>4 DEF Proper
    <2> QED BY <2>1, <2>2, BelowAgrees, HandlesAgree
  <1>d. \A i, j \in 1 .. Len(left) :
           i < j /\ left[i].kind /= "Handler" => left[i].depth <= left[j].depth
    BY <1>2, <1>4 DEF Framed
  <1>e. \A i, j \in 1 .. Len(left) :
           i < j /\ Proper(left, r, i) /\ Proper(left, r, j) => Before(left[i], left[j])
    <2> TAKE i, j \in 1 .. Len(left)
    <2>1. i \in 1 .. Len(bl) /\ j \in 1 .. Len(bl) /\ left[i] = bl[i] /\ left[j] = bl[j]
      BY <1>2, <1>4
    <2> QED BY <1>5, <2>1 DEF Framed
  <1>j. \A i, j \in 1 .. Len(left) :
           i < j /\ left[i].kind /= "Handler" /\ v[At(left[i])].kind = "exiting" => Proper(left, r, j)
    <2> SUFFICES ASSUME NEW i \in 1 .. q, NEW j \in 1 .. q, i < j, bl[i].kind /= "Handler",
                        v[At(bl[i])].kind = "exiting"
                 PROVE  Proper(bl, p, j)
      BY <1>2, <1>5
    <2>1. Proper(bl, p, i) /\ At(bl[i]) \in 1 .. Len(w)
      <3>1. i \in 1 .. p => bl[i].kind = "With"
        BY DEF Framed
      <3>2. Guards(w, bl[i], f)
        BY <1>4 DEF Framed
      <3> QED BY <1>1, <3>1, <3>2, OpenedIn DEF Proper, Guards
    <2>2. At(bl[i]) \in 1 .. (k - 1)
      BY <1>4, <1>6, <2>1
    <2>3. w[At(bl[i])].kind = "exiting"
      BY <2>2 DEF Below
    <2> QED BY <1>4, <2>3 DEF Framed
  <1>f. \A m \in Opened(v, Guarding) :
           \E i \in 1 .. Len(left) : left[i].kind /= "Handler" /\ At(left[i]) = m
    <2> TAKE m \in Opened(v, Guarding)
    <2>1. m \in Opened(w, Guarding) /\ m < k
      BY DEF Below
    <2>2. PICK i \in 1 .. Len(bl) : bl[i].kind /= "Handler" /\ At(bl[i]) = m
      BY <2>1 DEF Framed
    <2>3. Proper(bl, p, i)
      <3>1. i \in 1 .. p => bl[i].kind = "With"
        BY <2>2 DEF Framed
      <3> QED BY <1>1, <3>1 DEF Proper
    <2>4. i \in 1 .. Len(left) /\ left[i] = bl[i]
      BY <1>2, <2>1, <2>2, <2>3
    <2> QED BY <2>2, <2>4
  <1>g. \A m \in Opened(v, Handling) :
           \E i \in (r + 1) .. Len(left) : left[i].kind = "Handler" /\ At(left[i]) = m
    <2> TAKE m \in Opened(v, Handling)
    <2>1. m \in Opened(w, Handling) /\ m < k
      BY DEF Below
    <2>2. PICK i \in (p + 1) .. Len(bl) : bl[i].kind = "Handler" /\ At(bl[i]) = m
      BY <2>1 DEF Framed
    <2>3. i \in 1 .. Len(bl) /\ Proper(bl, p, i)
      BY <1>1, <2>2 DEF Proper
    <2>4. i <= q
      BY <2>1, <2>2, <2>3
    <2>5. i \in (r + 1) .. Len(left) /\ left[i] = bl[i]
      BY <1>1, <1>2, <1>3, <2>2, <2>3, <2>4
    <2> QED BY <2>2, <2>5
  <1>h. Outer(w, k) = Outer(v, Len(v) + 1)
    <2>1. {j \in Opened(v, Handling) : j < Len(v) + 1} = {j \in Opened(w, Handling) : j < k}
      <3>1. \A j \in Opened(v, Handling) : j < Len(v) + 1
        BY OpenedIn
      <3> QED BY <3>1 DEF Below
    <2>2. \A j \in Opened(w, Handling) : j < k => v[j].exc = w[j].exc
      BY <1>6, OpenedIn DEF Below
    <2>3. k \in Nat /\ Len(v) + 1 \in Nat
      BY <1>6
    <2>4. Outer(v, Len(v) + 1) = Outer(w, k)
      BY ONLY <2>1, <2>2, <2>3, w \in Seq(Regions), v \in Seq(Regions), OuterSame
    <2> QED BY <2>4
  <1>i. Framed(v, left, Outer(w, k), g, r)
    <2>1. r \in 0 .. Len(left)
      BY <1>2, <1>3
    <2> QED BY <1>2, <2>1, <1>a, <1>b, <1>c, <1>d, <1>e, <1>f, <1>g, <1>h, <1>j DEF Framed
  <1> QED BY <1>i DEF left, r

(***************************************************************************)
(* The blocks when a region is added.                                     *)
(***************************************************************************)
\* A region that leaves no other may be added.
Fresh(w, r) == r \in Regions /\ (r.kind \in Leaving => r.at = Len(w) + 1)

\* The regions that were open stay so.
LEMMA OpenedPush ==
  ASSUME NEW w \in Seq(Regions), NEW r, Fresh(w, r), NEW K
  PROVE  Opened(Append(w, r), K) = Opened(w, K) \cup (IF r.kind \in K THEN {Len(w) + 1} ELSE {})
  <1>1. {k \in Opened(w, K) : r.kind \in Leaving => r.at > k} = Opened(w, K)
    <2>1. \A k \in Opened(w, K) : r.kind \in Leaving => r.at > k
      BY OpenedIn DEF Fresh
    <2> QED BY <2>1
  <1> QED BY <1>1, OpenedAppend DEF Fresh

\* Adding a region changes nothing below it.
LEMMA PushAgrees ==
  ASSUME NEW w \in Seq(Regions), NEW r, Fresh(w, r)
  PROVE  /\ Append(w, r) \in Seq(Regions) /\ Len(Append(w, r)) = Len(w) + 1
         /\ Append(w, r)[Len(w) + 1] = r
         /\ Agree(w, Append(w, r), Len(w) + 1)
  <1> DEFINE v == Append(w, r)
  <1>1. v \in Seq(Regions) /\ Len(v) = Len(w) + 1 /\ v[Len(w) + 1] = r
        /\ \A k \in 1 .. Len(w) : v[k] = w[k]
    BY DEF Fresh
  <1>2. Opened(v, Guarding) = Opened(w, Guarding) \cup (IF r.kind \in Guarding THEN {Len(w) + 1} ELSE {})
    BY OpenedPush
  <1>3. Opened(v, Handling) = Opened(w, Handling) \cup (IF r.kind \in Handling THEN {Len(w) + 1} ELSE {})
    BY OpenedPush
  <1> HIDE DEF v
  <1>4. Agree(w, v, Len(w) + 1)
    BY <1>1, <1>2, <1>3 DEF Agree
  <1> QED BY <1>1, <1>4 DEF v

\* The exception that is current inside the region that is added.
LEMMA OuterPush ==
  ASSUME NEW w \in Seq(Regions), NEW r, Fresh(w, r)
  PROVE  /\ Outer(Append(w, r), Len(w) + 1) = Outer(w, Len(w) + 1)
         /\ Outer(Append(w, r), Len(w) + 2) =
               IF r.kind \in Handling THEN r.exc ELSE Outer(w, Len(w) + 1)
  <1> DEFINE v == Append(w, r)
             n == Len(w) + 1
  <1>1. v \in Seq(Regions) /\ v[n] = r /\ n \in Nat /\ \A k \in 1 .. Len(w) : v[k] = w[k]
    BY DEF Fresh
  <1>2. Opened(v, Handling) = Opened(w, Handling) \cup (IF r.kind \in Handling THEN {n} ELSE {})
    BY OpenedPush
  <1>3. Opened(w, Handling) \subseteq 1 .. Len(w)
    BY OpenedIn
  <1>4. \A j \in Opened(w, Handling) : j < n /\ j < n + 1 /\ v[j].exc = w[j].exc
    BY <1>1, <1>3
  <1> HIDE DEF v
  <1>5. Outer(v, n) = Outer(w, n)
    <2>1. {j \in Opened(v, Handling) : j < n} = {j \in Opened(w, Handling) : j < n}
      BY <1>1, <1>2, <1>3
    <2> QED BY <1>1, <1>4, <2>1, OuterSame
  <1>6. CASE r.kind \notin Handling
    <2>1. {j \in Opened(v, Handling) : j < n + 1} = {j \in Opened(w, Handling) : j < n}
      BY <1>1, <1>2, <1>3, <1>6
    <2>2. Outer(v, n + 1) = Outer(w, n)
      BY <1>1, <1>4, <2>1, OuterSame
    <2> QED BY <1>5, <1>6, <2>2 DEF v
  <1>7. CASE r.kind \in Handling
    <2> DEFINE S == {j \in Opened(v, Handling) : j < n + 1}
    <2>1. S \subseteq 1 .. n /\ n \in S /\ \A j \in S : j <= n
      BY <1>1, <1>2, <1>3, <1>7
    <2>2. LastOr0(S) = n /\ n /= 0
      <3>1. n \in Nat /\ n /= 0
        BY <1>1, <2>1
      <3> HIDE DEF S, n
      <3> QED BY <2>1, <3>1, GreatestIs
    <2>3. Outer(v, n + 1) = r.exc
      BY <1>1, <2>2 DEF Outer
    <2> QED BY <1>5, <1>7, <2>3 DEF v
  <1> QED BY <1>6, <1>7

\* The blocks of the new region are put on top of the others.
LEMMA FramedPush ==
  ASSUME NEW w \in Seq(Regions), NEW r, Fresh(w, r),
         NEW f \in Seq(Nat), NEW g \in Seq(Nat), SameBelow(f, g, Len(w) + 1),
         NEW bl, NEW cur, NEW p \in Nat, Framed(w, bl, cur, f, p),
         NEW more \in Seq(BlockSet),
         \A i \in 1 .. Len(more) :
            /\ At(more[i]) = Len(w) + 1
            /\ \A j \in 1 .. Len(bl) : bl[j].kind /= "Handler" => bl[j].depth <= more[i].depth
            /\ more[i].kind /= "Handler" => Guards(Append(w, r), more[i], g)
            /\ more[i].kind = "Handler" => Handles(Append(w, r), more[i]),
         \A i, j \in 1 .. Len(more) :
            i < j => /\ more[i].kind /= "Handler" /\ more[j].kind = "Handler"
                     /\ more[i].depth <= more[j].depth,
         r.kind \in Guarding => \E i \in 1 .. Len(more) : more[i].kind /= "Handler",
         r.kind \in Handling => \E i \in 1 .. Len(more) : more[i].kind = "Handler"
  PROVE  Framed(Append(w, r), bl \o more, Outer(Append(w, r), Len(w) + 2), g, p)
  <1> DEFINE v == Append(w, r)
             all == bl \o more
             m == Len(bl)
             n == Len(w) + 1
  <1>1. bl \in Seq(BlockSet) /\ m \in Nat /\ Len(more) \in Nat /\ p \in 0 .. m /\ n \in Nat
    BY DEF Framed
  <1>2. /\ all \in Seq(BlockSet) /\ Len(all) = m + Len(more)
        /\ \A i \in 1 .. m : all[i] = bl[i]
        /\ \A i \in 1 .. Len(more) : all[m + i] = more[i]
    BY <1>1
  <1>3. v \in Seq(Regions) /\ Len(v) = n /\ v[n] = r /\ Agree(w, v, n)
    BY PushAgrees
  <1>4. Opened(v, Guarding) = Opened(w, Guarding) \cup (IF r.kind \in Guarding THEN {n} ELSE {})
    BY OpenedPush
  <1>5. Opened(v, Handling) = Opened(w, Handling) \cup (IF r.kind \in Handling THEN {n} ELSE {})
    BY OpenedPush
  <1>6. Opened(w, Guarding) \subseteq 1 .. Len(w) /\ Opened(w, Handling) \subseteq 1 .. Len(w)
    BY OpenedIn
  <1>7. SameBelow(f, g, n) /\ \A i \in 1 .. Len(more) :
            /\ At(more[i]) = n
            /\ \A j \in 1 .. Len(bl) : bl[j].kind /= "Handler" => bl[j].depth <= more[i].depth
            /\ more[i].kind /= "Handler" => Guards(v, more[i], g)
            /\ more[i].kind = "Handler" => Handles(v, more[i])
    OBVIOUS
  <1> HIDE DEF v, all, m, n
  <1>8. \A i \in 1 .. Len(all) : \/ i \in 1 .. m /\ all[i] = bl[i]
                                 \/ i > m /\ i - m \in 1 .. Len(more) /\ all[i] = more[i - m]
    <2> TAKE i \in 1 .. Len(all)
    <2>1. CASE i <= m
      BY <1>1, <1>2, <2>1
    <2>2. CASE i > m
      <3>1. i - m \in 1 .. Len(more) /\ m + (i - m) = i
        BY <1>1, <1>2, <2>2
      <3> QED BY <1>2, <2>2, <3>1
    <2> QED BY <1>1, <2>1, <2>2
  <1>9. \A i \in 1 .. m : bl[i] \in BlockSet /\ i \in 1 .. Len(all)
    BY <1>1, <1>2 DEF m
  <1>10. \A i \in 1 .. m : Proper(all, p, i) <=> Proper(bl, p, i)
    BY <1>2 DEF Proper
  <1>11. \A i \in 1 .. m : Proper(bl, p, i) => At(bl[i]) \in Nat /\ At(bl[i]) < n
    <2> SUFFICES ASSUME NEW i \in 1 .. m, Proper(bl, p, i)
                 PROVE  At(bl[i]) \in 1 .. Len(w)
      BY DEF n
    <2>1. CASE bl[i].kind = "Handler"
      <3>1. i \in (p + 1) .. m
        BY <1>1, <2>1 DEF Proper
      <3> QED BY <1>6, <2>1, <3>1 DEF Framed, Handles, m
    <2>2. CASE bl[i].kind /= "Handler"
      BY <1>6, <2>2 DEF Framed, Guards, m
    <2> QED BY <2>1, <2>2
  <1>a. \A i \in 1 .. p : all[i].kind = "With" \/ (all[i].kind = "Handler" /\ all[i].saved = None)
    <2> TAKE i \in 1 .. p
    <2>1. i \in 1 .. m
      BY <1>1
    <2> QED BY <1>2, <2>1 DEF Framed
  <1>b. \A i \in 1 .. Len(all) : all[i].kind /= "Handler" => Guards(v, all[i], g)
    <2> SUFFICES ASSUME NEW i \in 1 .. m, bl[i].kind /= "Handler"
                 PROVE  Guards(v, bl[i], g)
      BY <1>7, <1>8
    <2>1. Guards(w, bl[i], f)
      BY DEF Framed, m
    <2>2. Proper(bl, p, i)
      <3>1. i \in 1 .. p => bl[i].kind = "With"
        BY DEF Framed
      <3> QED BY <1>1, <3>1 DEF Proper
    <2> QED BY <1>3, <1>7, <1>9, <1>11, <2>1, <2>2, GuardsAgree
  <1>c. \A i \in (p + 1) .. Len(all) : all[i].kind = "Handler" => Handles(v, all[i])
    <2> SUFFICES ASSUME NEW i \in (p + 1) .. m, bl[i].kind = "Handler"
                 PROVE  Handles(v, bl[i])
      <3>1. \A i \in (p + 1) .. Len(all) : i \in 1 .. Len(all) /\ (i \in 1 .. m => i \in (p + 1) .. m)
        BY <1>1
      <3> QED BY <1>7, <1>8, <3>1
    <2>1. Handles(w, bl[i])
      BY DEF Framed, m
    <2>2. i \in 1 .. m /\ Proper(bl, p, i)
      BY <1>1 DEF Proper
    <2> QED BY <1>3, <1>11, <2>1, <2>2, HandlesAgree
  <1>d. \A i, j \in 1 .. Len(all) :
           i < j /\ all[i].kind /= "Handler" => all[i].depth <= all[j].depth
    <2> SUFFICES ASSUME NEW i \in 1 .. Len(all), NEW j \in 1 .. Len(all), i < j, all[i].kind /= "Handler"
                 PROVE  all[i].depth <= all[j].depth
      OBVIOUS
    <2>1. CASE j \in 1 .. m
      <3>1. i \in 1 .. m
        BY <1>1, <2>1
      <3> QED BY <1>2, <2>1, <3>1 DEF Framed, m
    <2>2. CASE j \notin 1 .. m /\ i \in 1 .. m
      <3>1. all[i] = bl[i] /\ i \in 1 .. Len(bl)
        BY <1>2, <2>2 DEF m
      <3>2. j - m \in 1 .. Len(more) /\ all[j] = more[j - m]
        BY <1>8, <2>2
      <3> QED BY <1>7, <3>1, <3>2
    <2>3. CASE j \notin 1 .. m /\ i \notin 1 .. m
      <3>1. i - m \in 1 .. Len(more) /\ all[i] = more[i - m] /\ j - m \in 1 .. Len(more)
            /\ all[j] = more[j - m] /\ i - m < j - m
        BY <1>1, <1>8, <2>3
      <3> QED BY <3>1
    <2> QED BY <2>1, <2>2, <2>3
  <1>e. \A i, j \in 1 .. Len(all) :
           i < j /\ Proper(all, p, i) /\ Proper(all, p, j) => Before(all[i], all[j])
    <2> SUFFICES ASSUME NEW i \in 1 .. Len(all), NEW j \in 1 .. Len(all), i < j,
                        Proper(all, p, i), Proper(all, p, j)
                 PROVE  Before(all[i], all[j])
      OBVIOUS
    <2>1. CASE j \in 1 .. m
      <3>1. i \in 1 .. m
        BY <1>1, <2>1
      <3> QED BY <1>2, <1>10, <2>1, <3>1 DEF Framed, m
    <2>2. CASE j \notin 1 .. m /\ i \in 1 .. m
      <3>1. At(all[j]) = n
        BY <1>7, <1>8, <2>2
      <3>2. At(all[i]) \in Nat /\ At(all[i]) < n
        BY <1>2, <1>10, <1>11, <2>2
      <3> QED BY <3>1, <3>2 DEF Before
    <2>3. CASE j \notin 1 .. m /\ i \notin 1 .. m
      <3>1. i - m \in 1 .. Len(more) /\ all[i] = more[i - m] /\ j - m \in 1 .. Len(more)
            /\ all[j] = more[j - m] /\ i - m < j - m
        BY <1>1, <1>8, <2>3
      <3>2. At(all[i]) = n /\ At(all[j]) = n /\ all[i].kind /= "Handler" /\ all[j].kind = "Handler"
        BY <1>7, <3>1
      <3> QED BY <3>2 DEF Before
    <2> QED BY <2>1, <2>2, <2>3
  <1>j. \A i, j \in 1 .. Len(all) :
           i < j /\ all[i].kind /= "Handler" /\ v[At(all[i])].kind = "exiting" => Proper(all, p, j)
    <2> SUFFICES ASSUME NEW i \in 1 .. Len(all), NEW j \in 1 .. m, i < j, all[i].kind /= "Handler",
                        v[At(all[i])].kind = "exiting"
                 PROVE  Proper(all, p, j)
      BY <1>1, <1>8 DEF Proper
    <2>0. i \in Nat /\ 1 <= i /\ j \in Nat /\ j <= m
      BY <1>1, <1>2
    <2>1. i \in 1 .. m /\ all[i] = bl[i]
      <3>1. i \in 1 .. m
        BY ONLY <1>1, <2>0, i < j
      <3> QED BY <1>2, <3>1
    <2>2. Guards(w, bl[i], f)
      BY <2>1 DEF Framed, m
    <2>3. At(bl[i]) \in 1 .. Len(w)
      BY <1>6, <2>2 DEF Guards
    <2>4. w[At(bl[i])].kind = "exiting"
      BY <1>3, <2>1, <2>3 DEF Agree, n
    <2> QED BY <1>10, <2>1, <2>4 DEF Framed, m
  <1>f. \A k \in Opened(v, Guarding) :
           \E i \in 1 .. Len(all) : all[i].kind /= "Handler" /\ At(all[i]) = k
    <2> TAKE k \in Opened(v, Guarding)
    <2>1. CASE k \in Opened(w, Guarding)
      <3>1. PICK i \in 1 .. m : bl[i].kind /= "Handler" /\ At(bl[i]) = k
        BY <2>1 DEF Framed, m
      <3> QED BY <1>2, <1>9, <3>1
    <2>2. CASE k \notin Opened(w, Guarding)
      <3>1. k = n /\ r.kind \in Guarding
        BY <1>4, <2>2
      <3>2. PICK i \in 1 .. Len(more) : more[i].kind /= "Handler"
        BY <3>1
      <3>3. m + i \in 1 .. Len(all) /\ all[m + i] = more[i]
        BY <1>1, <1>2
      <3> QED BY <1>7, <3>1, <3>2, <3>3
    <2> QED BY <2>1, <2>2
  <1>g. \A k \in Opened(v, Handling) :
           \E i \in (p + 1) .. Len(all) : all[i].kind = "Handler" /\ At(all[i]) = k
    <2> TAKE k \in Opened(v, Handling)
    <2>1. CASE k \in Opened(w, Handling)
      <3>1. PICK i \in (p + 1) .. m : bl[i].kind = "Handler" /\ At(bl[i]) = k
        BY <2>1 DEF Framed, m
      <3>2. i \in 1 .. m /\ i \in (p + 1) .. Len(all)
        BY <1>1, <1>2
      <3> QED BY <1>2, <3>1, <3>2
    <2>2. CASE k \notin Opened(w, Handling)
      <3>1. k = n /\ r.kind \in Handling
        BY <1>5, <2>2
      <3>2. PICK i \in 1 .. Len(more) : more[i].kind = "Handler"
        BY <3>1
      <3>3. m + i \in (p + 1) .. Len(all) /\ all[m + i] = more[i]
        BY <1>1, <1>2
      <3> QED BY <1>7, <3>1, <3>2, <3>3
    <2> QED BY <2>1, <2>2
  <1>h. Len(v) + 1 = Len(w) + 2 /\ p \in 0 .. Len(all)
    BY <1>1, <1>2, <1>3 DEF n
  <1>i. Framed(v, all, Outer(v, Len(w) + 2), g, p)
    BY <1>2, <1>a, <1>b, <1>c, <1>d, <1>e, <1>f, <1>g, <1>h, <1>j DEF Framed
  <1> QED BY <1>i DEF v, all

(***************************************************************************)
(* The values.                                                            *)
(***************************************************************************)
\* What is left when an element is removed.
LEMMA Removed ==
  ASSUME NEW S, NEW s \in Seq(S), NEW i \in 1 .. Len(s)
  PROVE  /\ RemoveAt(s, i) \in Seq(S) /\ Len(RemoveAt(s, i)) = Len(s) - 1
         /\ \A j \in 1 .. (Len(s) - 1) : RemoveAt(s, i)[j] = IF j < i THEN s[j] ELSE s[j + 1]
  <1> DEFINE a == SubSeq(s, 1, i - 1)
             b == SubSeq(s, i + 1, Len(s))
  <1>1. a \in Seq(S) /\ Len(a) = i - 1 /\ \A j \in 1 .. (i - 1) : a[j] = s[j]
    OBVIOUS
  <1>2. b \in Seq(S) /\ Len(b) = Len(s) - i /\ \A j \in 1 .. (Len(s) - i) : b[j] = s[i + j]
    OBVIOUS
  <1>3. RemoveAt(s, i) = a \o b
    BY DEF RemoveAt
  <1> HIDE DEF a, b
  <1>4. (a \o b) \in Seq(S) /\ Len(a \o b) = Len(s) - 1
    <2>1. Len(s) \in Nat /\ i \in Nat /\ (i - 1) + (Len(s) - i) = Len(s) - 1
      OBVIOUS
    <2>2. (a \o b) \in Seq(S) /\ Len(a \o b) = Len(a) + Len(b)
      BY <1>1, <1>2, ConcatProperties
    <2> QED BY <1>1, <1>2, <2>1, <2>2
  <1>5. ASSUME NEW j \in 1 .. (Len(s) - 1)
        PROVE  (a \o b)[j] = IF j < i THEN s[j] ELSE s[j + 1]
    <2>1. CASE j < i
      BY <1>1, <1>2, <2>1
    <2>2. CASE j >= i
      <3>1. (a \o b)[j] = b[j - Len(a)]
        BY <1>1, <1>2, <2>2
      <3>2. j - Len(a) \in 1 .. (Len(s) - i) /\ i + (j - Len(a)) = j + 1
        BY <1>1, <2>2
      <3>3. ~(j < i)
        BY <2>2
      <3> QED BY <1>2, <3>1, <3>2, <3>3
    <2>3. j < i \/ j >= i
      OBVIOUS
    <2> QED BY <2>1, <2>2, <2>3
  <1> QED BY <1>3, <1>4, <1>5

\* One and two elements at the end of a sequence.
LEMMA TwoMore ==
  ASSUME NEW S, NEW s \in Seq(S), NEW a \in S, NEW b \in S
  PROVE  s \o <<a>> = Append(s, a) /\ s \o <<a, b>> = Append(Append(s, a), b)
  <1>1. s \o <<a>> = Append(s, a) /\ Append(s, a) \in Seq(S)
    BY AppendIsConcat, AppendProperties
  <1>2. Append(s, a) \o <<b>> = Append(Append(s, a), b)
    BY <1>1, AppendIsConcat
  <1>4. <<a>> \in Seq(S) /\ <<b>> \in Seq(S)
    OBVIOUS
  <1>3. <<a>> \o <<b>> = <<a, b>>
    <2>1. <<a>> \o <<b>> = Append(<<a>>, b)
      BY <1>4, AppendIsConcat
    <2>2. Append(<<a>>, b) \in Seq(S) /\ Len(Append(<<a>>, b)) = Len(<<a>>) + 1
      BY <1>4, AppendProperties
    <2>3. Append(<<a>>, b)[Len(<<a>>) + 1] = b /\ \A i \in 1 .. Len(<<a>>) : Append(<<a>>, b)[i] = <<a>>[i]
      BY <1>4, AppendProperties
    <2>4. Len(<<a>>) = 1 /\ <<a>>[1] = a /\ Len(<<a, b>>) = 2 /\ <<a, b>>[1] = a /\ <<a, b>>[2] = b
          /\ <<a, b>> \in Seq(S)
      OBVIOUS
    <2>5. Append(<<a>>, b)[1] = a /\ Append(<<a>>, b)[2] = b /\ Len(Append(<<a>>, b)) = 2
      BY <2>2, <2>3, <2>4
    <2>6. \A i \in 1 .. 2 : i = 1 \/ i = 2
      OBVIOUS
    <2>7. \A i \in 1 .. 2 : Append(<<a>>, b)[i] = <<a, b>>[i]
      BY <2>4, <2>5, <2>6
    <2> QED BY <2>1, <2>2, <2>4, <2>5, <2>7, SeqEqual
  <1>5. (s \o <<a>>) \o <<b>> = s \o (<<a>> \o <<b>>)
    BY <1>4, ConcatAssociative
  <1> QED BY <1>1, <1>2, <1>3, <1>5

\* The positions of a rising sequence with a value below m are the first ones.
LEMMA RisesTo ==
  ASSUME NEW f \in Seq(Nat), Rises(f), NEW m \in Nat
  PROVE  \E d \in 0 .. Len(f) : \A j \in 1 .. Len(f) : j <= d <=> f[j] < m
  <1> DEFINE S == {j \in 1 .. Len(f) : f[j] < m}
  <1>1. CASE S = {}
    <2>1. \A j \in 1 .. Len(f) : j <= 0 <=> f[j] < m
      BY <1>1
    <2>2. 0 \in 0 .. Len(f)
      OBVIOUS
    <2> HIDE DEF S
    <2> QED BY <2>1, <2>2
  <1>2. CASE S /= {}
    <2>1. S \subseteq 1 .. Len(f) /\ Len(f) \in Nat
      OBVIOUS
    <2>2. LastOr0(S) \in S /\ \A j \in S : j <= LastOr0(S)
      <3> HIDE DEF S
      <3> QED BY <1>2, <2>1, Greatest
    <2>3. PICK d \in 1 .. Len(f) : f[d] < m /\ \A j \in 1 .. Len(f) : f[j] < m => j <= d
      BY <2>1, <2>2
    <2>4. \A j \in 1 .. Len(f) : j <= d => f[j] < m
      <3> SUFFICES ASSUME NEW j \in 1 .. Len(f), j < d PROVE f[j] < m
        BY <2>3
      <3>1. f[j] < f[d] /\ f[j] \in Nat /\ f[d] \in Nat
        BY DEF Rises
      <3> QED BY <2>3, <3>1
    <2>5. d \in 0 .. Len(f) /\ \A j \in 1 .. Len(f) : j <= d <=> f[j] < m
      BY <2>1, <2>3, <2>4
    <2> QED BY ONLY <2>5
  <1> QED BY <1>1, <1>2

\* Nothing about the values changes.
LEMMA ValuedSame ==
  ASSUME NEW w, NEW v, NEW st, NEW f, Valued(w, st, f),
         Holding(v) = Holding(w), \A k \in Holding(w) : ValueOf(v[k]) = ValueOf(w[k])
  PROVE  Valued(v, st, f)
  BY DEF Valued

\* Values that do not change keep their places.
LEMMA SameBelowSame ==
  ASSUME NEW f \in Seq(Nat), NEW k
  PROVE  SameBelow(f, f, k)
  BY DEF SameBelow

\* The values of the regions from m on are dropped.
LEMMA ValuedCut ==
  ASSUME NEW w, NEW v, NEW st, NEW f, Valued(w, st, f), NEW m \in Nat,
         Holding(v) = {k \in Holding(w) : k < m},
         \A k \in Holding(v) : ValueOf(v[k]) = ValueOf(w[k]),
         NEW d \in 0 .. Len(f), \A j \in 1 .. Len(f) : j <= d <=> f[j] < m
  PROVE  /\ Valued(v, SubSeq(st, 1, d), SubSeq(f, 1, d))
         /\ SameBelow(f, SubSeq(f, 1, d), m)
         /\ SubSeq(f, 1, d) \in Seq(Nat) /\ Len(SubSeq(f, 1, d)) = d
  <1> DEFINE g == SubSeq(f, 1, d)
             sv == SubSeq(st, 1, d)
  <1>1. f \in Seq(Nat) /\ st \in Seq(Values) /\ Len(f) = Len(st)
    BY DEF Valued
  <1>2. g \in Seq(Nat) /\ Len(g) = d /\ \A j \in 1 .. d : g[j] = f[j]
    BY <1>1
  <1>3. sv \in Seq(Values) /\ Len(sv) = d /\ \A j \in 1 .. d : sv[j] = st[j]
    BY <1>1
  <1>4. \A j \in 1 .. d : j \in 1 .. Len(f) /\ f[j] < m
    BY <1>1
  <1> HIDE DEF g, sv
  <1>5. SameBelow(f, g, m)
    BY <1>1, <1>2, <1>4 DEF SameBelow
  <1>6. Rises(g)
    BY <1>2, <1>4 DEF Valued, Rises
  <1>7. \A j \in 1 .. Len(g) : g[j] \in Holding(v) /\ sv[j] = ValueOf(v[g[j]])
    <2> TAKE j \in 1 .. Len(g)
    <2>1. f[j] \in Holding(w) /\ st[j] = ValueOf(w[f[j]]) /\ f[j] < m
      BY <1>2, <1>4 DEF Valued
    <2> QED BY <1>2, <1>3, <2>1
  <1>8. \A k \in Holding(v) : \E j \in 1 .. Len(g) : g[j] = k
    <2> TAKE k \in Holding(v)
    <2>1. PICK j \in 1 .. Len(f) : f[j] = k
      BY DEF Valued
    <2>2. j \in 1 .. d
      BY <2>1
    <2> QED BY <1>2, <2>1, <2>2
  <1>9. Valued(v, sv, g)
    BY <1>2, <1>3, <1>6, <1>7, <1>8 DEF Valued
  <1> QED BY <1>2, <1>5, <1>9 DEF g, sv

\* A value is added for a region outside all the others.
LEMMA ValuedPush ==
  ASSUME NEW w, NEW v, NEW st, NEW f, Valued(w, st, f), NEW n \in Nat,
         Holding(v) = Holding(w) \cup {n}, \A k \in Holding(w) : k < n,
         \A k \in Holding(w) : ValueOf(v[k]) = ValueOf(w[k]),
         ValueOf(v[n]) \in Values
  PROVE  /\ Valued(v, Append(st, ValueOf(v[n])), Append(f, n))
         /\ SameBelow(f, Append(f, n), n)
         /\ Append(f, n) \in Seq(Nat) /\ Len(Append(f, n)) = Len(f) + 1
  <1> DEFINE g == Append(f, n)
             sv == Append(st, ValueOf(v[n]))
  <1>1. f \in Seq(Nat) /\ st \in Seq(Values) /\ Len(f) = Len(st) /\ Len(f) \in Nat
    BY DEF Valued
  <1>2. g \in Seq(Nat) /\ Len(g) = Len(f) + 1 /\ g[Len(f) + 1] = n /\ \A j \in 1 .. Len(f) : g[j] = f[j]
    BY <1>1
  <1>3. /\ sv \in Seq(Values) /\ Len(sv) = Len(f) + 1 /\ sv[Len(f) + 1] = ValueOf(v[n])
        /\ \A j \in 1 .. Len(f) : sv[j] = st[j]
    BY <1>1
  <1>4. \A j \in 1 .. Len(f) : f[j] \in Holding(w) /\ f[j] < n /\ st[j] = ValueOf(w[f[j]])
    BY DEF Valued
  <1> HIDE DEF g, sv
  <1>5. 1 .. Len(g) = 1 .. Len(f) \cup {Len(f) + 1}
    BY <1>1, <1>2
  <1>6. SameBelow(f, g, n)
    BY <1>1, <1>2, <1>5 DEF SameBelow
  <1>7. Rises(g)
    <2> SUFFICES ASSUME NEW i \in 1 .. Len(g), NEW j \in 1 .. Len(g), i < j
                 PROVE  g[i] < g[j]
      BY DEF Rises
    <2>1. i \in 1 .. Len(f)
      BY <1>1, <1>2
    <2>2. CASE j \in 1 .. Len(f)
      BY <1>2, <2>1, <2>2 DEF Valued, Rises
    <2>3. CASE j = Len(f) + 1
      BY <1>2, <1>4, <2>1, <2>3
    <2> QED BY <1>5, <2>2, <2>3
  <1>8. \A j \in 1 .. Len(g) : g[j] \in Holding(v) /\ sv[j] = ValueOf(v[g[j]])
    BY <1>2, <1>3, <1>4, <1>5
  <1>9. \A k \in Holding(v) : \E j \in 1 .. Len(g) : g[j] = k
    <2> TAKE k \in Holding(v)
    <2>1. CASE k = n
      BY <1>1, <1>2, <2>1
    <2>2. CASE k \in Holding(w)
      <3>1. PICK j \in 1 .. Len(f) : f[j] = k
        BY <2>2 DEF Valued
      <3> QED BY <1>2, <1>5, <3>1
    <2> QED BY <2>1, <2>2
  <1>10. Valued(v, sv, g)
    BY <1>1, <1>2, <1>3, <1>7, <1>8, <1>9 DEF Valued
  <1> QED BY <1>2, <1>6, <1>10 DEF g, sv

\* The value of region m is removed from between the others.
LEMMA ValuedRemove ==
  ASSUME NEW w, NEW v, NEW st, NEW f, Valued(w, st, f), NEW s \in 1 .. Len(f),
         Holding(v) = Holding(w) \ {f[s]},
         \A k \in Holding(v) : ValueOf(v[k]) = ValueOf(w[k])
  PROVE  /\ Valued(v, RemoveAt(st, s), RemoveAt(f, s))
         /\ SameBelow(f, RemoveAt(f, s), f[s])
         /\ RemoveAt(f, s) \in Seq(Nat) /\ Len(RemoveAt(f, s)) = Len(f) - 1
  <1> DEFINE g == RemoveAt(f, s)
             sv == RemoveAt(st, s)
             n == Len(f)
  <1>1. f \in Seq(Nat) /\ st \in Seq(Values) /\ n = Len(st) /\ n \in Nat /\ s \in 1 .. n
    BY DEF Valued
  <1>2. /\ g \in Seq(Nat) /\ Len(g) = n - 1
        /\ \A j \in 1 .. (n - 1) : g[j] = IF j < s THEN f[j] ELSE f[j + 1]
    BY ONLY <1>1, Removed
  <1>3. /\ sv \in Seq(Values) /\ Len(sv) = n - 1
        /\ \A j \in 1 .. (n - 1) : sv[j] = IF j < s THEN st[j] ELSE st[j + 1]
    BY <1>1, Removed
  <1>4. \A j \in 1 .. n : f[j] \in Holding(w) /\ f[j] \in Nat /\ st[j] = ValueOf(w[f[j]])
    BY <1>1 DEF Valued
  <1>5. \A i, j \in 1 .. n : i < j => f[i] < f[j]
    BY DEF Valued, Rises
  <1> HIDE DEF g, sv, n
  <1>6. \A j \in 1 .. n : f[j] < f[s] <=> j < s
    BY <1>1, <1>4, <1>5
  <1>7. \A j \in 1 .. (n - 1) : j \in 1 .. n /\ j + 1 \in 1 .. n /\ (j >= s => j + 1 > s)
    BY <1>1
  <1>8. SameBelow(f, g, f[s])
    <2>1. \A j \in 1 .. n : f[j] < f[s] => j \in 1 .. (n - 1) /\ g[j] = f[j]
      BY <1>1, <1>2, <1>6
    <2>2. \A j \in 1 .. (n - 1) : g[j] < f[s] => f[j] = g[j]
      <3> TAKE j \in 1 .. (n - 1)
      <3>1. j >= s => ~(f[j + 1] < f[s])
        BY <1>1, <1>6, <1>7
      <3> QED BY <1>2, <3>1
    <2> QED BY <1>1, <1>2, <1>7, <2>1, <2>2 DEF SameBelow, n
  <1>9. Rises(g)
    <2> SUFFICES ASSUME NEW i \in 1 .. (n - 1), NEW j \in 1 .. (n - 1), i < j
                 PROVE  g[i] < g[j]
      BY <1>2 DEF Rises
    <2>1. i < s \/ i >= s
      BY <1>1
    <2>2. j < s \/ j >= s
      BY <1>1
    <2>3. i < j + 1 /\ i + 1 < j + 1
      OBVIOUS
    <2>4. f[i] < f[j] /\ f[i] < f[j + 1] /\ f[i + 1] < f[j + 1]
      BY <1>5, <1>7, <2>3
    <2>5. i >= s => j >= s
      BY <1>1
    <2> QED BY <1>2, <2>4, <2>5
  <1>10. \A j \in 1 .. Len(g) : g[j] \in Holding(v) /\ sv[j] = ValueOf(v[g[j]])
    <2> SUFFICES ASSUME NEW j \in 1 .. (n - 1)
                 PROVE  g[j] \in Holding(v) /\ sv[j] = ValueOf(v[g[j]])
      BY <1>2
    <2>1. PICK i \in 1 .. n : i /= s /\ g[j] = f[i] /\ sv[j] = st[i]
      <3>1. CASE j < s
        BY <1>2, <1>3, <1>7, <3>1
      <3>2. CASE j >= s
        <4>1. j + 1 \in 1 .. n /\ j + 1 /= s /\ g[j] = f[j + 1] /\ sv[j] = st[j + 1]
          BY <1>1, <1>2, <1>3, <1>7, <3>2
        <4> QED BY <4>1
      <3> QED BY <1>1, <3>1, <3>2
    <2>2. f[i] /= f[s]
      <3>1. i < s \/ s < i
        BY <1>1, <2>1
      <3>2. f[i] < f[s] \/ f[s] < f[i]
        BY <1>1, <1>5, <3>1
      <3> QED BY <1>1, <1>4, <3>2
    <2>3. f[i] \in Holding(v) /\ st[i] = ValueOf(w[f[i]])
      BY <1>4, <2>2
    <2> QED BY <2>1, <2>3
  <1>11. \A k \in Holding(v) : \E j \in 1 .. Len(g) : g[j] = k
    <2> TAKE k \in Holding(v)
    <2>1. PICK i \in 1 .. n : f[i] = k /\ i /= s
      BY DEF Valued, n
    <2>2. CASE i < s
      <3>1. i \in 1 .. (n - 1) /\ g[i] = f[i]
        BY <1>1, <1>2, <2>2
      <3> QED BY <1>2, <2>1, <3>1
    <2>3. CASE i > s
      <3>1. i - 1 \in 1 .. (n - 1) /\ ~(i - 1 < s) /\ i - 1 + 1 = i
        BY <1>1, <2>3
      <3>2. g[i - 1] = f[i]
        BY <1>2, <3>1
      <3> QED BY <1>2, <2>1, <3>1, <3>2
    <2> QED BY <1>1, <2>1, <2>2, <2>3
  <1>12. Valued(v, sv, g)
    BY <1>2, <1>3, <1>9, <1>10, <1>11 DEF Valued
  <1> QED BY <1>2, <1>8, <1>12 DEF g, sv, n

(***************************************************************************)
(* The shape of the regions, and the cleanups they owe.                   *)
(***************************************************************************)
\* What a region must be depends on the regions up to it.
LEMMA FitsAgree ==
  ASSUME NEW w \in Seq(Regions), NEW v \in Seq(Regions), NEW k \in 1 .. Len(w), k <= Len(v),
         \A i \in 1 .. k : v[i] = w[i],
         NEW n \in Nat, NEW m \in Nat, n <= m, RegionFits(w, k, n)
  PROVE  RegionFits(v, k, m)
  <1>1. v[k] = w[k] /\ k \in Nat
    OBVIOUS
  <1>2. \A i \in 1 .. k : Held(v, i, k) <=> Held(w, i, k)
    BY <1>1 DEF Held
  <1>3. \A i \in 1 .. (k - 1) : i \in 1 .. k
    OBVIOUS
  <1>4. CrossesNoTry(w, k) => CrossesNoTry(v, k)
    BY <1>2, <1>3 DEF CrossesNoTry
  <1>5. ASSUME NEW t \in 1 .. k, LoopOf(w, k, t)
        PROVE  LoopOf(v, k, t)
    <2>1. \A i \in (t + 1) .. k : i \in 1 .. k
      OBVIOUS
    <2>2. \A i \in 1 .. t : i \in 1 .. k
      OBVIOUS
    <2> QED BY <1>2, <1>5, <2>1, <2>2 DEF LoopOf
  <1>6. v[k].kind \in Leaving => JumpFits(v, k)
    BY <1>1, <1>4, <1>5 DEF RegionFits, JumpFits
  <1>7. v[k].kind \notin Leaving =>
          /\ v[k].id \in 1 .. m
          /\ \A j \in 1 .. (k - 1) : v[j].kind \notin Leaving => v[j].id /= v[k].id
    BY <1>1, <1>3 DEF RegionFits
  <1> QED BY <1>1, <1>6, <1>7 DEF RegionFits

\* The regions up to t, and a region that fits after them.
LEMMA ShapedPut ==
  ASSUME NEW w, NEW n \in Nat, Shaped(w, n), NEW t \in 0 .. Len(w),
         \A k \in 1 .. t : w[k].kind \notin Brief,
         NEW r \in Regions, NEW m \in Nat, n <= m,
         RegionFits(Append(SubSeq(w, 1, t), r), t + 1, m)
  PROVE  Shaped(Append(SubSeq(w, 1, t), r), m)
  <1> DEFINE v == Append(SubSeq(w, 1, t), r)
  <1>1. w \in Seq(Regions)
    BY DEF Shaped
  <1>2. v \in Seq(Regions) /\ Len(v) = t + 1 /\ v[t + 1] = r /\ \A i \in 1 .. t : v[i] = w[i]
    BY <1>1
  <1>3. RegionFits(v, t + 1, m)
    OBVIOUS
  <1> HIDE DEF v
  <1>4. ASSUME NEW k \in 1 .. t
        PROVE  RegionFits(v, k, m) /\ v[k].kind \notin Brief
    <2>1. RegionFits(w, k, n) /\ k \in 1 .. Len(w) /\ k <= Len(v) /\ \A i \in 1 .. k : v[i] = w[i]
      BY <1>2 DEF Shaped
    <2> QED BY <1>1, <1>2, <2>1, FitsAgree
  <1>5. 1 .. Len(v) = 1 .. t \cup {t + 1}
    BY <1>2
  <1>6. Shaped(v, m)
    BY <1>2, <1>3, <1>4, <1>5 DEF Shaped
  <1> QED BY <1>6 DEF v

\* The regions up to t have the shape that they had.
LEMMA ShapedCut ==
  ASSUME NEW w, NEW n \in Nat, Shaped(w, n), NEW t \in 0 .. Len(w)
  PROVE  Shaped(SubSeq(w, 1, t), n)
  <1> DEFINE v == SubSeq(w, 1, t)
  <1>1. w \in Seq(Regions)
    BY DEF Shaped
  <1>2. v \in Seq(Regions) /\ Len(v) = t /\ \A i \in 1 .. t : v[i] = w[i]
    BY <1>1
  <1> HIDE DEF v
  <1>3. ASSUME NEW k \in 1 .. t
        PROVE  RegionFits(v, k, n) /\ (v[k].kind \in Brief => k = Len(v))
    <2>1. RegionFits(w, k, n) /\ k \in 1 .. Len(w) /\ k <= Len(v) /\ \A i \in 1 .. k : v[i] = w[i]
      BY <1>2 DEF Shaped
    <2>2. v[k].kind \in Brief => k = Len(w)
      BY <1>2, <2>1 DEF Shaped
    <2> QED BY <1>1, <1>2, <2>1, <2>2, FitsAgree
  <1>4. Shaped(v, n)
    BY <1>2, <1>3 DEF Shaped
  <1> QED BY <1>4 DEF v

\* A region that takes the place of region t, with its identity.
LEMMA ShapedTurn ==
  ASSUME NEW w, NEW n \in Nat, Shaped(w, n), NEW t \in 1 .. Len(w), w[t].kind \notin Leaving,
         NEW r \in Regions, r.kind \notin Leaving \cup Protected, r.id = w[t].id,
         r.kind \in Handling => r.exc /= None /\ r = Region(r.kind, r.id, r.exc)
  PROVE  Shaped(Append(SubSeq(w, 1, t - 1), r), n)
  <1> DEFINE v == Append(SubSeq(w, 1, t - 1), r)
  <1>1. w \in Seq(Regions) /\ t \in Nat /\ t - 1 \in 0 .. Len(w)
    BY DEF Shaped
  <1>2. Len(v) = t /\ v[t] = r /\ \A i \in 1 .. (t - 1) : v[i] = w[i]
    BY <1>1
  <1>3. \A k \in 1 .. (t - 1) : w[k].kind \notin Brief
    BY DEF Shaped
  <1> HIDE DEF v
  <1>4. RegionFits(w, t, n)
    BY DEF Shaped
  <1>5. RegionFits(v, t, n)
    BY <1>2, <1>4 DEF RegionFits
  <1>6. RegionFits(v, t - 1 + 1, n)
    BY <1>1, <1>5
  <1> QED BY <1>1, <1>3, <1>6, ShapedPut DEF v

\* A region of a construct that is entered.
LEMMA ShapedNew ==
  ASSUME NEW w, NEW n \in Nat, Shaped(w, n), \A k \in 1 .. Len(w) : w[k].kind \notin Brief,
         NEW kind \in Protected \cup Loops
  PROVE  Shaped(Append(w, Region(kind, n + 1, None)), n + 1)
  <1> DEFINE r == Region(kind, n + 1, None)
             v == Append(w, r)
  <1>1. w \in Seq(Regions) /\ Len(w) \in Nat /\ SubSeq(w, 1, Len(w)) = w
    BY DEF Shaped
  <1>2. /\ r \in Regions /\ r.kind = kind /\ r.id = n + 1 /\ r.kind \notin Leaving
        /\ r.kind \notin Handling
    BY DEF Region, Regions, Kinds, Protected, Loops, Leaving, Handling
  <1>3. v[Len(w) + 1] = r /\ \A i \in 1 .. Len(w) : v[i] = w[i]
    BY <1>1
  <1>4. \A j \in 1 .. Len(w) : w[j].kind \notin Leaving => w[j].id \in 1 .. n
    BY DEF Shaped, RegionFits
  <1>5. RegionFits(v, Len(w) + 1, n + 1)
    <2>1. r.id \in 1 .. (n + 1) /\ r = Region(r.kind, r.id, None)
      BY <1>2
    <2>2. \A j \in 1 .. (Len(w) + 1 - 1) : v[j].kind \notin Leaving => v[j].id /= r.id
      BY <1>1, <1>2, <1>3, <1>4
    <2> HIDE DEF v, r
    <2> QED BY <1>2, <1>3, <2>1, <2>2 DEF RegionFits
  <1> HIDE DEF r
  <1>6. Shaped(Append(SubSeq(w, 1, Len(w)), r), n + 1)
    <2>1. Len(w) \in 0 .. Len(w) /\ n + 1 \in Nat /\ n <= n + 1
      BY <1>1
    <2>2. RegionFits(Append(SubSeq(w, 1, Len(w)), r), Len(w) + 1, n + 1)
      BY <1>1, <1>5
    <2> QED BY <1>2, <2>1, <2>2, ShapedPut
  <1> QED BY <1>1, <1>6 DEF r

\* The cleanups are of constructs entered.
LEMMA CleanupsIn ==
  ASSUME NEW w, NEW n \in Nat, Shaped(w, n)
  PROVE  Cleanups(w) \subseteq 1 .. n
  <1>1. w \in Seq(Regions)
    BY DEF Shaped
  <1>2. \A k \in Opened(w, HasCleanup \cup {"exiting"}) : k \in 1 .. Len(w) /\ w[k].kind \notin Leaving
    BY <1>1 DEF Opened, HasCleanup, Leaving
  <1> QED BY <1>2 DEF Cleanups, Shaped, RegionFits

\* The same regions owe their cleanups.
LEMMA CleanupsSame ==
  ASSUME NEW w, NEW v,
         Opened(v, HasCleanup \cup {"exiting"}) = Opened(w, HasCleanup \cup {"exiting"}),
         \A j \in Opened(w, HasCleanup \cup {"exiting"}) : v[j].id = w[j].id
  PROVE  Cleanups(v) = Cleanups(w)
  BY DEF Cleanups

\* Region k, and no other, is no more open.
LEMMA CleanupsLess ==
  ASSUME NEW w, NEW n \in Nat, Shaped(w, n), NEW v,
         NEW k \in Opened(w, HasCleanup \cup {"exiting"}),
         Opened(v, HasCleanup \cup {"exiting"}) = Opened(w, HasCleanup \cup {"exiting"}) \ {k},
         \A j \in Opened(w, HasCleanup \cup {"exiting"}) \ {k} : v[j].id = w[j].id
  PROVE  Cleanups(v) = Cleanups(w) \ {w[k].id} /\ w[k].id \in Cleanups(w)
  <1> DEFINE S == Opened(w, HasCleanup \cup {"exiting"})
  <1>1. w \in Seq(Regions)
    BY DEF Shaped
  <1>2. \A j \in S : j \in 1 .. Len(w) /\ w[j].kind \notin Leaving
    BY <1>1 DEF Opened, HasCleanup, Leaving
  <1>3. ASSUME NEW j \in S, j /= k
        PROVE  w[j].id /= w[k].id
    <2>1. RegionFits(w, j, n) /\ RegionFits(w, k, n) /\ j \in 1 .. Len(w) /\ k \in 1 .. Len(w)
      BY <1>2 DEF Shaped
    <2>2. j \in 1 .. (k - 1) \/ k \in 1 .. (j - 1)
      BY <1>3, <2>1
    <2> QED BY <1>2, <2>1, <2>2 DEF RegionFits
  <1> HIDE DEF S
  <1>4. Cleanups(w) = {w[j].id : j \in S} /\ Cleanups(v) = {v[j].id : j \in S \ {k}} /\ k \in S
        /\ \A j \in S \ {k} : v[j].id = w[j].id
    BY DEF Cleanups, S
  <1> QED BY <1>3, <1>4

\* The cleanups owed depend only on those that are open.
LEMMA AccountedSame ==
  ASSUME NEW w, NEW v, NEW c, Accounted(w, c), Cleanups(v) = Cleanups(w)
  PROVE  Accounted(v, c)
  BY DEF Accounted

\* One cleanup is paid for.
LEMMA AccountedPaid ==
  ASSUME NEW w, NEW v, NEW c, Accounted(w, c), Shaped(w, Len(c)), NEW id \in Cleanups(w),
         Cleanups(v) = Cleanups(w) \ {id}
  PROVE  Accounted(v, Paid(c, id)) /\ Len(Paid(c, id)) = Len(c)
  <1>1. c \in Seq(Int) /\ Len(c) \in Nat /\ DOMAIN c = 1 .. Len(c)
    BY DEF Accounted
  <1>2. id \in DOMAIN c
    BY <1>1, CleanupsIn
  <1>3. c[id] = 1
    BY <1>2 DEF Accounted
  <1>4. /\ Paid(c, id) \in Seq(Int) /\ Len(Paid(c, id)) = Len(c) /\ DOMAIN Paid(c, id) = DOMAIN c
        /\ \A i \in DOMAIN c : Paid(c, id)[i] = IF i = id THEN 0 ELSE c[i]
    BY <1>1, <1>2, <1>3 DEF Paid
  <1> QED BY <1>4 DEF Accounted

\* One construct is entered.
LEMMA AccountedNew ==
  ASSUME NEW w, NEW v, NEW c, Accounted(w, c), Shaped(w, Len(c)), NEW kind,
         Cleanups(v) = Cleanups(w) \cup (IF kind \in HasCleanup THEN {Len(c) + 1} ELSE {})
  PROVE  Accounted(v, Append(c, Debt(kind))) /\ Len(Append(c, Debt(kind))) = Len(c) + 1
  <1> DEFINE d == Append(c, Debt(kind))
  <1>1. c \in Seq(Int) /\ Len(c) \in Nat /\ DOMAIN c = 1 .. Len(c)
    BY DEF Accounted
  <1>2. Cleanups(w) \subseteq 1 .. Len(c)
    BY <1>1, CleanupsIn
  <1>3. Debt(kind) \in Int /\ Debt(kind) = IF kind \in HasCleanup THEN 1 ELSE 0
    BY DEF Debt
  <1>4. /\ d \in Seq(Int) /\ Len(d) = Len(c) + 1 /\ d[Len(c) + 1] = Debt(kind)
        /\ \A i \in 1 .. Len(c) : d[i] = c[i]
    BY <1>1, <1>3
  <1> HIDE DEF d
  <1>5. DOMAIN d = 1 .. Len(c) \cup {Len(c) + 1}
    BY <1>1, <1>4
  <1>6. ASSUME NEW i \in DOMAIN d
        PROVE  d[i] = IF i \in Cleanups(v) THEN 1 ELSE 0
    <2>1. CASE i \in 1 .. Len(c)
      <3>1. i /= Len(c) + 1 /\ c[i] = IF i \in Cleanups(w) THEN 1 ELSE 0
        BY <1>1, <2>1 DEF Accounted
      <3> QED BY <1>4, <2>1, <3>1
    <2>2. CASE i = Len(c) + 1
      <3>1. i \notin Cleanups(w)
        BY <1>1, <1>2, <2>2
      <3> QED BY <1>3, <1>4, <2>2, <3>1
    <2> QED BY <1>5, <2>1, <2>2
  <1>7. Accounted(v, d)
    BY <1>4, <1>6 DEF Accounted
  <1> QED BY <1>4, <1>7 DEF d

(***************************************************************************)
(* Which block is the one of the innermost region.                        *)
(***************************************************************************)
\* The blocks that belong to a region are where Framed looks for them.
LEMMA ProperBlocks ==
  ASSUME NEW w \in Seq(Regions), NEW f, NEW bl, NEW cur, NEW p \in Nat, Framed(w, bl, cur, f, p),
         NEW i \in 1 .. Len(bl)
  PROVE  /\ bl[i] \in BlockSet
         /\ bl[i].kind /= "Handler" => Proper(bl, p, i) /\ Guards(w, bl[i], f)
         /\ bl[i].kind = "Handler" /\ Proper(bl, p, i) => i \in (p + 1) .. Len(bl) /\ Handles(w, bl[i])
         /\ Proper(bl, p, i) => At(bl[i]) \in 1 .. Len(w)
                                /\ At(bl[i]) \in Opened(w, Guarding) \cup Opened(w, Handling)
  <1>1. bl \in Seq(BlockSet) /\ Len(bl) \in Nat /\ p \in 0 .. Len(bl)
    BY DEF Framed
  <1>2. bl[i] \in BlockSet
    BY <1>1
  <1>3. CASE bl[i].kind /= "Handler"
    <2>1. i \in 1 .. p => bl[i].kind = "With"
      BY <1>3 DEF Framed
    <2>2. Proper(bl, p, i) /\ Guards(w, bl[i], f)
      BY <1>1, <1>3, <2>1 DEF Proper, Framed
    <2> QED BY <1>2, <1>3, <2>2, OpenedIn DEF Guards
  <1>4. CASE bl[i].kind = "Handler"
    <2>1. Proper(bl, p, i) => i \in (p + 1) .. Len(bl)
      BY <1>1, <1>4 DEF Proper
    <2>2. Proper(bl, p, i) => Handles(w, bl[i])
      BY <1>4, <2>1 DEF Framed
    <2> QED BY <1>2, <1>4, <2>1, <2>2, OpenedIn DEF Handles
  <1> QED BY <1>3, <1>4

\* Not a with: its block is on top.
LEMMA TopBlock ==
  ASSUME NEW w \in Seq(Regions), NEW f, NEW bl, NEW cur, NEW p \in Nat, Framed(w, bl, cur, f, p),
         NEW k \in Opened(w, {"try", "guard", "clauses", "handler", "cleanup"}),
         \A j \in Opened(w, Guarding) \cup Opened(w, Handling) : j <= k
  PROVE  /\ Len(bl) \in Nat \ {0} /\ At(bl[Len(bl)]) = k
         /\ bl[Len(bl)].kind = "Handler" <=> w[k].kind \in Handling
         /\ \A i \in 1 .. Len(bl) : Proper(bl, p, i) => (i <= Len(bl) - 1 <=> At(bl[i]) < k)
         /\ bl[Len(bl)].kind = "Handler" => bl[Len(bl)].saved = Outer(w, k)
  <1>1. bl \in Seq(BlockSet) /\ Len(bl) \in Nat /\ p \in 0 .. Len(bl)
    BY DEF Framed
  <1>2. k \in 1 .. Len(w) /\ w[k].kind \in {"try", "guard", "clauses", "handler", "cleanup"}
    BY DEF Opened
  <1>3. PICK i \in 1 .. Len(bl) :
           /\ At(bl[i]) = k /\ i > p
           /\ bl[i].kind = "Handler" <=> w[k].kind \in Handling
    <2>1. CASE w[k].kind \in {"try", "guard"}
      <3>1. k \in Opened(w, Guarding)
        BY <2>1 DEF Opened, Guarding, Protected
      <3>2. PICK i \in 1 .. Len(bl) : bl[i].kind /= "Handler" /\ At(bl[i]) = k
        BY <3>1 DEF Framed
      <3>3. w[k].kind = KindOf(bl[i].kind)
        BY <2>1, <3>2 DEF Framed, Guards
      <3>4. bl[i].kind /= "With"
        BY <2>1, <3>3 DEF KindOf
      <3>5. ~(i \in 1 .. p)
        BY <3>2, <3>4 DEF Framed
      <3> QED BY <1>1, <2>1, <3>2, <3>5 DEF Handling
    <2>2. CASE w[k].kind \in {"clauses", "handler", "cleanup"}
      <3>1. k \in Opened(w, Handling)
        BY <2>2 DEF Opened, Handling
      <3>2. PICK i \in (p + 1) .. Len(bl) : bl[i].kind = "Handler" /\ At(bl[i]) = k
        BY <3>1 DEF Framed
      <3>3. i \in 1 .. Len(bl) /\ i > p
        BY <1>1
      <3> QED BY <2>2, <3>2, <3>3 DEF Handling
    <2> QED BY <1>2, <2>1, <2>2
  <1>4. ASSUME NEW j \in 1 .. Len(bl), Proper(bl, p, j), At(bl[j]) = k
        PROVE  bl[j].kind = "Handler" <=> bl[i].kind = "Handler"
    <2>1. bl[j].kind = "Handler" => w[k].kind \in Handling
      BY <1>4, ProperBlocks DEF Handles, Opened
    <2>2. bl[j].kind /= "Handler" => w[k].kind \in Guarding
      BY <1>4, ProperBlocks DEF Guards, Opened
    <2> QED BY <1>2, <1>3, <2>1, <2>2 DEF Guarding, Protected, Handling
  <1>5. \A j \in 1 .. Len(bl) : Proper(bl, p, j) => At(bl[j]) \in Nat /\ At(bl[j]) <= k
    BY ProperBlocks
  <1>6. Proper(bl, p, i)
    BY <1>3 DEF Proper
  <1>7. \A j \in 1 .. Len(bl) : j > i => FALSE
    <2> SUFFICES ASSUME NEW j \in 1 .. Len(bl), j > i PROVE FALSE
      OBVIOUS
    <2>1. Proper(bl, p, j)
      BY <1>1, <1>3 DEF Proper
    <2>2. Before(bl[i], bl[j])
      BY <1>6, <2>1 DEF Framed
    <2> QED BY <1>2, <1>3, <1>4, <1>5, <2>1, <2>2 DEF Before
  <1>8. i = Len(bl)
    <2>1. Len(bl) \in 1 .. Len(bl)
      BY <1>1
    <2> QED BY <1>1, <1>7, <2>1
  <1>9. \A j \in 1 .. Len(bl) : Proper(bl, p, j) => (j <= Len(bl) - 1 <=> At(bl[j]) < k)
    <2> SUFFICES ASSUME NEW j \in 1 .. Len(bl), Proper(bl, p, j)
                 PROVE  j <= Len(bl) - 1 <=> At(bl[j]) < k
      OBVIOUS
    <2>1. CASE j = Len(bl)
      BY <1>1, <1>2, <1>3, <1>8, <2>1
    <2>2. CASE j < Len(bl)
      <3>1. Before(bl[j], bl[i])
        BY <1>6, <1>8, <2>2 DEF Framed
      <3> QED BY <1>1, <1>2, <1>3, <1>4, <1>5, <2>2, <3>1 DEF Before
    <2> QED BY <1>1, <2>1, <2>2
  <1>10. bl[i].kind = "Handler" => bl[i].saved = Outer(w, k)
    BY <1>3, <1>6, ProperBlocks DEF Handles
  <1> QED BY <1>1, <1>3, <1>8, <1>9, <1>10

\* The value of the manager's exit is where the block says, and nothing of its region is above.
LEMMA ExitValue ==
  ASSUME NEW w \in Seq(Regions), NEW f, NEW st, Valued(w, st, f), NEW b \in BlockSet, Guards(w, b, f),
         b.kind = "With"
  PROVE  /\ b.depth \in 1 .. Len(f) /\ f[b.depth] = At(b)
         /\ st[b.depth] = Value("exit", w[At(b)].id)
  <1>1. f \in Seq(Nat) /\ Len(f) \in Nat /\ Rises(f) /\ b.depth \in 0 .. Len(f)
    BY DEF Valued, Guards
  <1>2. At(b) \in Opened(w, Guarding) /\ w[At(b)].kind \in {"with", "exiting"}
    BY DEF Guards, KindOf
  <1>3. At(b) \in Holding(w)
    BY <1>2 DEF Opened, Holding
  <1>4. PICK j \in 1 .. Len(f) : f[j] = At(b)
    BY <1>3 DEF Valued
  <1>5. At(b) \in Nat
    BY <1>1, <1>4
  <1>6. j <= b.depth
    BY <1>4, <1>5 DEF Guards
  <1>7. b.depth \in 1 .. Len(f)
    BY <1>1, <1>6
  <1>8. f[b.depth] <= f[j]
    BY <1>4, <1>7 DEF Guards
  <1>9. j = b.depth
    <2>1. j < b.depth => f[j] < f[b.depth]
      BY <1>1, <1>7 DEF Rises
    <2>2. f[j] \in Nat /\ f[b.depth] \in Nat
      BY <1>1, <1>7
    <2> QED BY <1>6, <1>7, <1>8, <2>1, <2>2
  <1>10. st[b.depth] = ValueOf(w[At(b)])
    BY <1>4, <1>7, <1>9 DEF Valued
  <1> QED BY <1>2, <1>4, <1>7, <1>9, <1>10 DEF ValueOf

\* The place of the innermost With block.
LastWithOf(bl) == LastOr0({i \in DOMAIN bl : bl[i].kind = "With"})

\* A with that is the innermost region with a block: above its block are only left Handler blocks.
LEMMA WithBlock ==
  ASSUME NEW w \in Seq(Regions), NEW f, NEW bl, NEW cur, NEW p \in Nat, Framed(w, bl, cur, f, p),
         NEW k \in Opened(w, {"with"}),
         \A j \in Opened(w, Guarding) \cup Opened(w, Handling) : j <= k,
         NEW q, q = LastWithOf(bl)
  PROVE  /\ q \in 1 .. Len(bl) /\ Len(bl) \in Nat /\ bl[q].kind = "With" /\ At(bl[q]) = k
         /\ \A i \in 1 .. Len(bl) : i > q => bl[i].kind = "Handler" /\ ~Proper(bl, p, i)
         /\ \A i \in 1 .. Len(bl) : Proper(bl, p, i) => (i <= q - 1 <=> At(bl[i]) < k)
         /\ q < Len(bl) => p = Len(bl)
  <1>1. bl \in Seq(BlockSet) /\ Len(bl) \in Nat /\ p \in 0 .. Len(bl)
    BY DEF Framed
  <1>2. k \in 1 .. Len(w) /\ w[k].kind = "with" /\ k \in Opened(w, Guarding) /\ k \notin Opened(w, Handling)
    BY DEF Opened, Guarding, Protected, Handling
  <1>3. PICK i \in 1 .. Len(bl) : bl[i].kind /= "Handler" /\ At(bl[i]) = k
    BY <1>2 DEF Framed
  <1>4. Guards(w, bl[i], f) /\ Proper(bl, p, i) /\ bl[i] \in BlockSet
    BY <1>3, ProperBlocks
  <1>5. bl[i].kind = "With"
    <2>1. bl[i].kind \in BlockKinds
      BY <1>4 DEF BlockSet
    <2> QED BY <1>2, <1>3, <1>4, <2>1 DEF Guards, KindOf, BlockKinds
  <1>6. ASSUME NEW j \in 1 .. Len(bl), Proper(bl, p, j)
        PROVE  At(bl[j]) \in Nat /\ At(bl[j]) <= k /\ (At(bl[j]) = k => bl[j].kind /= "Handler")
    BY <1>2, <1>6, ProperBlocks DEF Handles
  <1>7. \A j \in 1 .. Len(bl) : j > i => ~Proper(bl, p, j)
    <2> SUFFICES ASSUME NEW j \in 1 .. Len(bl), j > i, Proper(bl, p, j) PROVE FALSE
      OBVIOUS
    <2>1. Before(bl[i], bl[j])
      BY <1>4 DEF Framed
    <2> QED BY <1>2, <1>3, <1>6, <2>1 DEF Before
  <1>8. \A j \in 1 .. Len(bl) : j > i => bl[j].kind = "Handler"
    BY <1>7, ProperBlocks
  <1>9. q = i
    <2> DEFINE S == {j \in DOMAIN bl : bl[j].kind = "With"}
    <2>1. S \subseteq 1 .. Len(bl) /\ i \in S
      BY <1>1, <1>5
    <2>2. \A j \in S : j <= i
      BY <1>1, <1>8
    <2>3. LastOr0(S) = i
      <3> HIDE DEF S
      <3> QED BY <1>1, <2>1, <2>2, GreatestIs
    <2> QED BY <2>3 DEF LastWithOf
  <1>10. ASSUME NEW j \in 1 .. Len(bl), Proper(bl, p, j)
         PROVE  j <= i - 1 <=> At(bl[j]) < k
    <2>1. CASE j = i
      BY <1>2, <1>3, <2>1
    <2>2. CASE j < i
      <3>1. Before(bl[j], bl[i])
        BY <1>4, <1>10, <2>2 DEF Framed
      <3> QED BY <1>2, <1>3, <1>5, <1>6, <1>10, <2>2, <3>1 DEF Before
    <2>3. CASE j > i
      BY <1>7, <1>10, <2>3
    <2> QED BY <2>1, <2>2, <2>3
  <1>11. i < Len(bl) => p = Len(bl)
    <2>1. Len(bl) \in 1 .. Len(bl)
      BY <1>1
    <2> QED BY <1>1, <1>7, <2>1 DEF Proper
  <1> QED BY <1>1, <1>3, <1>5, <1>7, <1>8, <1>9, <1>10, <1>11

\* A manager's exit in progress: its With block and its Handler block are the two on top.
LEMMA ExitingBlocks ==
  ASSUME NEW w \in Seq(Regions), NEW f, NEW bl, NEW cur, NEW p \in Nat, Framed(w, bl, cur, f, p),
         w /= <<>>, Last(w).kind = "exiting", NEW q, q = LastWithOf(bl)
  PROVE  /\ q \in 1 .. Len(bl) /\ Len(bl) = q + 1
         /\ bl[q].kind = "With" /\ At(bl[q]) = Len(w)
         /\ bl[q + 1].kind = "Handler" /\ bl[q + 1].saved = Outer(w, Len(w))
         /\ bl[q].depth <= bl[q + 1].depth
         /\ \A i \in 1 .. Len(bl) : Proper(bl, p, i) => (i <= q - 1 <=> At(bl[i]) < Len(w))
  <1> DEFINE n == Len(w)
             m == Len(bl)
  <1>1. bl \in Seq(BlockSet) /\ m \in Nat /\ p \in 0 .. m
    BY DEF Framed
  <1>2. n \in 1 .. n /\ n \in Nat /\ w[n].kind = "exiting"
    BY DEF Last
  <1>3. n \in Opened(w, Guarding) /\ n \in Opened(w, Handling)
    BY <1>2 DEF Opened, Active, Guarding, Handling
  <1>4. PICK i \in 1 .. m : bl[i].kind /= "Handler" /\ At(bl[i]) = n
    BY <1>3 DEF Framed
  <1>5. PICK h \in (p + 1) .. m : bl[h].kind = "Handler" /\ At(bl[h]) = n
    BY <1>3 DEF Framed
  <1>6. h \in 1 .. m /\ Proper(bl, p, h) /\ Proper(bl, p, i) /\ Guards(w, bl[i], f) /\ bl[i] \in BlockSet
    BY <1>1, <1>4, <1>5, ProperBlocks DEF Proper
  <1>7. bl[i].kind = "With"
    <2>1. bl[i].kind \in BlockKinds
      BY <1>6 DEF BlockSet
    <2> QED BY <1>2, <1>4, <1>6, <2>1 DEF Guards, KindOf, BlockKinds
  <1>8. ASSUME NEW j \in 1 .. m, Proper(bl, p, j)
        PROVE  At(bl[j]) \in Nat /\ At(bl[j]) <= n
    BY <1>8, ProperBlocks
  <1>9. i < h
    <2>1. h < i => Before(bl[h], bl[i])
      BY <1>6 DEF Framed
    <2>2. h /= i
      BY <1>4, <1>5
    <2> QED BY <1>2, <1>4, <1>5, <1>6, <2>1, <2>2 DEF Before
  <1>10. h = m
    <2> SUFFICES ASSUME NEW j \in 1 .. m, j > h PROVE FALSE
      BY <1>1, <1>6
    <2>1. Proper(bl, p, j)
      BY <1>1, <1>5 DEF Proper
    <2>2. Before(bl[h], bl[j])
      BY <1>6, <2>1 DEF Framed
    <2> QED BY <1>2, <1>5, <1>8, <2>1, <2>2 DEF Before
  <1>11. ASSUME NEW j \in 1 .. m, j > i, j < m
         PROVE  FALSE
    <2>1. Proper(bl, p, j)
      BY <1>2, <1>4, <1>11 DEF Framed
    <2>2. Before(bl[i], bl[j]) /\ Before(bl[j], bl[h])
      BY <1>6, <1>10, <1>11, <2>1 DEF Framed
    <2> QED BY <1>2, <1>4, <1>5, <1>8, <2>1, <2>2 DEF Before
  <1>12. m = i + 1
    <2>1. i + 1 \in 1 .. m /\ i + 1 > i
      BY <1>1, <1>9, <1>10
    <2> QED BY <1>11, <2>1
  <1>13. q = i
    <2> DEFINE S == {j \in DOMAIN bl : bl[j].kind = "With"}
    <2>1. S \subseteq 1 .. m /\ i \in S
      BY <1>1, <1>7
    <2>2. \A j \in S : j <= i
      BY <1>1, <1>5, <1>10, <1>12
    <2>3. LastOr0(S) = i
      <3> HIDE DEF S
      <3> QED BY <1>1, <2>1, <2>2, GreatestIs
    <2> QED BY <2>3 DEF LastWithOf
  <1>14. ASSUME NEW j \in 1 .. m, Proper(bl, p, j)
         PROVE  j <= i - 1 <=> At(bl[j]) < n
    <2>1. CASE j = i
      BY <1>2, <1>4, <2>1
    <2>2. CASE j < i
      <3>1. Before(bl[j], bl[i])
        BY <1>6, <1>14, <2>2 DEF Framed
      <3> QED BY <1>2, <1>4, <1>7, <1>8, <1>14, <2>2, <3>1 DEF Before
    <2>3. CASE j > i
      <3>1. j = h
        BY <1>1, <1>10, <1>12, <2>3
      <3> QED BY <1>2, <1>5, <2>3, <3>1
    <2> QED BY <2>1, <2>2, <2>3
  <1>15. bl[h].saved = Outer(w, n) /\ bl[i].depth <= bl[h].depth
    BY <1>4, <1>5, <1>6, <1>9, ProperBlocks DEF Handles, Framed
  <1> QED BY <1>1, <1>4, <1>5, <1>7, <1>10, <1>12, <1>13, <1>14, <1>15

\* The block that Unwind finds.
LastGuard(bl) == LastOr0({i \in DOMAIN bl : bl[i].kind /= "Handler"})

\* Where an exception continues: that block is the one of the innermost open region.
LEMMA TargetBlock ==
  ASSUME NEW w \in Seq(Regions), NEW f, NEW bl, NEW cur, NEW p \in Nat, Framed(w, bl, cur, f, p),
         \A k \in 1 .. Len(w) : w[k].kind /= "exiting",
         NEW t, t = LastGuard(bl)
  PROVE  \/ t = 0 /\ Opened(w, Guarding) = {}
         \/ /\ t \in 1 .. Len(bl) /\ bl[t].kind /= "Handler"
            /\ At(bl[t]) \in Opened(w, Protected)
            /\ \A j \in Opened(w, Guarding) : j <= At(bl[t])
            /\ \A i \in 1 .. Len(bl) : Proper(bl, p, i) => (i <= t - 1 <=> At(bl[i]) < At(bl[t]))
            /\ (IF t = Len(bl) THEN cur ELSE bl[t + 1].saved) = Outer(w, At(bl[t]))
            /\ \A i \in 1 .. Len(bl) : i >= t => bl[t].depth <= bl[i].depth
  <1> DEFINE m == Len(bl)
             S == {i \in DOMAIN bl : bl[i].kind /= "Handler"}
             k == At(bl[t])
  <1>1. bl \in Seq(BlockSet) /\ m \in Nat /\ p \in 0 .. m /\ S \subseteq 1 .. m
    BY DEF Framed
  <1>2. CASE S = {}
    <2>1. \A i \in 1 .. m : bl[i].kind = "Handler"
      BY <1>1, <1>2
    <2>2. Opened(w, Guarding) = {}
      BY <2>1 DEF Framed
    <2>3. t = 0
      BY <1>2 DEF LastOr0, LastGuard
    <2> QED BY <2>2, <2>3
  <1>3. CASE S /= {}
    <2>1. t \in S /\ \A j \in S : j <= t
      <3>1. t = LastOr0(S)
        BY DEF LastGuard
      <3> HIDE DEF S
      <3> QED BY <1>1, <1>3, <3>1, Greatest
    <2>2. t \in 1 .. m /\ bl[t].kind /= "Handler" /\ \A i \in 1 .. m : i > t => bl[i].kind = "Handler"
      BY <1>1, <2>1
    <2>3. Proper(bl, p, t) /\ Guards(w, bl[t], f) /\ bl[t] \in BlockSet /\ k \in 1 .. Len(w)
      BY <2>2, ProperBlocks
    <2>4. k \in Opened(w, Protected)
      <3>1. k \in Opened(w, Guarding)
        BY <2>3 DEF Guards
      <3> QED BY <3>1 DEF Opened, Guarding
    <2>8. Opened(w, Handling) \subseteq 1 .. Len(w) /\ k \in Nat /\ Len(w) \in Nat /\ t \in Nat
      BY <2>2, <2>3, OpenedIn
    <2>5. ASSUME NEW i \in 1 .. m, Proper(bl, p, i)
          PROVE  /\ At(bl[i]) \in Nat
                 /\ i <= t - 1 <=> At(bl[i]) < k
                 /\ i > t => k <= At(bl[i])
      <3>1. At(bl[i]) \in Nat /\ k \in Nat
        BY <2>3, <2>5, ProperBlocks
      <3>2. CASE i = t
        BY <2>2, <3>1, <3>2
      <3>3. CASE i < t
        <4>1. Before(bl[i], bl[t])
          BY <2>2, <2>3, <2>5, <3>3 DEF Framed
        <4> QED BY <2>2, <3>1, <3>3, <4>1 DEF Before
      <3>4. CASE i > t
        <4>1. Before(bl[t], bl[i])
          BY <2>2, <2>3, <2>5, <3>4 DEF Framed
        <4> QED BY <2>2, <3>1, <3>4, <4>1 DEF Before
      <3> QED BY <2>2, <3>2, <3>3, <3>4
    <2>6. ASSUME NEW j \in Opened(w, Guarding)
          PROVE  j <= k
      <3>1. PICK i \in 1 .. m : bl[i].kind /= "Handler" /\ At(bl[i]) = j
        BY DEF Framed
      <3>2. i <= t /\ Proper(bl, p, i)
        BY <2>2, <3>1, ProperBlocks
      <3>3. CASE i = t
        BY <2>3, <3>1, <3>3
      <3>4. CASE i /= t
        <4>1. i <= t - 1
          BY <2>8, <3>2, <3>4
        <4> QED BY <2>5, <2>8, <3>1, <3>2, <4>1
      <3> QED BY <3>3, <3>4
    <2>7. ASSUME NEW h \in Opened(w, Handling), h >= k
          PROVE  \E i \in (p + 1) .. m : i > t /\ bl[i].kind = "Handler" /\ At(bl[i]) = h
      <3>1. PICK i \in (p + 1) .. m : bl[i].kind = "Handler" /\ At(bl[i]) = h
        BY DEF Framed
      <3>2. i \in 1 .. m /\ Proper(bl, p, i)
        BY <1>1 DEF Proper
      <3>3. ~(i <= t - 1)
        BY <2>5, <2>7, <2>8, <3>1, <3>2
      <3>4. i > t
        BY <2>2, <3>1, <3>2, <3>3
      <3> QED BY <3>1, <3>4
    <2>9. (IF t = m THEN cur ELSE bl[t + 1].saved) = Outer(w, k)
      <3>1. CASE t = m
        <4>1. \A h \in Opened(w, Handling) : h < k
          BY <1>1, <2>7, <2>8, <3>1
        <4>2. {j \in Opened(w, Handling) : j < Len(w) + 1} = {j \in Opened(w, Handling) : j < k}
          BY <2>8, <4>1
        <4>3. Outer(w, Len(w) + 1) = Outer(w, k)
          BY <2>8, <4>2, OuterSame
        <4> QED BY <3>1, <4>3 DEF Framed
      <3>2. CASE t /= m
        <4>1. t + 1 \in 1 .. m /\ bl[t + 1].kind = "Handler"
          BY <1>1, <2>2, <3>2
        <4>2. CASE t + 1 \in 1 .. p
          <5>1. bl[t + 1].saved = None
            BY <4>1, <4>2 DEF Framed
          <5>2. \A h \in Opened(w, Handling) : h >= k
            <6> SUFFICES ASSUME NEW h \in Opened(w, Handling), h < k PROVE FALSE
              BY <2>8
            <6>1. PICK i \in (p + 1) .. m : bl[i].kind = "Handler" /\ At(bl[i]) = h
              BY DEF Framed
            <6>2. i \in 1 .. m /\ Proper(bl, p, i) /\ i > t
              BY <1>1, <2>8, <4>2 DEF Proper
            <6> QED BY <2>5, <2>8, <6>1, <6>2
          <5>3. Outer(w, k) = None
            BY <2>8, <5>2, OuterFinds
          <5> QED BY <3>2, <5>1, <5>3
        <4>3. CASE t + 1 \notin 1 .. p
          <5>1. t + 1 > p /\ Proper(bl, p, t + 1)
            BY <1>1, <4>1, <4>3 DEF Proper
          <5>2. Handles(w, bl[t + 1])
            BY <4>1, <5>1, ProperBlocks
          <5> DEFINE a == At(bl[t + 1])
          <5>3. a \in Nat /\ k <= a
            <6>1. t + 1 > t
              BY <2>8
            <6> QED BY <2>5, <4>1, <5>1, <6>1
          <5>4. ASSUME NEW h \in Opened(w, Handling), h >= k
                PROVE  ~(h < a)
            <6>1. PICK i \in (p + 1) .. m : i > t /\ bl[i].kind = "Handler" /\ At(bl[i]) = h
              BY <2>7, <5>4
            <6>2. i \in 1 .. m /\ Proper(bl, p, i)
              BY <1>1 DEF Proper
            <6>3. CASE i = t + 1
              BY <5>3, <6>1, <6>3
            <6>4. CASE i > t + 1
              <7>1. Before(bl[t + 1], bl[i])
                BY <4>1, <5>1, <6>2, <6>4 DEF Framed
              <7> QED BY <2>8, <4>1, <5>3, <6>1, <7>1 DEF Before
            <6> QED BY <2>8, <6>1, <6>2, <6>3, <6>4
          <5>5. {j \in Opened(w, Handling) : j < a} = {j \in Opened(w, Handling) : j < k}
            BY <2>8, <5>3, <5>4
          <5>6. Outer(w, a) = Outer(w, k)
            BY <2>8, <5>3, <5>5, OuterSame
          <5> QED BY <3>2, <5>2, <5>6 DEF Handles
        <4> QED BY <4>2, <4>3
      <3> QED BY <3>1, <3>2
    <2>10. \A i \in 1 .. m : i >= t => bl[t].depth <= bl[i].depth
      <3> TAKE i \in 1 .. m
      <3>1. bl[t].depth \in Nat
        BY <2>3 DEF BlockSet
      <3>2. t < i => bl[t].depth <= bl[i].depth
        BY <2>2 DEF Framed
      <3> QED BY <2>2, <3>1, <3>2
    <2>11. \A i \in 1 .. m : Proper(bl, p, i) => (i <= t - 1 <=> At(bl[i]) < k)
      BY <2>5
    <2> QED BY <2>2, <2>4, <2>6, <2>9, <2>10, <2>11
  <1> QED BY <1>2, <1>3

(***************************************************************************)
(* The invariant after a step.                                            *)
(***************************************************************************)
\* What Framed says of the current exception gives it a type.
LEMMA OuterType ==
  ASSUME NEW w \in Seq(Regions), NEW k \in Nat
  PROVE  Outer(w, k) \in Raisable \cup {None}
  <1>1. CASE Outer(w, k) = None
    BY <1>1
  <1>2. CASE \E h \in Opened(w, Handling) : Outer(w, k) = w[h].exc
    <2>1. PICK h \in Opened(w, Handling) : Outer(w, k) = w[h].exc
      BY <1>2
    <2>2. h \in 1 .. Len(w)
      BY OpenedIn
    <2> QED BY <2>1, <2>2, RegionTypes
  <1> QED BY <1>1, <1>2, OuterFinds

\* The frame goes on, and the stacks are those of the regions.
LEMMA GoesOn ==
  ASSUME NEW w, NEW c, NEW bl, NEW st, NEW cur, NEW f, NEW p \in Nat,
         Shaped(w, Len(c)), Accounted(w, c), Valued(w, st, f), Framed(w, bl, cur, f, p),
         ended = Running, ended' = ended,
         where' = w, owed' = c, blocks' = bl, stack' = st, current' = cur
  PROVE  IInv'
  <1>1. w \in Seq(Regions) /\ bl \in Seq(BlockSet) /\ cur = Outer(w, Len(w) + 1) /\ Len(w) + 1 \in Nat
    BY DEF Shaped, Framed
  <1>2. cur \in Raisable \cup {None}
    BY <1>1, OuterType
  <1>3. ended' \in Endings /\ ended' = Running
    BY DEF Endings, Running
  <1>4. Stacked(w, bl, st, cur)
    BY DEF Stacked
  <1> QED BY <1>1, <1>2, <1>3, <1>4 DEF IInv

\* With nothing open the stacks are empty.
LEMMA Nowhere ==
  /\ \A n \in Nat : Shaped(<<>>, n)
  /\ \A K : Opened(<<>>, K) = {}
  /\ Cleanups(<<>>) = {}
  /\ Valued(<<>>, <<>>, <<>>)
  /\ Framed(<<>>, <<>>, None, <<>>, 0)
  <1>1. \A n \in Nat : Shaped(<<>>, n)
    BY DEF Shaped
  <1>2. \A K : Opened(<<>>, K) = {}
    BY DEF Opened
  <1>3. Cleanups(<<>>) = {}
    BY <1>2 DEF Cleanups
  <1>4. Valued(<<>>, <<>>, <<>>)
    <2>1. Holding(<<>>) = {}
      BY DEF Holding
    <2> QED BY <2>1 DEF Valued, Rises
  <1>5. Outer(<<>>, 1) = None
    <2>1. {j \in Opened(<<>>, Handling) : j < 1} = {}
      BY <1>2
    <2> QED BY <2>1 DEF Outer, LastOr0
  <1>6. Framed(<<>>, <<>>, None, <<>>, 0)
    BY <1>2, <1>5 DEF Framed
  <1> QED BY <1>1, <1>2, <1>3, <1>4, <1>6

\* The frame ends, and no cleanup is owed.
LEMMA FinishKeeps ==
  ASSUME NEW w, NEW c, Accounted(w, c), Cleanups(w) = {},
         NEW how \in {"returned", "raised"}, NEW e \in Raisable \cup {None}, Finish(how, e), owed' = c
  PROVE  IInv'
  <1>1. /\ where' = <<>> /\ ended' = [how |-> how, exc |-> e]
        /\ blocks' = <<>> /\ stack' = <<>> /\ current' = None
    BY DEF Finish, Set
  <1>2. Accounted(<<>>, c)
    BY Nowhere, AccountedSame
  <1>3. Len(c) \in Nat
    BY DEF Accounted
  <1>4. Stacked(<<>>, <<>>, <<>>, None)
    BY Nowhere DEF Stacked
  <1>5. ended' \in Endings
    BY <1>1 DEF Endings
  <1>6. Shaped(<<>>, Len(c))
    BY <1>3, Nowhere
  <1> QED BY <1>1, <1>2, <1>4, <1>5, <1>6 DEF IInv

\* The operators of PythonRegions are the same in PythonControl.
LEMMA SameRegions ==
  /\ \A w, K : Control!Opened(w, K) = Opened(w, K)
  /\ \A S : Control!LastOr0(S) = LastOr0(S)
  /\ \A kind, id, e : Control!Region(kind, id, e) = Region(kind, id, e)
  /\ \A kind : Control!OnException(kind) = OnException(kind)
  /\ \A c, id : Control!Paid(c, id) = Paid(c, id)
  /\ \A kind : Control!Debt(kind) = Debt(kind)
  /\ \A w, r : Control!Become(w, r) = Become(w, r)
  /\ \A w : Control!Front(w) = Front(w) /\ Control!Last(w) = Last(w)
  /\ \A jump, at : Control!JumpRegion(jump, at) = JumpRegion(jump, at)
  /\ \A w : Control!AtStatement(w) <=> AtStatement(w)
  /\ Control!Protected = Protected /\ Control!Handling = Handling /\ Control!Loops = Loops
  /\ Control!Contexts = Contexts /\ Control!JumpKinds = JumpKinds /\ Control!Running = Running
  <1>1. \A w, K : Control!Opened(w, K) = Opened(w, K)
    BY DEF Control!Opened, Opened, Control!Active, Active, Control!Leaving, Leaving
  <1>2. \A S : Control!LastOr0(S) = LastOr0(S)
    BY DEF Control!LastOr0, LastOr0
  <1>3. \A w, r : Control!Become(w, r) = Become(w, r)
    BY DEF Control!Become, Become, Control!Front, Front
  <1>4. \A c, id : Control!Paid(c, id) = Paid(c, id)
    BY DEF Control!Paid, Paid
  <1>5. /\ \A kind, id, e : Control!Region(kind, id, e) = Region(kind, id, e)
        /\ \A kind : Control!OnException(kind) = OnException(kind)
        /\ \A jump, at : Control!JumpRegion(jump, at) = JumpRegion(jump, at)
    BY DEF Control!Region, Region, Control!OnException, OnException, Control!JumpRegion, JumpRegion
  <1>6. /\ \A kind : Control!Debt(kind) = Debt(kind)
        /\ Control!Contexts = Contexts
    BY DEF Control!Debt, Debt, Control!HasCleanup, HasCleanup, Control!Contexts, Contexts
  <1>7. \A w : Control!AtStatement(w) <=> AtStatement(w)
    BY DEF Control!AtStatement, AtStatement, Control!Last, Last
  <1>8. /\ Control!Protected = Protected /\ Control!Handling = Handling /\ Control!Loops = Loops
        /\ Control!JumpKinds = JumpKinds /\ Control!Running = Running
    BY DEF Control!Protected, Protected, Control!Handling, Handling, Control!Loops, Loops,
           Control!JumpKinds, JumpKinds, Control!Running, Running
  <1>9. \A w : Control!Front(w) = Front(w) /\ Control!Last(w) = Last(w)
    BY DEF Control!Front, Front, Control!Last, Last
  <1> QED BY <1>1, <1>2, <1>3, <1>4, <1>5, <1>6, <1>7, <1>8, <1>9

(***************************************************************************)
(* Unwind.                                                                *)
(***************************************************************************)
\* What Unwind does when it finds no block, and when it finds block t.
LEMMA ThrowOut ==
  ASSUME NEW e, NEW bl, NEW st, NEW cur, NEW c, Throw(e, bl, st, cur, c), LastGuard(bl) = 0
  PROVE  Finish("raised", e) /\ owed' = c
  BY DEF Throw, LastGuard

\* The block found is put in place of itself and of those above by a Handler block.
LEMMA ThrowIs ==
  ASSUME NEW e, NEW bl \in Seq(BlockSet), NEW st, NEW cur, NEW c,
         NEW t, t = LastGuard(bl), t \in 1 .. Len(bl), Len(st) \in Nat, bl[t].depth <= Len(st),
         \A i \in 1 .. Len(bl) : i >= t => bl[t].depth <= bl[i].depth
  PROVE  Throw(e, bl, st, cur, c) <=>
            /\ Goto(Become(bl[t].home, Region(OnException(Last(bl[t].home).kind), Last(bl[t].home).id, e)))
            /\ Set(Append(SubSeq(bl, 1, IF bl[t].kind = "With" THEN t ELSE t - 1),
                          Block("Handler", bl[t].home, bl[t].depth,
                                IF t = Len(bl) THEN cur ELSE bl[t + 1].saved)),
                   SubSeq(st, 1, bl[t].depth), e)
            /\ owed' = IF bl[t].kind = "Finally" THEN Paid(c, Last(bl[t].home).id) ELSE c
  <1> DEFINE depths == {Len(st)} \cup {bl[i].depth : i \in {j \in DOMAIN bl : j >= t}}
             depth == CHOOSE d \in depths : \A x \in depths : d <= x
  <1>1. DOMAIN bl = 1 .. Len(bl) /\ t \in Nat /\ t /= 0
    OBVIOUS
  <1>2. \A i \in 1 .. Len(bl) : bl[i].depth \in Nat
    <2> TAKE i \in 1 .. Len(bl)
    <2>1. bl[i] \in BlockSet
      OBVIOUS
    <2> QED BY <2>1 DEF BlockSet
  <1>3. bl[t].depth \in depths /\ \A x \in depths : bl[t].depth <= x
    BY <1>1
  <1>4. \A x \in depths : x \in Nat
    BY <1>1, <1>2
  <1>5. depth \in depths /\ \A x \in depths : depth <= x
    <2> HIDE DEF depths
    <2> QED BY <1>3
  <1>6. depth = bl[t].depth
    <2> HIDE DEF depths, depth
    <2>1. depth <= bl[t].depth /\ bl[t].depth <= depth /\ depth \in Nat /\ bl[t].depth \in Nat
      BY <1>3, <1>4, <1>5
    <2> QED BY <2>1
  <1>7. t = LastOr0({i \in DOMAIN bl : bl[i].kind /= "Handler"})
    BY DEF LastGuard
  <1> HIDE DEF depth, depths
  <1> QED BY <1>1, <1>6, <1>7, Zenon DEF Throw, depth, depths

\* So this is where the exception continues.
ThrownTo(e, bl, st, cur, c, t) ==
    /\ where' = Append(Front(bl[t].home),
                       Region(OnException(Last(bl[t].home).kind), Last(bl[t].home).id, e))
    /\ ended' = ended
    /\ blocks' = Append(SubSeq(bl, 1, IF bl[t].kind = "With" THEN t ELSE t - 1),
                        Block("Handler", bl[t].home, bl[t].depth,
                              IF t = Len(bl) THEN cur ELSE bl[t + 1].saved))
    /\ stack' = SubSeq(st, 1, bl[t].depth)
    /\ current' = e
    /\ owed' = IF bl[t].kind = "Finally" THEN Paid(c, Last(bl[t].home).id) ELSE c
\* A throw does what its target says.
LEMMA ThrowTo ==
  ASSUME NEW e, NEW bl \in Seq(BlockSet), NEW st, NEW cur, NEW c, Throw(e, bl, st, cur, c),
         NEW t, t = LastGuard(bl), t \in 1 .. Len(bl), Len(st) \in Nat, bl[t].depth <= Len(st),
         \A i \in 1 .. Len(bl) : i >= t => bl[t].depth <= bl[i].depth
  PROVE  ThrownTo(e, bl, st, cur, c, t)
  <1>1. /\ Goto(Become(bl[t].home, Region(OnException(Last(bl[t].home).kind), Last(bl[t].home).id, e)))
        /\ Set(Append(SubSeq(bl, 1, IF bl[t].kind = "With" THEN t ELSE t - 1),
                      Block("Handler", bl[t].home, bl[t].depth,
                            IF t = Len(bl) THEN cur ELSE bl[t + 1].saved)),
               SubSeq(st, 1, bl[t].depth), e)
        /\ owed' = IF bl[t].kind = "Finally" THEN Paid(c, Last(bl[t].home).id) ELSE c
    BY ThrowIs
  <1> QED BY <1>1 DEF Goto, Set, Become, ThrownTo

\* A throw keeps the invariant, and continues where the nesting says.
LEMMA ThrowKeeps ==
  ASSUME NEW w, NEW c, NEW bl, NEW st, NEW cur, NEW f, NEW p \in Nat, NEW e \in Raisable,
         Shaped(w, Len(c)), Accounted(w, c), Valued(w, st, f), Framed(w, bl, cur, f, p),
         \A k \in 1 .. Len(w) : w[k].kind /= "exiting",
         ended = Running, Throw(e, bl, st, cur, c)
  PROVE  IInv' /\ Control!Throw(e, w, c)
  <1> DEFINE CL == HasCleanup \cup {"exiting"}
  <1>1. w \in Seq(Regions) /\ Len(w) \in Nat /\ Len(c) \in Nat /\ bl \in Seq(BlockSet) /\ Len(bl) \in Nat
        /\ f \in Seq(Nat) /\ st \in Seq(Values) /\ Len(f) = Len(st) /\ Len(f) \in Nat /\ p \in 0 .. Len(bl)
    BY DEF Shaped, Accounted, Framed, Valued
  <1>2. e /= None
    BY NoneIsNoException DEF Raisable
  <1>3. \A j \in Opened(w, Protected) : j \in Opened(w, Guarding)
    BY DEF Opened, Guarding
  <1>4. \A j \in Opened(w, CL) : j \in Opened(w, Guarding)
    BY DEF Opened, Guarding, Protected, HasCleanup
  <1>5. PICK t : t = LastGuard(bl)
    OBVIOUS
  <1>6. CASE t = 0
    <2>1. Finish("raised", e) /\ owed' = c
      BY <1>5, <1>6, ThrowOut
    <2>2. Opened(w, Guarding) = {}
      <3>1. (t = 0 /\ Opened(w, Guarding) = {}) \/ t \in 1 .. Len(bl)
        BY <1>1, <1>5, TargetBlock
      <3>2. ~(t \in 1 .. Len(bl))
        BY <1>1, <1>6
      <3> QED BY <3>1, <3>2
    <2>3. Cleanups(w) = {} /\ Opened(w, Protected) = {}
      BY <1>3, <1>4, <2>2 DEF Cleanups
    <2>4. IInv'
      BY <2>1, <2>3, FinishKeeps
    <2>5. Control!LastOr0(Control!Opened(w, Control!Protected)) = 0
      BY <2>3, SameRegions DEF LastOr0
    <2>6. Control!Throw(e, w, c)
      BY <2>1, <2>5 DEF Control!Throw, Control!Finish, Finish
    <2> QED BY <2>4, <2>6
  <1>7. CASE t /= 0
    <2> DEFINE b == bl[t]
               k == At(b)
               r == Region(OnException(w[k].kind), w[k].id, e)
               u == SubSeq(w, 1, k - 1)
               v == Append(u, r)
               g == SubSeq(f, 1, b.depth)
               sv == SubSeq(st, 1, b.depth)
               handler == Block("Handler", b.home, b.depth, Outer(w, k))
    <2>1. /\ t \in 1 .. Len(bl) /\ bl[t].kind /= "Handler"
          /\ At(bl[t]) \in Opened(w, Protected)
          /\ \A j \in Opened(w, Guarding) : j <= At(bl[t])
          /\ \A i \in 1 .. Len(bl) : Proper(bl, p, i) => (i <= t - 1 <=> At(bl[i]) < At(bl[t]))
          /\ (IF t = Len(bl) THEN cur ELSE bl[t + 1].saved) = Outer(w, At(bl[t]))
          /\ \A i \in 1 .. Len(bl) : i >= t => bl[t].depth <= bl[i].depth
      BY <1>1, <1>5, <1>7, TargetBlock
    <2>2. b \in BlockSet /\ Guards(w, b, f)
      BY <1>1, <2>1, ProperBlocks
    <2>3. k \in 1 .. Len(w) /\ k \in Nat /\ w[k].kind \in Protected /\ Held(w, k, Len(w))
      BY <1>1, <2>1, OpenedHeld
    <2>4. w[k].kind = KindOf(b.kind) /\ b.depth \in 0 .. Len(f)
          /\ \A j \in 1 .. Len(f) : j <= b.depth <=> f[j] <= k
      <3>1. w[k].kind /= "exiting"
        BY <2>3 DEF Protected
      <3> QED BY <2>2, <3>1 DEF Guards
    <2>5. b.home = Append(u, Region(w[k].kind, w[k].id, None)) /\ Len(b.home) = k
      BY <2>2, <2>4 DEF Guards, At
    <2>6. u \in Seq(Regions) /\ Len(u) = k - 1 /\ \A i \in 1 .. (k - 1) : u[i] = w[i]
      BY <1>1, <2>3
    <2>7. Front(b.home) = u /\ Last(b.home) = Region(w[k].kind, w[k].id, None)
      <3> HIDE DEF u, b
      <3> QED BY <2>5, <2>6 DEF Front, Last
    <2>8. /\ where' = v /\ ended' = ended /\ stack' = sv /\ current' = e
          /\ blocks' = Append(SubSeq(bl, 1, IF b.kind = "With" THEN t ELSE t - 1), handler)
          /\ owed' = IF b.kind = "Finally" THEN Paid(c, w[k].id) ELSE c
      <3>1. bl[t].depth <= Len(st) /\ Len(st) \in Nat
        BY <1>1, <2>4
      <3>2. Last(b.home).kind = w[k].kind /\ Last(b.home).id = w[k].id
        BY <2>7 DEF Region
      <3>3. /\ where' = Append(Front(bl[t].home),
                               Region(OnException(Last(bl[t].home).kind), Last(bl[t].home).id, e))
            /\ ended' = ended
            /\ blocks' = Append(SubSeq(bl, 1, IF bl[t].kind = "With" THEN t ELSE t - 1),
                                Block("Handler", bl[t].home, bl[t].depth,
                                      IF t = Len(bl) THEN cur ELSE bl[t + 1].saved))
            /\ stack' = SubSeq(st, 1, bl[t].depth)
            /\ current' = e
            /\ owed' = IF bl[t].kind = "Finally" THEN Paid(c, Last(bl[t].home).id) ELSE c
        <4> HIDE DEF b, u, v, r, k, g, sv, handler
        <4>1. bl \in Seq(BlockSet)
          BY <1>1
        <4>2. t \in 1 .. Len(bl) /\ \A i \in 1 .. Len(bl) : i >= t => bl[t].depth <= bl[i].depth
          BY <2>1
        <4>3. Throw(e, bl, st, cur, c) /\ t = LastGuard(bl)
          BY <1>5
        <4> HIDE DEF CL
        <4>4. ThrownTo(e, bl, st, cur, c, t)
          BY ONLY <3>1, <4>1, <4>2, <4>3, ThrowTo
        <4> QED BY ONLY <4>4 DEF ThrownTo
      <3>4. (IF t = Len(bl) THEN cur ELSE bl[t + 1].saved) = Outer(w, k)
        BY <2>1
      <3> HIDE DEF u, k
      <3> QED BY <2>7, <3>2, <3>3, <3>4
    <2>9. /\ r \in Regions /\ r.kind = OnException(w[k].kind) /\ r.id = w[k].id /\ r.exc = e
          /\ r.kind \in Handling /\ r.kind \notin Leaving \cup Protected
          /\ r.kind = "exiting" <=> w[k].kind = "with"
          /\ r = Region(r.kind, r.id, r.exc)
      <3>1. w[k].id \in Nat
        BY <1>1, <2>3, RegionTypes
      <3> QED BY <2>3, <3>1 DEF Region, Regions, OnException, Kinds, Handling, Leaving, Protected
    <2>10. Fresh(u, r)
      BY <2>9 DEF Fresh
    <2>11. v \in Seq(Regions) /\ Len(v) = k /\ v[k] = r /\ \A i \in 1 .. (k - 1) : v[i] = w[i]
      <3>1. r \in Regions /\ k \in Nat /\ k - 1 \in Nat
        BY <2>3, <2>9
      <3> HIDE DEF r, u, k
      <3> QED BY <2>3, <2>6, <3>1
    <2>12. Held(w, k - 1, Len(w)) /\ k - 1 \in 0 .. Len(w)
      <3>1. \A i \in 1 .. Len(w) : w[i].at \in Nat
        BY <1>1, RegionTypes
      <3>2. w[k].kind \notin Leaving
        BY <2>3 DEF Protected, Leaving
      <3>3. \A i \in (k - 1 + 1) .. Len(w) : i \in 1 .. Len(w) /\ (i = k \/ i \in (k + 1) .. Len(w))
        BY <1>1, <2>3
      <3> QED BY <2>3, <3>1, <3>2, <3>3 DEF Held
    <2>13. \A K : Opened(u, K) = {j \in Opened(w, K) : j < k}
      <3> TAKE K
      <3>1. Opened(u, K) = {j \in Opened(w, K) : j <= k - 1}
        BY <1>1, <2>12, OpenedCut
      <3>2. Opened(w, K) \subseteq 1 .. Len(w)
        BY <1>1, OpenedIn
      <3> QED BY <1>1, <2>3, <3>1, <3>2
    <2>14. g \in Seq(Nat) /\ Len(g) = b.depth /\ \A j \in 1 .. b.depth : g[j] = f[j] /\ f[j] <= k
      <3>1. b.depth \in 0 .. Len(f) /\ \A j \in 1 .. b.depth : j \in 1 .. Len(f)
        BY <1>1, <2>4
      <3>2. \A j \in 1 .. b.depth : f[j] <= k
        BY <2>4, <3>1
      <3> HIDE DEF b, k
      <3> QED BY <1>1, <3>1, <3>2
    <2>15. b.kind \in BlockKinds /\ b.home \in Seq(Regions) /\ b.depth \in Nat
      BY <2>2 DEF BlockSet
    <2>16. /\ b.kind = "With" <=> w[k].kind = "with"
           /\ b.kind = "Finally" <=> w[k].kind = "guard"
           /\ b.kind = "Except" <=> w[k].kind = "try"
      BY <2>1, <2>4, <2>15 DEF KindOf, BlockKinds
    <2>17. At(handler) = k /\ handler.kind = "Handler" /\ handler.depth = b.depth /\ handler.saved = Outer(w, k)
           /\ handler \in BlockSet
      <3>1. Outer(w, k) \in Raisable \cup {None}
        BY <1>1, <2>3, OuterType
      <3> QED BY <2>5, <2>15, <3>1 DEF At, Block, BlockSet, BlockKinds
    <2>18. SubSeq(v, 1, k - 1) = u
      <3> HIDE DEF u, v, k
      <3> QED BY <2>3, <2>6, <2>11
    <2> DEFINE c2 == IF b.kind = "Finally" THEN Paid(c, w[k].id) ELSE c
               bl2 == Append(SubSeq(bl, 1, IF b.kind = "With" THEN t ELSE t - 1), handler)
               more == IF b.kind = "With" THEN <<b, handler>> ELSE <<handler>>
               low == SubSeq(bl, 1, t - 1)
    <2>19. bl2 = SubSeq(bl, 1, t - 1) \o more /\ more \in Seq(BlockSet)
      <3> HIDE DEF handler, b, k
      <3>1. SubSeq(bl, 1, t - 1) \in Seq(BlockSet) /\ Len(SubSeq(bl, 1, t - 1)) = t - 1
            /\ \A i \in 1 .. (t - 1) : SubSeq(bl, 1, t - 1)[i] = bl[i]
        BY <1>1, <2>1
      <3>2. SubSeq(bl, 1, t) \in Seq(BlockSet) /\ Len(SubSeq(bl, 1, t)) = t
            /\ \A i \in 1 .. t : SubSeq(bl, 1, t)[i] = bl[i]
        BY <1>1, <2>1
      <3>3. CASE b.kind = "With"
        <4>1. more = <<b, handler>> /\ bl2 = Append(SubSeq(bl, 1, t), handler)
          BY <3>3
        <4>2. SubSeq(bl, 1, t) = Append(SubSeq(bl, 1, t - 1), b)
          BY <1>1, <2>1, <3>1, <3>2 DEF b
        <4>3. SubSeq(bl, 1, t - 1) \o <<b, handler>> = Append(Append(SubSeq(bl, 1, t - 1), b), handler)
          <5>1. SubSeq(bl, 1, t - 1) \in Seq(BlockSet) /\ b \in BlockSet /\ handler \in BlockSet
            BY <2>2, <2>17, <3>1
          <5> HIDE DEF more, bl2
          <5> QED BY <5>1, TwoMore
        <4>4. more \in Seq(BlockSet)
          BY <2>2, <2>17, <4>1
        <4> HIDE DEF more, bl2
        <4> QED BY <4>1, <4>2, <4>3, <4>4
      <3>4. CASE b.kind /= "With"
        <4>1. more = <<handler>> /\ bl2 = Append(SubSeq(bl, 1, t - 1), handler)
          BY <3>4
        <4>2. SubSeq(bl, 1, t - 1) \o <<handler>> = Append(SubSeq(bl, 1, t - 1), handler)
          BY <2>17, <3>1, TwoMore
        <4>3. more \in Seq(BlockSet)
          BY <2>17, <4>1
        <4> HIDE DEF more, bl2
        <4> QED BY <4>1, <4>2, <4>3
      <3> QED BY <3>3, <3>4
    <2> HIDE DEF b, u, v, r, k, g, sv, handler, c2, bl2
    <2>20. Below(w, u, k)
      BY <1>1, <2>3, <2>6, <2>13 DEF Below
    <2>21. k - 1 + 1 = k /\ k - 1 + 2 = k + 1 /\ Len(u) + 1 = k /\ Len(u) + 2 = k + 1
      BY <2>3, <2>6
    <2>22. /\ Opened(v, Guarding) = Opened(u, Guarding) \cup (IF r.kind \in Guarding THEN {k} ELSE {})
           /\ Opened(v, Handling) = Opened(u, Handling) \cup {k}
           /\ Opened(v, CL) = Opened(u, CL) \cup (IF r.kind \in CL THEN {k} ELSE {})
      <3>1. \A K : Opened(v, K) = Opened(u, K) \cup (IF r.kind \in K THEN {k} ELSE {})
        BY <2>6, <2>10, <2>21, OpenedPush DEF v
      <3> QED BY <2>9, <3>1
    <2>23. Holding(v) = {j \in Holding(w) : j < k + 1}
      <3>1. Holding(u) = {j \in Holding(w) : j <= k - 1}
        BY <1>1, <2>12, HoldingCut DEF u
      <3>2. Holding(v) = Holding(u) \cup (IF r.kind = "exiting" THEN {k} ELSE {})
        <4>1. Holding(v) = {j \in Holding(u) : u[j].kind = "with" /\ r.kind \in Leaving => r.at > j}
                 \cup (IF r.kind \in {"for", "with", "exiting"} \/ (r.kind \in Leaving /\ r.jump = "return")
                       THEN {k} ELSE {})
          BY <2>6, <2>9, <2>21, HoldingAppend DEF v
        <4> QED BY <2>9, <4>1 DEF Handling
      <3>3. k \in Holding(w) <=> w[k].kind = "with"
        BY <1>1, <2>3 DEF Holding, Protected, Leaving, Held, Active
      <3>4. Holding(w) \subseteq 1 .. Len(w)
        BY <1>1 DEF Holding
      <3>5. \A j \in Holding(w) : j < k + 1 <=> j <= k - 1 \/ j = k
        BY <1>1, <2>3, <3>4
      <3> QED BY <2>9, <3>1, <3>2, <3>3, <3>5
    <2>24. \A j \in Holding(v) : ValueOf(v[j]) = ValueOf(w[j])
      <3> TAKE j \in Holding(v)
      <3>1. CASE j = k
        <4>1. r.kind = "exiting" /\ w[k].kind = "with"
          BY <2>3, <2>9, <2>11, <3>1 DEF Holding, Handling, Leaving
        <4> QED BY <2>9, <2>11, <3>1, <4>1 DEF ValueOf
      <3>2. CASE j /= k
        <4>1. j \in 1 .. k
          BY <2>11 DEF Holding
        <4> QED BY <2>3, <2>11, <3>2, <4>1
      <3> QED BY <3>1, <3>2
    <2>25. Valued(v, sv, g) /\ SameBelow(f, g, k + 1)
      <3>1. \A j \in 1 .. Len(f) : j <= b.depth <=> f[j] < k + 1
        BY <1>1, <2>3, <2>4
      <3>2. k + 1 \in Nat /\ b.depth \in 0 .. Len(f)
        BY <2>3, <2>4
      <3>3. Valued(w, st, f)
        OBVIOUS
      <3> HIDE DEF CL
      <3> QED BY ONLY <2>23, <2>24, <3>1, <3>2, <3>3, ValuedCut DEF g, sv
    <2>26. SameBelow(f, g, k)
      <3>1. \A j \in 1 .. Len(f) : f[j] < k => f[j] < k + 1
        BY <1>1, <2>3
      <3>2. \A j \in 1 .. Len(g) : g[j] < k => g[j] < k + 1
        BY <2>3, <2>14
      <3> QED BY <2>25, <3>1, <3>2 DEF SameBelow
    <2>27. PICK p1 \in Nat : Framed(u, SubSeq(bl, 1, t - 1), Outer(w, k), g, p1)
      <3>1. t - 1 \in 0 .. Len(bl) /\ t - 1 \in Nat
        BY <1>1, <2>1
      <3>2. \A i \in 1 .. Len(bl) : Proper(bl, p, i) => (i <= t - 1 <=> At(bl[i]) < k)
        BY <2>1 DEF k, b
      <3>3. Framed(u, SubSeq(bl, 1, t - 1), Outer(w, k), g, IF p <= t - 1 THEN p ELSE t - 1)
        <4>1. w \in Seq(Regions) /\ f \in Seq(Nat)
          BY <1>1
        <4>2. u \in Seq(Regions) /\ g \in Seq(Nat)
          BY <2>6, <2>14
        <4> HIDE DEF CL
        <4> QED BY <2>20, <2>26, <3>1, <3>2, <4>1, <4>2, FramedBelow
      <3> QED BY <1>1, <3>1, <3>3
    <2>28. Outer(v, k) = Outer(w, k) /\ Outer(v, k + 1) = e
      <3>1. Outer(w, k) = Outer(u, k)
        BY <2>21, <2>27 DEF Framed
      <3> QED BY <2>6, <2>9, <2>10, <2>21, <3>1, OuterPush DEF v
    <2>29. Handles(v, handler)
      BY <2>17, <2>22, <2>28 DEF Handles
    <2>30. b.kind = "With" => Guards(v, b, g)
      <3> SUFFICES ASSUME b.kind = "With" PROVE Guards(v, b, g)
        OBVIOUS
      <3>1. At(b) = k /\ r.kind = "exiting" /\ v[k] = r /\ v[k].id = w[k].id /\ KindOf(b.kind) = w[k].kind
        BY <2>4, <2>9, <2>11, <2>16 DEF k
      <3>2. k \in Opened(v, Guarding)
        BY <2>22, <3>1 DEF Guarding
      <3>3. b.home = Append(SubSeq(v, 1, k - 1), Region(KindOf(b.kind), v[k].id, None))
        BY <2>5, <2>18, <3>1
      <3>4. b.depth \in 0 .. Len(g) /\ \A j \in 1 .. Len(g) : j <= b.depth <=> g[j] <= k
        BY <2>14, <2>15
      <3> QED BY <3>1, <3>2, <3>3, <3>4 DEF Guards
    <2>31. Framed(v, bl2, e, g, p1)
      <3>1. \A i \in 1 .. Len(more) :
              /\ At(more[i]) = k
              /\ \A j \in 1 .. Len(low) : low[j].kind /= "Handler" => low[j].depth <= more[i].depth
              /\ more[i].kind /= "Handler" => Guards(v, more[i], g)
              /\ more[i].kind = "Handler" => Handles(v, more[i])
        <4>1. \A i \in 1 .. Len(more) : more[i] = handler \/ (more[i] = b /\ b.kind = "With")
          OBVIOUS
        <4>2. At(b) = k /\ At(handler) = k /\ handler.depth = b.depth
          BY <2>17 DEF k
        <4>3. \A j \in 1 .. Len(low) : low[j].kind /= "Handler" => low[j].depth <= b.depth
          <5> TAKE j \in 1 .. Len(low)
          <5>1. low[j].kind /= "Handler" => Guards(u, low[j], g)
            BY <2>27 DEF Framed
          <5> HIDE DEF low, more, bl2, c2
          <5>2. low[j].kind /= "Handler" => low[j].depth \in 0 .. Len(g)
            BY <5>1 DEF Guards
          <5> QED BY <2>14, <2>15, <5>2
        <4> HIDE DEF more, low
        <4> QED BY <2>17, <2>29, <2>30, <4>1, <4>2, <4>3
      <3>2. \A i, j \in 1 .. Len(more) :
              i < j => /\ more[i].kind /= "Handler" /\ more[j].kind = "Handler"
                       /\ more[i].depth <= more[j].depth
        <4>1. CASE b.kind = "With"
          <5>1. more = <<b, handler>>
            BY <4>1
          <5>2. \A i, j \in 1 .. 2 : i < j => i = 1 /\ j = 2
            OBVIOUS
          <5>3. Len(more) = 2 /\ more[1] = b /\ more[2] = handler
            BY <5>1
          <5> HIDE DEF more
          <5>4. b.depth <= handler.depth
            BY <2>15, <2>17
          <5> QED BY <2>17, <4>1, <5>2, <5>3, <5>4
        <4>2. CASE b.kind /= "With"
          <5>1. more = <<handler>>
            BY <4>2
          <5>2. Len(more) = 1
            BY <5>1
          <5> QED BY <5>2
        <4> QED BY <4>1, <4>2
      <3>3. r.kind \in Guarding => \E i \in 1 .. Len(more) : more[i].kind /= "Handler"
        <4> SUFFICES ASSUME r.kind \in Guarding PROVE \E i \in 1 .. Len(more) : more[i].kind /= "Handler"
          OBVIOUS
        <4>1. b.kind = "With"
          BY <2>9, <2>16 DEF Guarding
        <4>2. more = <<b, handler>> /\ Len(more) = 2 /\ more[1] = b /\ 1 \in 1 .. 2
          BY <4>1
        <4> QED BY <4>1, <4>2
      <3>4. r.kind \in Handling => \E i \in 1 .. Len(more) : more[i].kind = "Handler"
        <4>1. Len(more) \in 1 .. Len(more) /\ more[Len(more)] = handler
          OBVIOUS
        <4> HIDE DEF more
        <4> QED BY <2>17, <4>1
      <3>5. Framed(v, SubSeq(bl, 1, t - 1) \o more, Outer(v, k + 1), g, p1)
        <4>1. SameBelow(g, g, k) /\ more \in Seq(BlockSet)
          BY <2>14, <2>19, SameBelowSame
        <4>2. Framed(u, low, Outer(w, k), g, p1)
          BY <2>27
        <4>3. Framed(v, low \o more, Outer(v, k + 1), g, p1)
          <5> HIDE DEF more, low
          <5> QED BY <2>6, <2>10, <2>14, <2>21, <3>1, <3>2, <3>3, <3>4, <4>1, <4>2, FramedPush DEF v
        <4> QED BY <4>3
      <3> HIDE DEF more
      <3> QED BY <2>19, <2>28, <3>5
    <2>32. Shaped(v, Len(c))
      <3>1. w[k].kind \notin Leaving
        BY <2>3 DEF Protected, Leaving
      <3> QED BY <1>1, <1>2, <2>3, <2>9, <3>1, ShapedTurn DEF v, u
    <2>33. Accounted(v, c2) /\ Len(c2) = Len(c)
      <3>1. \A j \in Opened(w, CL) : j <= k /\ j \in Nat
        <4>1. Opened(w, CL) \subseteq 1 .. Len(w)
          BY <1>1, OpenedIn
        <4>2. \A j \in Opened(w, Guarding) : j <= k
          BY <2>1 DEF k, b
        <4> HIDE DEF CL
        <4> QED BY <1>4, <4>1, <4>2
      <3>2. Opened(v, CL) = {j \in Opened(w, CL) : j < k} \cup (IF r.kind \in CL THEN {k} ELSE {})
        BY <2>13, <2>22
      <3>8. {j \in Opened(w, CL) : j < k} = Opened(w, CL) \ {k}
        <4> HIDE DEF CL
        <4> QED BY <2>3, <3>1
      <3>3. k \in Opened(w, CL) <=> w[k].kind \in {"guard", "with"}
        BY <2>3, <1>1, OpenedHeld DEF Protected, HasCleanup
      <3>4. \A j \in Opened(v, CL) : v[j].id = w[j].id
        <4> TAKE j \in Opened(v, CL)
        <4>1. j \in 1 .. k
          BY <2>11, OpenedIn
        <4>2. j = k \/ j \in 1 .. (k - 1)
          BY <2>3, <4>1
        <4> QED BY <2>9, <2>11, <4>2
      <3>5. r.kind \in CL <=> w[k].kind = "with"
        BY <2>9 DEF HasCleanup, Handling
      <3>6. CASE w[k].kind /= "guard"
        <4>1. k \in Opened(w, CL) <=> r.kind \in CL
          BY <3>3, <3>5, <3>6
        <4>2. Opened(v, CL) = Opened(w, CL)
          BY <3>2, <3>8, <4>1
        <4>3. Cleanups(v) = Cleanups(w)
          BY <3>4, <4>2, CleanupsSame
        <4> QED BY <2>16, <3>6, <4>3, AccountedSame DEF c2
      <3>7. CASE w[k].kind = "guard"
        <4>1. Opened(v, CL) = Opened(w, CL) \ {k} /\ k \in Opened(w, CL)
          BY <3>2, <3>3, <3>5, <3>7, <3>8
        <4>2. Cleanups(v) = Cleanups(w) \ {w[k].id} /\ w[k].id \in Cleanups(w)
          BY <1>1, <3>4, <4>1, CleanupsLess
        <4> QED BY <2>16, <3>7, <4>2, AccountedPaid DEF c2
      <3> QED BY <3>6, <3>7
    <2>34. where' = v /\ ended' = ended /\ stack' = sv /\ current' = e /\ blocks' = bl2 /\ owed' = c2
      BY <2>8 DEF bl2, c2
    <2>35. IInv'
      BY <2>25, <2>31, <2>32, <2>33, <2>34, GoesOn
    <2>36. Control!Throw(e, w, c)
      <3>1. LastOr0(Opened(w, Protected)) = k
        <4>1. Opened(w, Protected) \subseteq 1 .. Len(w) /\ k \in Opened(w, Protected)
              /\ \A j \in Opened(w, Protected) : j <= k
          BY <1>1, <1>3, <2>1, OpenedIn DEF k, b
        <4> QED BY <1>1, <4>1, GreatestIs
      <3>2. Control!LastOr0(Control!Opened(w, Control!Protected)) = k /\ k /= 0
        BY <2>3, <3>1, SameRegions
      <3>3. Control!Goto(Append(SubSeq(w, 1, k - 1), Control!Region(Control!OnException(w[k].kind), w[k].id, e)))
        BY <2>34, SameRegions DEF Control!Goto, v, u, r
      <3>4. owed' = IF w[k].kind = "guard" THEN Control!Paid(c, w[k].id) ELSE c
        BY <2>16, <2>34, SameRegions DEF c2
      <3> QED BY <3>2, <3>3, <3>4 DEF Control!Throw
    <2> QED BY <2>35, <2>36
  <1> QED BY <1>6, <1>7

\* Throw goes by the regions that are open, and not by what is not.
LEMMA ThrowSame ==
  ASSUME NEW w \in Seq(Regions), NEW v \in Seq(Regions), NEW c, NEW e,
         Opened(v, Protected) = Opened(w, Protected), NEW k \in Nat,
         \A j \in Opened(w, Protected) : j < k,
         \A j \in 1 .. (k - 1) : j <= Len(w) /\ j <= Len(v) => v[j] = w[j],
         Control!Throw(e, v, c)
  PROVE  Control!Throw(e, w, c)
  <1> DEFINE t == LastOr0(Opened(w, Protected))
  <1>1. Control!LastOr0(Control!Opened(w, Control!Protected)) = t
        /\ Control!LastOr0(Control!Opened(v, Control!Protected)) = t
    BY SameRegions
  <1>2. CASE t = 0
    BY <1>1, <1>2 DEF Control!Throw
  <1>3. CASE t /= 0
    <2>1. Opened(w, Protected) /= {}
      BY <1>3 DEF LastOr0
    <2>2. Opened(w, Protected) \subseteq 1 .. Len(w) /\ Opened(v, Protected) \subseteq 1 .. Len(v)
      BY OpenedIn
    <2>3. t \in Opened(w, Protected)
      BY <2>1, <2>2, Greatest
    <2>4. t \in 1 .. Len(w) /\ t \in 1 .. Len(v) /\ t < k
      BY <2>2, <2>3
    <2> HIDE DEF t
    <2>5. \A j \in 1 .. t : v[j] = w[j]
      BY <2>4
    <2>6. v[t] = w[t]
      BY <2>4, <2>5
    <2>7. SubSeq(v, 1, t - 1) = SubSeq(w, 1, t - 1)
      BY <2>4, <2>5
    <2> QED BY <1>1, <1>3, <2>6, <2>7 DEF Control!Throw
  <1> QED BY <1>2, <1>3

(***************************************************************************)
(* What is open after the regions above t are left.                       *)
(***************************************************************************)
\* What is open and what holds a value when the regions above t are cut off.
LEMMA Cut ==
  ASSUME NEW w \in Seq(Regions), NEW t \in 0 .. Len(w), Held(w, t, Len(w)), NEW v, v = SubSeq(w, 1, t)
  PROVE  /\ v \in Seq(Regions) /\ Len(v) = t /\ \A j \in 1 .. t : v[j] = w[j]
         /\ \A K : Opened(v, K) = {j \in Opened(w, K) : j < t + 1}
         /\ Holding(v) = {j \in Holding(w) : j < t + 1}
         /\ Below(w, v, t + 1)
  <1>1. v \in Seq(Regions) /\ Len(v) = t /\ \A j \in 1 .. t : v[j] = w[j]
    OBVIOUS
  <1>2. \A K : Opened(v, K) = {j \in Opened(w, K) : j < t + 1}
    <2> TAKE K
    <2>1. Opened(v, K) = {j \in Opened(w, K) : j <= t}
      BY OpenedCut
    <2>2. \A j \in Opened(w, K) : j <= t <=> j < t + 1
      BY OpenedIn
    <2> QED BY <2>1, <2>2
  <1>3. Holding(v) = {j \in Holding(w) : j < t + 1}
    <2>1. Holding(v) = {j \in Holding(w) : j <= t}
      BY HoldingCut
    <2>2. \A j \in Holding(w) : j \in 1 .. Len(w)
      BY DEF Holding
    <2>3. \A j \in Holding(w) : j <= t <=> j < t + 1
      BY <2>2
    <2> QED BY <2>1, <2>3
  <1>4. Below(w, v, t + 1)
    <2>1. t + 1 \in 1 .. (Len(w) + 1) /\ t + 1 <= Len(v) + 1 /\ t + 1 - 1 = t
      BY <1>1
    <2> QED BY <1>1, <1>2, <2>1 DEF Below
  <1> QED BY <1>1, <1>2, <1>3, <1>4

\* The innermost region is left.
LEMMA CutLast ==
  ASSUME NEW w \in Seq(Regions), w /= <<>>, Last(w).kind \notin Leaving
  PROVE  /\ Len(w) \in 1 .. Len(w) /\ Last(w) = w[Len(w)] /\ Len(w) \in Nat
         /\ Front(w) = SubSeq(w, 1, Len(w) - 1)
         /\ Front(w) \in Seq(Regions) /\ Len(Front(w)) = Len(w) - 1
         /\ \A j \in 1 .. (Len(w) - 1) : Front(w)[j] = w[j]
         /\ \A K : Opened(Front(w), K) = {j \in Opened(w, K) : j < Len(w)}
         /\ \A K : Last(w).kind \in K => Len(w) \in Opened(w, K)
         /\ \A K : Last(w).kind \notin K => Opened(Front(w), K) = Opened(w, K)
         /\ Holding(Front(w)) = {j \in Holding(w) : j < Len(w)}
         /\ Below(w, Front(w), Len(w))
  <1> DEFINE n == Len(w)
  <1>1. n \in 1 .. n /\ n \in Nat /\ n - 1 \in 0 .. n /\ n - 1 + 1 = n
    OBVIOUS
  <1>2. Last(w) = w[n] /\ Front(w) = SubSeq(w, 1, n - 1)
    BY DEF Last, Front
  <1>3. Held(w, n - 1, n)
    <2>1. \A i \in (n - 1 + 1) .. n : i = n
      <3> HIDE DEF n
      <3> QED BY <1>1
    <2> QED BY <1>2, <2>1 DEF Held
  <1> HIDE DEF n
  <1>4. /\ Front(w) \in Seq(Regions) /\ Len(Front(w)) = n - 1 /\ \A j \in 1 .. (n - 1) : Front(w)[j] = w[j]
        /\ \A K : Opened(Front(w), K) = {j \in Opened(w, K) : j < n - 1 + 1}
        /\ Holding(Front(w)) = {j \in Holding(w) : j < n - 1 + 1}
        /\ Below(w, Front(w), n - 1 + 1)
    BY <1>1, <1>2, <1>3, Cut DEF n
  <1>5. \A K : Last(w).kind \in K => n \in Opened(w, K)
    <2>1. Active(w, n)
      BY <1>1 DEF Active, n
    <2> QED BY <1>1, <1>2, <2>1 DEF Opened, n
  <1>6. ASSUME NEW K, Last(w).kind \notin K
        PROVE  Opened(Front(w), K) = Opened(w, K)
    <2>1. \A j \in Opened(w, K) : j \in 1 .. n /\ w[j].kind \in K
      BY DEF Opened, n
    <2>2. \A j \in Opened(w, K) : j < n
      BY <1>1, <1>2, <1>6, <2>1
    <2> QED BY <1>1, <1>4, <2>2
  <1> QED BY <1>1, <1>2, <1>4, <1>5, <1>6 DEF n

\* The innermost region is a jump; it moves outward, having left the regions from at on.
Moves(w, v, kind, at) ==
    /\ w \in Seq(Regions) /\ w /= <<>> /\ Last(w).kind \in Leaving /\ Last(w).at \in 1 .. Len(w)
    /\ kind \in Leaving /\ at \in 1 .. Last(w).at
    /\ v = Become(w, [Last(w) EXCEPT !.kind = kind, !.at = at])

\* What is open, and what holds a value, after it.
MoveLeaves(w, v, kind, at) ==
    /\ v \in Seq(Regions) /\ Len(v) = Len(w) /\ Len(w) \in Nat /\ Len(w) \in 1 .. Len(w)
    /\ \A j \in 1 .. (Len(w) - 1) : v[j] = w[j]
    /\ w[Len(w)] = Last(w) /\ v[Len(w)] = [Last(w) EXCEPT !.kind = kind, !.at = at]
    /\ v[Len(w)].kind = kind /\ v[Len(w)].at = at /\ v[Len(w)].jump = Last(w).jump
    /\ \A K : K \cap Leaving = {} => Opened(v, K) = {j \in Opened(w, K) : j < at}
    /\ Holding(v) = {j \in Holding(w) : w[j].kind = "with" => j < at}
    /\ Below(w, v, at)
    /\ \A j \in 1 .. (Len(w) - 1) : Held(v, j, Len(w)) => Held(w, j, Len(w))
    /\ \A j \in 1 .. (Len(w) - 1) : j < at => (Held(v, j, Len(w)) <=> Held(w, j, Len(w)))

\* A jump that moves outward leaves just the regions from at on.
LEMMA Moved ==
  ASSUME NEW w, NEW v, NEW kind, NEW at, Moves(w, v, kind, at)
  PROVE  MoveLeaves(w, v, kind, at)
  <1> DEFINE n == Len(w)
             r == [Last(w) EXCEPT !.kind = kind, !.at = at]
             u == Front(w)
  <1>0. /\ w \in Seq(Regions) /\ w /= <<>> /\ Last(w).kind \in Leaving /\ Last(w).at \in 1 .. Len(w)
        /\ kind \in Leaving /\ at \in 1 .. Last(w).at
        /\ v = Become(w, [Last(w) EXCEPT !.kind = kind, !.at = at])
    BY DEF Moves
  <1> USE <1>0
  <1>1. n \in 1 .. n /\ n \in Nat /\ Last(w) = w[n] /\ w[n] \in Regions
    BY DEF Last
  <1>2. r \in Regions /\ r.kind = kind /\ r.at = at /\ r.jump = Last(w).jump /\ at \in Nat
        /\ at <= Last(w).at /\ Last(w).at \in Nat
    <2>1. kind \in Kinds /\ at \in Nat /\ Last(w).at \in Nat /\ at <= Last(w).at
      BY DEF Kinds
    <2>2. Last(w) \in Regions
      BY <1>1
    <2> HIDE DEF n
    <2> QED BY <2>1, <2>2 DEF Regions
  <1>3. u \in Seq(Regions) /\ Len(u) = n - 1 /\ \A j \in 1 .. (n - 1) : u[j] = w[j]
    <2>1. u = SubSeq(w, 1, n - 1) /\ n - 1 \in Nat /\ n - 1 <= Len(w)
      BY <1>1 DEF Front
    <2>2. n \in Nat /\ n \in 1 .. n /\ n = Len(w)
      BY <1>1
    <2> HIDE DEF u, r, n
    <2>3. SubSeq(w, 1, n - 1) \in Seq(Regions) /\ Len(SubSeq(w, 1, n - 1)) = n - 1
          /\ \A j \in 1 .. (n - 1) : SubSeq(w, 1, n - 1)[j] = w[j]
      BY <2>2
    <2> QED BY <2>1, <2>3
  <1> HIDE DEF n, r, u
  <1>4. v \in Seq(Regions) /\ Len(v) = n /\ v[n] = r /\ \A j \in 1 .. (n - 1) : v[j] = w[j]
    BY <1>1, <1>2, <1>3 DEF Become, r, u
  <1>5. \A i \in 1 .. n : i \in 1 .. (n - 1) \/ i = n
    BY <1>1
  <1>6. ASSUME NEW j \in 1 .. (n - 1)
        PROVE  Held(v, j, n) <=> Held(w, j, n) /\ j < at
    <2>1. \A i \in (j + 1) .. n : i \in 1 .. n
      BY <1>1
    <2>2. n \in (j + 1) .. n
      BY <1>1
    <2>3. w[n].kind \in Leaving /\ v[n].kind \in Leaving /\ w[n].at >= at /\ v[n].at = at
      BY <1>1, <1>2, <1>4
    <2>4. ASSUME Held(v, j, n) PROVE Held(w, j, n) /\ j < at
      <3>1. j < at
        BY <1>2, <2>2, <2>3, <2>4 DEF Held
      <3>2. w[n].at > j
        BY <1>1, <1>2, <2>3, <3>1
      <3> QED BY <1>4, <1>5, <2>1, <2>4, <3>1, <3>2 DEF Held
    <2>5. ASSUME Held(w, j, n), j < at PROVE Held(v, j, n)
      <3>1. v[n].at > j
        BY <1>2, <2>3, <2>5
      <3> QED BY <1>4, <1>5, <2>1, <2>5, <3>1 DEF Held
    <2> QED BY <2>4, <2>5
  <1>7. ASSUME NEW K, K \cap Leaving = {}
        PROVE  Opened(v, K) = {j \in Opened(w, K) : j < at}
    <2>1. Opened(v, K) = {j \in 1 .. n : v[j].kind \in K /\ Held(v, j, n)}
      BY <1>4, OpenedHeld
    <2>2. Opened(w, K) = {j \in 1 .. n : w[j].kind \in K /\ Held(w, j, n)}
      BY OpenedHeld DEF n
    <2>3. w[n].kind \notin K /\ v[n].kind \notin K
      BY <1>1, <1>2, <1>4, <1>7
    <2> QED BY <1>4, <1>5, <1>6, <2>1, <2>2, <2>3
  <1>8. Holding(v) = {j \in Holding(w) : w[j].kind = "with" => j < at}
    <2>1. \A j \in 1 .. (n - 1) : Active(v, j) <=> Active(w, j) /\ j < at
      BY <1>4, <1>6 DEF Held, Active, n
    <2>2. DOMAIN v = 1 .. n /\ DOMAIN w = 1 .. n
      BY <1>4 DEF n
    <2>3. \A j \in 1 .. (n - 1) : j \in Holding(v) <=> j \in Holding(w) /\ (w[j].kind = "with" => j < at)
      <3> TAKE j \in 1 .. (n - 1)
      <3>1. j \in 1 .. n
        BY <1>1
      <3> QED BY <1>4, <2>1, <2>2, <3>1, Zenon DEF Holding, Leaving
    <2>4. n \in Holding(v) <=> n \in Holding(w) /\ (w[n].kind = "with" => n < at)
      <3>1. v[n].kind \in Leaving /\ w[n].kind \in Leaving /\ v[n].jump = w[n].jump
        BY <1>1, <1>2, <1>4
      <3> QED BY <1>1, <2>2, <3>1, Zenon DEF Holding, Leaving
    <2>5. Holding(v) \subseteq 1 .. n /\ Holding(w) \subseteq 1 .. n
      BY <2>2 DEF Holding
    <2>6. \A j \in 1 .. n : j \in Holding(v) <=> j \in Holding(w) /\ (w[j].kind = "with" => j < at)
      BY <1>5, <2>3, <2>4
    <2> QED BY <2>5, <2>6
  <1>9. Below(w, v, at)
    <2>1. at \in 1 .. (n + 1) /\ at <= Len(v) + 1 /\ \A j \in 1 .. (at - 1) : j \in 1 .. (n - 1)
      BY <1>1, <1>2, <1>4 DEF n
    <2>2. Guarding \cap Leaving = {} /\ Handling \cap Leaving = {}
      BY DEF Guarding, Protected, Handling, Leaving
    <2> QED BY <1>4, <1>7, <2>1, <2>2 DEF Below, n
  <1> QED BY <1>1, <1>2, <1>4, <1>6, <1>7, <1>8, <1>9 DEF n, r, MoveLeaves

(***************************************************************************)
(* What is current, what is owed and what the blocks are outside the      *)
(* regions that are left.                                                 *)
(***************************************************************************)
\* The current exception is the one outside any region that no running handler lies above.
LEMMA CurrentAt ==
  ASSUME NEW w \in Seq(Regions), NEW f, NEW bl, NEW cur, NEW p \in Nat, Framed(w, bl, cur, f, p),
         NEW k \in Nat, \A h \in Opened(w, Handling) : h < k
  PROVE  cur = Outer(w, k)
  <1>1. \A h \in Opened(w, Handling) : h < Len(w) + 1
    BY OpenedIn
  <1>2. {j \in Opened(w, Handling) : j < Len(w) + 1} = {j \in Opened(w, Handling) : j < k}
    BY <1>1
  <1>3. Len(w) + 1 \in Nat
    OBVIOUS
  <1>4. Outer(w, Len(w) + 1) = Outer(w, k)
    BY <1>2, <1>3, OuterSame
  <1> QED BY <1>4 DEF Framed

\* None of the regions that are left owes a cleanup.
LEMMA AccountedCut ==
  ASSUME NEW w, NEW v, NEW c, Accounted(w, c), NEW k,
         Opened(v, HasCleanup \cup {"exiting"}) = {j \in Opened(w, HasCleanup \cup {"exiting"}) : j < k},
         \A j \in Opened(w, HasCleanup \cup {"exiting"}) : j < k,
         \A j \in Opened(v, HasCleanup \cup {"exiting"}) : v[j].id = w[j].id
  PROVE  Accounted(v, c)
  <1> DEFINE CL == HasCleanup \cup {"exiting"}
  <1>1. Opened(v, CL) = Opened(w, CL)
    OBVIOUS
  <1>2. Cleanups(v) = Cleanups(w)
    BY <1>1, CleanupsSame
  <1> QED BY <1>2, AccountedSame

\* Region k does, and its cleanup is paid for.
LEMMA PaidCut ==
  ASSUME NEW w \in Seq(Regions), NEW v, NEW c, Accounted(w, c), Shaped(w, Len(c)),
         NEW k \in Opened(w, HasCleanup \cup {"exiting"}),
         Opened(v, HasCleanup \cup {"exiting"}) = {j \in Opened(w, HasCleanup \cup {"exiting"}) : j < k},
         \A j \in Opened(w, HasCleanup \cup {"exiting"}) : j <= k,
         \A j \in Opened(v, HasCleanup \cup {"exiting"}) : v[j].id = w[j].id
  PROVE  /\ Accounted(v, Paid(c, w[k].id)) /\ Len(Paid(c, w[k].id)) = Len(c)
         /\ Len(c) \in Nat
  <1> DEFINE CL == HasCleanup \cup {"exiting"}
  <1>1. \A j \in Opened(w, CL) : j \in 1 .. Len(w) /\ j <= k
    BY OpenedIn
  <1>5. k \in Opened(w, CL) /\ Opened(v, CL) = {j \in Opened(w, CL) : j < k}
    OBVIOUS
  <1> HIDE DEF CL
  <1>2. Opened(v, CL) = Opened(w, CL) \ {k}
    <2>1. \A j \in Opened(w, CL) : j < k <=> j /= k
      BY <1>1, <1>5
    <2> QED BY <1>5, <2>1
  <1>3. Len(c) \in Nat
    BY DEF Accounted
  <1>4. Cleanups(v) = Cleanups(w) \ {w[k].id} /\ w[k].id \in Cleanups(w)
    BY <1>2, <1>3, CleanupsLess DEF CL
  <1> QED BY <1>3, <1>4, AccountedPaid

\* A region is added that has no block.
LEMMA PlainPush ==
  ASSUME NEW w \in Seq(Regions), NEW r, Fresh(w, r), r.kind \notin Guarding \cup Handling,
         NEW f \in Seq(Nat), NEW g \in Seq(Nat), SameBelow(f, g, Len(w) + 1),
         NEW bl, NEW cur, NEW p \in Nat, Framed(w, bl, cur, f, p)
  PROVE  Framed(Append(w, r), bl, cur, g, p)
  <1>1. cur = Outer(w, Len(w) + 1) /\ bl \in Seq(BlockSet)
    BY DEF Framed
  <1>2. Outer(Append(w, r), Len(w) + 2) = cur
    BY <1>1, OuterPush
  <1>3. bl \o <<>> = bl
    BY <1>1, ConcatEmptySeq
  <1> DEFINE more == <<>>
  <1>4. more \in Seq(BlockSet) /\ Len(more) = 0
    OBVIOUS
  <1>5. Framed(Append(w, r), bl \o more, Outer(Append(w, r), Len(w) + 2), g, p)
    <2>1. \A i \in 1 .. Len(more) : FALSE
      BY <1>4
    <2> HIDE DEF more
    <2> QED BY <1>4, <2>1, FramedPush
  <1> QED BY <1>2, <1>3, <1>5

(***************************************************************************)
(* Handler blocks that were left behind.                                  *)
(***************************************************************************)
\* With only withs open, every block may be among the first p.
LEMMA AllLeft ==
  ASSUME NEW w \in Seq(Regions), NEW f, NEW bl, NEW cur, NEW p \in Nat, Framed(w, bl, cur, f, p),
         Opened(w, Handling) = {}, Opened(w, {"try", "guard"}) = {}
  PROVE  Framed(w, bl, cur, f, Len(bl))
  <1> DEFINE m == Len(bl)
  <1>1. bl \in Seq(BlockSet) /\ m \in Nat /\ p \in 0 .. m
    BY DEF Framed
  <1>2. ASSUME NEW i \in 1 .. m
        PROVE  bl[i].kind = "With" \/ (bl[i].kind = "Handler" /\ bl[i].saved = None)
    <2>1. CASE bl[i].kind /= "Handler"
      <3>1. Guards(w, bl[i], f) /\ bl[i].kind \in BlockKinds
        BY <2>1, ProperBlocks DEF BlockSet
      <3>2. At(bl[i]) \in Opened(w, Guarding) /\ (w[At(bl[i])].kind = KindOf(bl[i].kind) \/ bl[i].kind = "With")
        BY <3>1 DEF Guards
      <3>3. w[At(bl[i])].kind \notin {"try", "guard"}
        BY <3>2 DEF Opened
      <3> QED BY <2>1, <3>1, <3>2, <3>3 DEF KindOf, BlockKinds
    <2>2. CASE bl[i].kind = "Handler"
      <3>1. ~Handles(w, bl[i])
        BY DEF Handles
      <3>2. ~Proper(bl, p, i)
        BY <2>2, <3>1, ProperBlocks
      <3>3. i \in 1 .. p
        BY <1>1, <3>2 DEF Proper
      <3> QED BY <2>2, <3>3 DEF Framed
    <2> QED BY <2>1, <2>2
  <1>3. \A i \in 1 .. m : Proper(bl, m, i) => Proper(bl, p, i)
    BY <1>1 DEF Proper
  <1>4. \A i, j \in 1 .. m : i < j /\ Proper(bl, m, i) /\ Proper(bl, m, j) => Before(bl[i], bl[j])
    BY <1>3 DEF Framed
  <1>5. \A i, j \in 1 .. m :
           i < j /\ bl[i].kind /= "Handler" /\ w[At(bl[i])].kind = "exiting" => Proper(bl, m, j)
    <2>1. \A i \in 1 .. m : bl[i].kind /= "Handler" => w[At(bl[i])].kind /= "exiting"
      BY ProperBlocks DEF Guards, Opened, Handling
    <2> QED BY <2>1
  <1>6. \A i \in (m + 1) .. m : FALSE
    BY <1>1
  <1>7. m \in 0 .. m
    BY <1>1
  <1> QED BY <1>1, <1>2, <1>4, <1>5, <1>6, <1>7 DEF Framed

\* More of them on top.
LEMMA LeftOnTop ==
  ASSUME NEW w \in Seq(Regions), NEW f, NEW bl, NEW cur, Framed(w, bl, cur, f, Len(bl)),
         NEW more \in Seq(BlockSet),
         \A i \in 1 .. Len(more) : more[i].kind = "Handler" /\ more[i].saved = None,
         \A i \in 1 .. Len(bl), j \in 1 .. Len(more) :
            bl[i].kind /= "Handler" => bl[i].depth <= more[j].depth,
         \A k \in Opened(w, Guarding) : w[k].kind /= "exiting"
  PROVE  Framed(w, bl \o more, cur, f, Len(bl \o more)) /\ Len(bl \o more) \in Nat
  <1> DEFINE m == Len(bl)
             all == bl \o more
             n == Len(all)
  <1>1. bl \in Seq(BlockSet) /\ m \in Nat /\ Len(more) \in Nat
    BY DEF Framed
  <1>2. /\ all \in Seq(BlockSet) /\ n = m + Len(more)
        /\ \A i \in 1 .. m : all[i] = bl[i]
        /\ \A i \in 1 .. Len(more) : all[m + i] = more[i]
    BY <1>1
  <1> HIDE DEF all, m
  <1>3. \A i \in 1 .. n : \/ i \in 1 .. m /\ all[i] = bl[i]
                          \/ i > m /\ i - m \in 1 .. Len(more) /\ all[i] = more[i - m] /\ all[i].kind = "Handler"
    <2> TAKE i \in 1 .. n
    <2>1. CASE i <= m
      BY <1>1, <1>2, <2>1
    <2>2. CASE i > m
      <3>1. i - m \in 1 .. Len(more) /\ m + (i - m) = i
        BY <1>1, <1>2, <2>2
      <3> QED BY <1>2, <2>2, <3>1
    <2> QED BY <1>1, <2>1, <2>2
  <1>4. \A i \in 1 .. m : /\ bl[i].kind = "With" \/ (bl[i].kind = "Handler" /\ bl[i].saved = None)
                          /\ bl[i].kind /= "Handler" => Guards(w, bl[i], f)
    BY DEF Framed, m
  <1>5. \A i \in 1 .. n : all[i].kind = "With" \/ (all[i].kind = "Handler" /\ all[i].saved = None)
    BY <1>3, <1>4
  <1>6. \A i \in 1 .. n : all[i].kind /= "Handler" => Guards(w, all[i], f)
    BY <1>3, <1>4
  <1>7. \A i, j \in 1 .. n : i < j /\ all[i].kind /= "Handler" => all[i].depth <= all[j].depth
    <2> SUFFICES ASSUME NEW i \in 1 .. n, NEW j \in 1 .. n, i < j, all[i].kind /= "Handler"
                 PROVE  all[i].depth <= all[j].depth
      OBVIOUS
    <2>1. i \in 1 .. m /\ all[i] = bl[i]
      BY <1>3
    <2>2. CASE j \in 1 .. m
      BY <1>2, <2>1, <2>2 DEF Framed, m
    <2>3. CASE j \notin 1 .. m
      <3>1. j - m \in 1 .. Len(more) /\ all[j] = more[j - m]
        BY <1>3, <2>3
      <3> QED BY <2>1, <3>1 DEF m
    <2> QED BY <2>2, <2>3
  <1>8. \A i, j \in 1 .. n : i < j /\ Proper(all, n, i) /\ Proper(all, n, j) => Before(all[i], all[j])
    <2> SUFFICES ASSUME NEW i \in 1 .. n, NEW j \in 1 .. n, i < j, all[i].kind = "With", all[j].kind = "With"
                 PROVE  Before(all[i], all[j])
      BY DEF Proper
    <2>1. i \in 1 .. m /\ all[i] = bl[i] /\ j \in 1 .. m /\ all[j] = bl[j]
      BY <1>3
    <2> QED BY <2>1 DEF Framed, m, Proper
  <1>9. \A i, j \in 1 .. n :
           i < j /\ all[i].kind /= "Handler" /\ w[At(all[i])].kind = "exiting" => Proper(all, n, j)
    BY <1>6 DEF Guards
  <1>10. \A k \in Opened(w, Guarding) : \E i \in 1 .. n : all[i].kind /= "Handler" /\ At(all[i]) = k
    <2> TAKE k \in Opened(w, Guarding)
    <2>1. PICK i \in 1 .. m : bl[i].kind /= "Handler" /\ At(bl[i]) = k
      BY DEF Framed, m
    <2>2. i \in 1 .. n /\ all[i] = bl[i]
      BY <1>1, <1>2
    <2> QED BY <2>1, <2>2
  <1>11. Opened(w, Handling) = {}
    <2>1. \A i \in (m + 1) .. m : FALSE
      BY <1>1
    <2> QED BY <2>1 DEF Framed, m
  <1>12. \A i \in (n + 1) .. n : FALSE
    BY <1>1, <1>2
  <1>13. n \in Nat /\ n \in 0 .. n /\ cur = Outer(w, Len(w) + 1)
    BY <1>1, <1>2 DEF Framed
  <1>14. Framed(w, all, cur, f, n)
    BY <1>2, <1>5, <1>6, <1>7, <1>8, <1>9, <1>10, <1>11, <1>12, <1>13 DEF Framed
  <1> QED BY <1>13, <1>14 DEF all

\* The block of the innermost with is removed from under the blocks that were left behind.
LEMMA DropWith ==
  ASSUME NEW w \in Seq(Regions), NEW f \in Seq(Nat), NEW bl, NEW cur, NEW p \in Nat, Framed(w, bl, cur, f, p),
         NEW k \in Opened(w, {"with"}),
         \A j \in Opened(w, Guarding) \cup Opened(w, Handling) : j <= k,
         NEW v \in Seq(Regions), Below(w, v, k), NEW g \in Seq(Nat), SameBelow(f, g, k),
         \A j \in 1 .. (k - 1) : w[j].kind /= "exiting"
  PROVE  \E p1 \in Nat : Framed(v, RemoveAt(bl, LastWithOf(bl)), cur, g, p1)
  <1> DEFINE q == LastWithOf(bl)
             low == SubSeq(bl, 1, q - 1)
             more == SubSeq(bl, q + 1, Len(bl))
  <1>1. /\ q \in 1 .. Len(bl) /\ Len(bl) \in Nat /\ bl[q].kind = "With" /\ At(bl[q]) = k
        /\ \A i \in 1 .. Len(bl) : i > q => bl[i].kind = "Handler" /\ ~Proper(bl, p, i)
        /\ \A i \in 1 .. Len(bl) : Proper(bl, p, i) => (i <= q - 1 <=> At(bl[i]) < k)
        /\ q < Len(bl) => p = Len(bl)
    BY WithBlock
  <1>2. bl \in Seq(BlockSet) /\ p \in 0 .. Len(bl)
    BY DEF Framed
  <1>3. RemoveAt(bl, q) = low \o more
    BY DEF RemoveAt
  <1> HIDE DEF q
  <1>4. low \in Seq(BlockSet) /\ Len(low) = q - 1 /\ \A i \in 1 .. (q - 1) : low[i] = bl[i]
    BY <1>1, <1>2
  <1>5. more \in Seq(BlockSet) /\ Len(more) = Len(bl) - q /\ \A i \in 1 .. (Len(bl) - q) : more[i] = bl[q + i]
    BY <1>1, <1>2
  <1>6. k \in 1 .. Len(w) /\ k \in Nat /\ w[k].kind = "with"
    BY DEF Opened
  <1>7. cur = Outer(w, k)
    <2>1. \A h \in Opened(w, Handling) : h < k
      <3> TAKE h \in Opened(w, Handling)
      <3>1. h <= k /\ h \in 1 .. Len(w) /\ w[h].kind \in Handling
        BY DEF Opened
      <3>2. h /= k
        BY <1>6, <3>1 DEF Handling
      <3> QED BY <1>6, <3>1, <3>2
    <2> QED BY <1>6, <2>1, CurrentAt
  <1>8. q - 1 \in 0 .. Len(bl) /\ q - 1 \in Nat
    BY <1>1
  <1>9. Framed(v, low, cur, g, IF p <= q - 1 THEN p ELSE q - 1)
    <2>1. Framed(v, SubSeq(bl, 1, q - 1), Outer(w, k), g, IF p <= q - 1 THEN p ELSE q - 1)
      BY <1>1, <1>8, FramedBelow
    <2> QED BY <1>7, <2>1
  <1>10. CASE q = Len(bl)
    <2>1. more = <<>>
      BY <1>5, <1>10
    <2>2. low \o more = low
      BY <1>4, <2>1, ConcatEmptySeq
    <2>3. (IF p <= q - 1 THEN p ELSE q - 1) \in Nat
      BY <1>8
    <2> HIDE DEF low, more
    <2> QED BY <1>3, <1>9, <2>2, <2>3 DEF q
  <1>11. CASE q /= Len(bl)
    <2>1. p = Len(bl) /\ ~(p <= q - 1)
      BY <1>1, <1>11
    <2>2. Framed(v, low, cur, g, Len(low))
      BY <1>4, <1>9, <2>1
    <2>3. \A i \in 1 .. Len(more) : q + i \in 1 .. Len(bl) /\ q + i > q /\ more[i] = bl[q + i]
      BY <1>1, <1>5
    <2>4. \A i \in 1 .. Len(more) : more[i].kind = "Handler" /\ more[i].saved = None
      <3> TAKE i \in 1 .. Len(more)
      <3>1. bl[q + i].kind = "Handler" /\ q + i \in 1 .. p
        BY <1>1, <2>1, <2>3
      <3> QED BY <2>3, <3>1 DEF Framed
    <2>5. ASSUME NEW i \in 1 .. Len(low), NEW j \in 1 .. Len(more), low[i].kind /= "Handler"
          PROVE  low[i].depth <= more[j].depth
      <3>1. i \in 1 .. Len(bl) /\ low[i] = bl[i] /\ q + j \in 1 .. Len(bl) /\ i < q + j /\ more[j] = bl[q + j]
        BY <1>1, <1>4, <2>3
      <3> QED BY <2>5, <3>1 DEF Framed
    <2>6. \A j \in Opened(v, Guarding) : v[j].kind /= "exiting"
      <3> TAKE j \in Opened(v, Guarding)
      <3>1. j \in Opened(w, Guarding) /\ j < k
        BY DEF Below
      <3>2. j \in 1 .. (k - 1)
        BY <1>6, <3>1, OpenedIn
      <3> QED BY <3>2 DEF Below
    <2> HIDE DEF low, more
    <2>7. Framed(v, low \o more, cur, g, Len(low \o more)) /\ Len(low \o more) \in Nat
      BY <1>5, <2>2, <2>4, <2>5, <2>6, LeftOnTop
    <2> QED BY <1>3, <2>7 DEF q
  <1> QED BY <1>10, <1>11

\* A Handler block on top counts in Unwind for what it saved only.
LEMMA ThrowSkips ==
  ASSUME NEW e, NEW bl \in Seq(BlockSet), NEW st, NEW cur, NEW c, NEW h \in BlockSet, h.kind = "Handler",
         Len(st) \in Nat,
         \A i \in 1 .. Len(bl) : bl[i].kind /= "Handler" => bl[i].depth <= Len(st) /\ bl[i].depth <= h.depth,
         \A i, j \in 1 .. Len(bl) : i < j /\ bl[i].kind /= "Handler" => bl[i].depth <= bl[j].depth,
         Throw(e, Append(bl, h), st, cur, c)
  PROVE  Throw(e, bl, st, h.saved, c)
  <1> DEFINE all == Append(bl, h)
             t == LastGuard(bl)
             S == {i \in DOMAIN bl : bl[i].kind /= "Handler"}
  <1>1. /\ all \in Seq(BlockSet) /\ Len(all) = Len(bl) + 1 /\ Len(bl) \in Nat /\ all[Len(bl) + 1] = h
        /\ \A i \in 1 .. Len(bl) : all[i] = bl[i]
    OBVIOUS
  <1>2. DOMAIN all = 1 .. Len(bl) \cup {Len(bl) + 1} /\ DOMAIN bl = 1 .. Len(bl)
    OBVIOUS
  <1> HIDE DEF all
  <1>3. {i \in DOMAIN all : all[i].kind /= "Handler"} = S
    BY <1>1, <1>2
  <1>4. LastGuard(all) = t
    BY <1>3 DEF LastGuard
  <1>5. CASE t = 0
    <2>1. Throw(e, all, st, cur, c)
      BY DEF all
    <2>2. Finish("raised", e) /\ owed' = c
      BY <1>4, <1>5, <2>1, ThrowOut
    <2> QED BY <1>5, <2>2 DEF Throw, LastGuard
  <1>6. CASE t /= 0
    <2>1. t \in S /\ S \subseteq 1 .. Len(bl)
      <3>1. S \subseteq 1 .. Len(bl)
        BY <1>2
      <3>2. S /= {}
        BY <1>6 DEF LastGuard, LastOr0
      <3>3. t = LastOr0(S)
        BY DEF LastGuard
      <3> HIDE DEF S, t
      <3> QED BY <1>1, <3>1, <3>2, <3>3, Greatest
    <2>2. t \in 1 .. Len(bl) /\ bl[t].kind /= "Handler" /\ all[t] = bl[t] /\ t \in 1 .. Len(all)
          /\ bl[t].depth <= Len(st)
      BY <1>1, <2>1
    <2> HIDE DEF S
    <2>3. \A i \in 1 .. Len(bl) : i >= t => bl[t].depth <= bl[i].depth
      <3> TAKE i \in 1 .. Len(bl)
      <3>1. bl[t] \in BlockSet
        BY <2>2
      <3>2. bl[t].depth \in Nat
        BY <3>1 DEF BlockSet
      <3>3. i > t => bl[t].depth <= bl[i].depth
        BY <2>2
      <3> QED BY <2>2, <3>2, <3>3
    <2>4. \A i \in 1 .. Len(all) : i >= t => all[t].depth <= all[i].depth
      <3> TAKE i \in 1 .. Len(all)
      <3>1. i \in 1 .. Len(bl) \/ i = Len(bl) + 1
        BY <1>1
      <3> QED BY <1>1, <2>2, <2>3, <3>1
    <2>5. (IF t = Len(all) THEN cur ELSE all[t + 1].saved) = (IF t = Len(bl) THEN h.saved ELSE bl[t + 1].saved)
      <3>1. t /= Len(all)
        BY <1>1, <2>2
      <3>2. t /= Len(bl) => t + 1 \in 1 .. Len(bl)
        BY <2>2
      <3> QED BY <1>1, <3>1, <3>2
    <2>6. SubSeq(all, 1, t) = SubSeq(bl, 1, t) /\ SubSeq(all, 1, t - 1) = SubSeq(bl, 1, t - 1)
      <3> HIDE DEF t
      <3> QED BY <1>1, <2>2
    <2> HIDE DEF t
    <2>7. /\ Goto(Become(all[t].home, Region(OnException(Last(all[t].home).kind), Last(all[t].home).id, e)))
          /\ Set(Append(SubSeq(all, 1, IF all[t].kind = "With" THEN t ELSE t - 1),
                        Block("Handler", all[t].home, all[t].depth,
                              IF t = Len(all) THEN cur ELSE all[t + 1].saved)),
                 SubSeq(st, 1, all[t].depth), e)
          /\ owed' = IF all[t].kind = "Finally" THEN Paid(c, Last(all[t].home).id) ELSE c
      <3>1. Throw(e, all, st, cur, c)
        BY DEF all
      <3>2. all[t].depth <= Len(st)
        BY <2>2
      <3> QED BY <1>1, <1>4, <2>2, <2>4, <3>1, <3>2, ThrowIs
    <2>8. /\ Goto(Become(bl[t].home, Region(OnException(Last(bl[t].home).kind), Last(bl[t].home).id, e)))
          /\ Set(Append(SubSeq(bl, 1, IF bl[t].kind = "With" THEN t ELSE t - 1),
                        Block("Handler", bl[t].home, bl[t].depth,
                              IF t = Len(bl) THEN h.saved ELSE bl[t + 1].saved)),
                 SubSeq(st, 1, bl[t].depth), e)
          /\ owed' = IF bl[t].kind = "Finally" THEN Paid(c, Last(bl[t].home).id) ELSE c
      BY <2>2, <2>5, <2>6, <2>7
    <2>9. t = LastGuard(bl)
      BY DEF t
    <2> QED BY <2>2, <2>3, <2>8, <2>9, ThrowIs
  <1> QED BY <1>5, <1>6

\* The innermost region, which is no with, is left: its block goes, and the exception that was current.
LEMMA LeaveFramed ==
  ASSUME NEW w \in Seq(Regions), NEW f \in Seq(Nat), NEW bl, NEW cur, NEW p \in Nat, Framed(w, bl, cur, f, p),
         w /= <<>>, Last(w).kind \notin Leaving \cup {"with", "exiting"},
         NEW g \in Seq(Nat), SameBelow(f, g, Len(w)),
         NEW q, q = IF Last(w).kind \in {"final", "while", "for"} THEN Len(bl) ELSE Len(bl) - 1
  PROVE  /\ \E p1 \in Nat : Framed(Front(w), SubSeq(bl, 1, q), Outer(w, Len(w)), g, p1)
         /\ Last(w).kind \in Handling =>
               HandlerOnTop(bl) /\ Last(bl).saved = Outer(w, Len(w)) /\ Front(bl) = SubSeq(bl, 1, q)
               /\ At(Last(bl)) = Len(w)
         /\ Last(w).kind \notin Handling => cur = Outer(w, Len(w))
         /\ Last(w).kind \in {"try", "guard"} => PopFrom(bl) = SubSeq(bl, 1, q)
         /\ Last(w).kind \in {"final", "while", "for"} => bl = SubSeq(bl, 1, q)
         /\ q \in 0 .. Len(bl)
  <1> DEFINE n == Len(w)
             kind == Last(w).kind
  <1>1. /\ n \in 1 .. n /\ Last(w) = w[n] /\ n \in Nat
        /\ Front(w) \in Seq(Regions)
        /\ \A K : kind \in K => n \in Opened(w, K)
        /\ \A K : kind \notin K => Opened(Front(w), K) = Opened(w, K)
        /\ \A K : Opened(Front(w), K) = {j \in Opened(w, K) : j < n}
        /\ Below(w, Front(w), n)
    BY CutLast
  <1>2. bl \in Seq(BlockSet) /\ Len(bl) \in Nat /\ p \in 0 .. Len(bl)
    BY DEF Framed
  <1>3. kind \in Kinds
    BY <1>1, RegionTypes
  <1>4. \A j \in Opened(w, Guarding) \cup Opened(w, Handling) : j <= n /\ j \in Nat
    BY OpenedIn
  <1>5. kind \in {"final", "while", "for"} \/ kind \in {"try", "guard", "clauses", "handler", "cleanup"}
    BY <1>3 DEF Kinds, Protected, Handling, Loops, Leaving
  <1> HIDE DEF n, kind
  <1>6. q \in 0 .. Len(bl) /\ \A i \in 1 .. Len(bl) : Proper(bl, p, i) => (i <= q <=> At(bl[i]) < n)
    <2>1. CASE kind \in {"final", "while", "for"}
      <3>1. kind \notin Guarding /\ kind \notin Handling
        BY <2>1 DEF Guarding, Protected, Handling
      <3>2. \A j \in Opened(w, Guarding) \cup Opened(w, Handling) : j < n
        BY <1>1, <3>1
      <3>3. \A i \in 1 .. Len(bl) : Proper(bl, p, i) => At(bl[i]) < n
        BY <3>2, ProperBlocks
      <3> QED BY <1>2, <2>1, <3>3 DEF kind
    <2>2. CASE kind \in {"try", "guard", "clauses", "handler", "cleanup"}
      <3>1. n \in Opened(w, {"try", "guard", "clauses", "handler", "cleanup"})
        BY <1>1, <2>2
      <3>2. Len(bl) \in Nat \ {0} /\ \A i \in 1 .. Len(bl) : Proper(bl, p, i) => (i <= Len(bl) - 1 <=> At(bl[i]) < n)
        BY <1>4, <3>1, TopBlock
      <3>3. q = Len(bl) - 1
        BY <2>2 DEF kind
      <3> QED BY <3>2, <3>3
    <2> QED BY <1>5, <2>1, <2>2
  <1>7. \E p1 \in Nat : Framed(Front(w), SubSeq(bl, 1, q), Outer(w, n), g, p1)
    <2>1. Framed(Front(w), SubSeq(bl, 1, q), Outer(w, n), g, IF p <= q THEN p ELSE q)
      BY <1>1, <1>6, FramedBelow DEF n
    <2>2. (IF p <= q THEN p ELSE q) \in Nat
      BY <1>6
    <2> QED BY <2>1, <2>2
  <1>8. kind \in Handling =>
               HandlerOnTop(bl) /\ Last(bl).saved = Outer(w, n) /\ Front(bl) = SubSeq(bl, 1, q) /\ At(Last(bl)) = n
    <2> SUFFICES ASSUME kind \in Handling
                 PROVE  HandlerOnTop(bl) /\ Last(bl).saved = Outer(w, n) /\ Front(bl) = SubSeq(bl, 1, q)
                        /\ At(Last(bl)) = n
      OBVIOUS
    <2>1. kind \notin {"final", "while", "for"}
      BY DEF Handling
    <2>2. n \in Opened(w, {"try", "guard", "clauses", "handler", "cleanup"}) /\ w[n].kind \in Handling
      BY <1>1, <1>5, <2>1 DEF kind
    <2>3. /\ Len(bl) \in Nat \ {0} /\ At(bl[Len(bl)]) = n
          /\ bl[Len(bl)].kind = "Handler" <=> w[n].kind \in Handling
          /\ bl[Len(bl)].kind = "Handler" => bl[Len(bl)].saved = Outer(w, n)
      BY <1>4, <2>2, TopBlock
    <2>4. q = Len(bl) - 1
      BY <2>1 DEF kind
    <2>5. bl /= <<>>
      BY <2>3
    <2> QED BY <2>2, <2>3, <2>4, <2>5 DEF HandlerOnTop, Last, Front
  <1>9. kind \notin Handling => cur = Outer(w, n)
    <2> SUFFICES ASSUME kind \notin Handling PROVE cur = Outer(w, n)
      OBVIOUS
    <2>1. \A h \in Opened(w, Handling) : h < n
      BY <1>1
    <2> QED BY <1>1, <2>1, CurrentAt
  <1>10. kind \in {"try", "guard"} => PopFrom(bl) = SubSeq(bl, 1, q)
    <2> SUFFICES ASSUME kind \in {"try", "guard"} PROVE PopFrom(bl) = SubSeq(bl, 1, q)
      OBVIOUS
    <2>1. n \in Opened(w, {"try", "guard", "clauses", "handler", "cleanup"})
      BY <1>1
    <2>2. Len(bl) \in Nat \ {0}
      BY <1>4, <2>1, TopBlock
    <2>3. bl /= <<>> /\ q = Len(bl) - 1
      BY <2>2 DEF kind
    <2> QED BY <2>3 DEF PopFrom, Front
  <1>11. kind \in {"final", "while", "for"} => bl = SubSeq(bl, 1, q)
    BY <1>2 DEF kind
  <1> QED BY <1>6, <1>7, <1>8, <1>9, <1>10, <1>11 DEF n, kind

\* When the last region is a handler, its block is the one on top.
HandlerFreed(w, bl, q) ==
    HandlerOnTop(bl) /\ Last(bl).saved = Outer(w, Len(w)) /\ Front(bl) = SubSeq(bl, 1, q)
\* This is LeaveFramed for a handler.
LEMMA LeaveHandler ==
  ASSUME NEW w \in Seq(Regions), NEW f \in Seq(Nat), NEW bl, NEW cur, NEW p \in Nat, Framed(w, bl, cur, f, p),
         w /= <<>>, Last(w).kind \in Handling \ {"exiting"}, NEW q, q = Len(bl) - 1
  PROVE  HandlerFreed(w, bl, q)
  <1>1. Last(w).kind \notin Leaving \cup {"with", "exiting"} /\ Last(w).kind \notin {"final", "while", "for"}
    BY ONLY Last(w).kind \in Handling \ {"exiting"} DEF Handling, Leaving
  <1>2. q = IF Last(w).kind \in {"final", "while", "for"} THEN Len(bl) ELSE Len(bl) - 1
    BY <1>1
  <1>3. SameBelow(f, f, Len(w))
    BY SameBelowSame
  <1>4. Last(w).kind \in Handling =>
           HandlerOnTop(bl) /\ Last(bl).saved = Outer(w, Len(w)) /\ Front(bl) = SubSeq(bl, 1, q)
           /\ At(Last(bl)) = Len(w)
    BY <1>1, <1>2, <1>3, LeaveFramed
  <1> QED BY <1>4 DEF HandlerFreed

(***************************************************************************)
(* The steps.                                                             *)
(***************************************************************************)
\* What the invariant says where the stacks still count.
LEMMA Standing ==
  ASSUME IInv, ~Abandoned(where)
  PROVE  /\ where \in Seq(Regions) /\ Len(where) \in Nat /\ Len(owed) \in Nat
         /\ owed \in Seq(Int) /\ blocks \in Seq(BlockSet)
         /\ \E f \in Seq(Nat), p \in Nat : Valued(where, stack, f) /\ Framed(where, blocks, current, f, p)
  <1>1. where \in Seq(Regions) /\ owed \in Seq(Int) /\ blocks \in Seq(BlockSet)
    BY DEF IInv, Shaped, Accounted
  <1>2. PICK f : Valued(where, stack, f) /\ \E p \in Nat : Framed(where, blocks, current, f, p)
    BY DEF IInv, Stacked
  <1>3. f \in Seq(Nat)
    BY <1>2 DEF Valued
  <1> QED BY <1>1, <1>2, <1>3

\* At a statement none of the regions is one that lasts for a step only.
LEMMA AtHere ==
  ASSUME IInv, Here
  PROVE  /\ ended = Running /\ ~Abandoned(where)
         /\ \A k \in 1 .. Len(where) : where[k].kind \notin Brief
  <1>1. ended = Running /\ AtStatement(where)
    BY DEF Here
  <1>2. ~Abandoned(where)
    BY <1>1 DEF AtStatement, Abandoned
  <1>3. ASSUME NEW k \in 1 .. Len(where), where[k].kind \in Brief
        PROVE  FALSE
    <2>1. k = Len(where) /\ where /= <<>>
      BY <1>3 DEF IInv, Shaped
    <2>2. Last(where).kind \in Brief
      BY <1>3, <2>1 DEF Last
    <2> QED BY <1>1, <2>1, <2>2 DEF AtStatement, Brief
  <1> QED BY <1>1, <1>2, <1>3

\* The innermost region is left, with its block.
LEMMA Left ==
  ASSUME NEW w, NEW c, NEW bl, NEW st, NEW cur, NEW f \in Seq(Nat), NEW p \in Nat,
         Shaped(w, Len(c)), Accounted(w, c), Valued(w, st, f), Framed(w, bl, cur, f, p),
         w /= <<>>, Last(w).kind \in {"try", "clauses", "handler", "cleanup", "final", "while"},
         NEW q, q = IF Last(w).kind \in {"final", "while"} THEN Len(bl) ELSE Len(bl) - 1
  PROVE  /\ Shaped(Front(w), Len(c)) /\ Accounted(Front(w), c) /\ Valued(Front(w), st, f)
         /\ \E p1 \in Nat : Framed(Front(w), SubSeq(bl, 1, q), Outer(w, Len(w)), f, p1)
  <1> DEFINE n == Len(w)
             kind == Last(w).kind
             CL == HasCleanup \cup {"exiting"}
  <1>1. w \in Seq(Regions) /\ Len(c) \in Nat
    BY DEF Shaped, Accounted
  <1>2. kind \notin Leaving /\ kind \notin CL /\ kind \notin {"with", "exiting", "for"}
    BY DEF Leaving, HasCleanup
  <1>3. /\ n \in 1 .. n /\ Last(w) = w[n] /\ n \in Nat
        /\ Front(w) = SubSeq(w, 1, n - 1)
        /\ \A j \in 1 .. (n - 1) : Front(w)[j] = w[j]
        /\ \A K : Opened(Front(w), K) = {j \in Opened(w, K) : j < n}
        /\ \A K : kind \notin K => Opened(Front(w), K) = Opened(w, K)
        /\ Holding(Front(w)) = {j \in Holding(w) : j < n}
    BY <1>1, <1>2, CutLast
  <1> HIDE DEF n, kind, CL
  <1>4. Shaped(Front(w), Len(c))
    BY <1>1, <1>3, ShapedCut DEF n
  <1>5. Accounted(Front(w), c)
    <2>1. Opened(Front(w), CL) = Opened(w, CL)
      BY <1>2, <1>3
    <2>2. \A j \in Opened(Front(w), CL) : j \in 1 .. (n - 1)
      <3>1. \A j \in Opened(w, CL) : j \in 1 .. n
        BY <1>1, OpenedIn DEF n
      <3> QED BY <1>3, <3>1
    <2>3. \A j \in Opened(Front(w), CL) : Front(w)[j].id = w[j].id
      BY <1>3, <2>2
    <2>4. Cleanups(Front(w)) = Cleanups(w)
      BY <2>1, <2>3, CleanupsSame DEF CL
    <2> QED BY <2>4, AccountedSame
  <1>6. Valued(Front(w), st, f)
    <2>1. Holding(w) \subseteq 1 .. n
      BY <1>1 DEF Holding, n
    <2>2. n \notin Holding(w)
      BY <1>2, <1>3 DEF Holding, Leaving
    <2>4. \A k \in Holding(w) : k \in 1 .. (n - 1) /\ k < n
      BY <1>3, <2>1, <2>2
    <2>3. Holding(Front(w)) = Holding(w)
      BY <1>3, <2>4
    <2> QED BY <1>3, <2>3, <2>4, ValuedSame
  <1>7. \E p1 \in Nat : Framed(Front(w), SubSeq(bl, 1, q), Outer(w, Len(w)), f, p1)
    <2>1. Last(w).kind \notin Leaving \cup {"with", "exiting"}
          /\ q = IF Last(w).kind \in {"final", "while", "for"} THEN Len(bl) ELSE Len(bl) - 1
      BY <1>2 DEF kind
    <2> QED BY <1>1, <2>1, LeaveFramed, SameBelowSame
  <1> QED BY <1>4, <1>5, <1>6, <1>7

\* The end of the body of a try, of a handler, of a finally body or of a while loop.
LEMMA LeaveKeeps ==
  ASSUME IInv, ended = Running, where /= <<>>, Last(where).kind \in {"try", "handler", "final", "while"},
         Goto(Front(where)), UNCHANGED <<owed, stack>>,
         IF Last(where).kind = "try" THEN blocks' = PopFrom(blocks) /\ UNCHANGED current
         ELSE IF Last(where).kind = "handler" THEN blocks' = WithoutHandler(blocks) /\ current' = Restored(blocks)
         ELSE UNCHANGED <<blocks, current>>
  PROVE  IInv'
  <1> DEFINE kind == Last(where).kind
             q == IF kind \in {"final", "while"} THEN Len(blocks) ELSE Len(blocks) - 1
  <1>1. ~Abandoned(where)
    BY DEF Abandoned
  <1>2. where \in Seq(Regions) /\ Shaped(where, Len(owed)) /\ Accounted(where, owed)
    BY <1>1, Standing DEF IInv
  <1>3. PICK f \in Seq(Nat), p \in Nat : Valued(where, stack, f) /\ Framed(where, blocks, current, f, p)
    BY <1>1, Standing
  <1>4. /\ Shaped(Front(where), Len(owed)) /\ Accounted(Front(where), owed) /\ Valued(Front(where), stack, f)
        /\ \E p1 \in Nat : Framed(Front(where), SubSeq(blocks, 1, q), Outer(where, Len(where)), f, p1)
    BY <1>2, <1>3, Left
  <1>5. /\ kind \in Handling =>
               HandlerOnTop(blocks) /\ Last(blocks).saved = Outer(where, Len(where))
               /\ Front(blocks) = SubSeq(blocks, 1, q)
        /\ kind \notin Handling => current = Outer(where, Len(where))
        /\ kind \in {"try", "guard"} => PopFrom(blocks) = SubSeq(blocks, 1, q)
        /\ kind \in {"final", "while", "for"} => blocks = SubSeq(blocks, 1, q)
    <2>1. kind \notin Leaving \cup {"with", "exiting"}
          /\ q = IF kind \in {"final", "while", "for"} THEN Len(blocks) ELSE Len(blocks) - 1
      BY DEF Leaving
    <2>2. SameBelow(f, f, Len(where))
      BY SameBelowSame
    <2>3. where \in Seq(Regions) /\ where /= <<>> /\ Framed(where, blocks, current, f, p)
      BY <1>2, <1>3
    <2> HIDE DEF q
    <2> QED BY ONLY <2>1, <2>2, <2>3, LeaveFramed DEF kind
  <1>6. blocks' = SubSeq(blocks, 1, q) /\ current' = Outer(where, Len(where))
    <2> HIDE DEF q
    <2>1. CASE kind = "handler"
      BY <1>5, <2>1 DEF Handling, WithoutHandler, Restored
    <2>2. CASE kind = "try"
      BY <1>5, <2>2 DEF Handling
    <2>3. CASE kind \in {"final", "while"}
      BY <1>5, <2>3 DEF Handling
    <2> QED BY <2>1, <2>2, <2>3
  <1>7. where' = Front(where) /\ ended' = ended /\ owed' = owed /\ stack' = stack
    BY DEF Goto
  <1> HIDE DEF q, kind
  <1> QED BY <1>3, <1>4, <1>6, <1>7, GoesOn

\* A construct with a block is entered.
LEMMA SetupKeeps ==
  ASSUME IInv, NEW kind \in Protected, Setup(kind)
  PROVE  IInv' /\ Control!Enter(kind)
  <1> DEFINE n == Len(where) + 1
             r == Region(kind, NewId, None)
             w == Append(where, r)
             st == IF kind = "with" THEN Append(stack, Value("exit", NewId)) ELSE stack
             b == Block(BlockKindOf(kind), w, Len(st), None)
             CL == HasCleanup \cup {"exiting"}
             c == Append(owed, Debt(kind))
  <1>1. Here /\ ended = Running /\ ~Abandoned(where) /\ \A k \in 1 .. Len(where) : where[k].kind \notin Brief
    BY AtHere DEF Setup, CanOpen
  <1>2. where \in Seq(Regions) /\ Len(where) \in Nat /\ Len(owed) \in Nat /\ Shaped(where, Len(owed))
        /\ Accounted(where, owed) /\ blocks \in Seq(BlockSet)
    BY <1>1, Standing DEF IInv
  <1>3. PICK f \in Seq(Nat), p \in Nat : Valued(where, stack, f) /\ Framed(where, blocks, current, f, p)
    BY <1>1, Standing
  <1>4. where' = w /\ ended' = ended /\ blocks' = Append(blocks, b) /\ stack' = st /\ current' = current /\ owed' = c
    BY DEF Setup, Goto, Set
  <1>5. /\ r \in Regions /\ r.kind = kind /\ r.id = NewId /\ r.kind \notin Leaving \cup Handling
        /\ NewId = Len(owed) + 1 /\ NewId \in Nat /\ n \in Nat
    BY <1>2 DEF Region, Regions, Kinds, Protected, Leaving, Handling, NewId
  <1>6. Fresh(where, r)
    BY <1>5 DEF Fresh
  <1> HIDE DEF r
  <1>7. w \in Seq(Regions) /\ Len(w) = n /\ w[n] = r /\ \A k \in 1 .. Len(where) : w[k] = where[k]
    BY <1>2, <1>5
  <1>8. \A K : Opened(w, K) = Opened(where, K) \cup (IF kind \in K THEN {n} ELSE {})
    BY <1>2, <1>5, <1>6, OpenedPush
  <1>9. \A K : Opened(where, K) \subseteq 1 .. Len(where)
    BY <1>2, OpenedIn
  <1> DEFINE g == IF kind = "with" THEN Append(f, n) ELSE f
  <1>10. /\ Valued(w, st, g) /\ SameBelow(f, g, n) /\ g \in Seq(Nat) /\ Len(g) = Len(st)
         /\ Len(g) \in Nat
         /\ \A j \in 1 .. Len(g) : g[j] <= n
    <2>1. Holding(w) = Holding(where) \cup (IF kind = "with" THEN {n} ELSE {})
      <3>1. \A k \in Holding(where) : where[k].kind = "with" /\ r.kind \in Leaving => r.at > k
        BY <1>5
      <3>2. kind \notin {"for", "exiting"} /\ kind \notin Leaving
        BY DEF Protected, Leaving
      <3> QED BY <1>2, <1>5, <3>1, <3>2, HoldingAppend
    <2>2. \A k \in Holding(where) : k \in 1 .. Len(where)
      BY <1>2 DEF Holding
    <2>3. \A k \in Holding(where) : k < n /\ ValueOf(w[k]) = ValueOf(where[k])
      BY <1>2, <1>7, <2>2
    <2>4. ValueOf(r) = Value("exit", NewId) \/ kind /= "with"
      BY <1>5 DEF ValueOf
    <2>5. Value("exit", NewId) \in Values
      BY <1>5 DEF Value, Values
    <2>6. f \in Seq(Nat) /\ Len(f) = Len(stack) /\ Len(f) \in Nat /\ \A j \in 1 .. Len(f) : f[j] < n
      BY <1>3, <2>3 DEF Valued
    <2>7. CASE kind = "with"
      <3>1. Valued(w, Append(stack, ValueOf(w[n])), Append(f, n)) /\ SameBelow(f, Append(f, n), n)
            /\ Append(f, n) \in Seq(Nat) /\ Len(Append(f, n)) = Len(f) + 1
        <4>1. Holding(w) = Holding(where) \cup {n}
          BY <2>1, <2>7
        <4>2. ValueOf(w[n]) \in Values
          BY <1>7, <2>4, <2>5, <2>7
        <4> HIDE DEF w, n, st, g
        <4> QED BY <1>3, <1>5, <2>3, <4>1, <4>2, ValuedPush
      <3>2. st = Append(stack, ValueOf(w[n])) /\ g = Append(f, n)
        BY <1>7, <2>4, <2>7
      <3>3. stack \in Seq(Values)
        BY <1>3 DEF Valued
      <3>4. Len(st) = Len(f) + 1
        BY <2>5, <2>6, <2>7, <3>3
      <3>5. Append(f, n)[Len(f) + 1] = n /\ \A j \in 1 .. Len(f) : Append(f, n)[j] = f[j]
        BY <1>5, <2>6
      <3>6. \A j \in 1 .. (Len(f) + 1) : Append(f, n)[j] <= n
        <4>1. \A j \in 1 .. (Len(f) + 1) : j \in 1 .. Len(f) \/ j = Len(f) + 1
          BY <2>6
        <4> HIDE DEF n
        <4> QED BY <1>5, <2>6, <3>5, <4>1
      <3> HIDE DEF g, st, w, n
      <3> QED BY <2>6, <3>1, <3>2, <3>4, <3>6
    <2>8. CASE kind /= "with"
      <3>1. st = stack /\ g = f /\ Holding(w) = Holding(where)
        BY <2>1, <2>8
      <3>2. Valued(w, stack, f)
        <4> HIDE DEF w
        <4> QED BY <1>3, <2>3, <3>1, ValuedSame
      <3>3. SameBelow(f, f, n)
        BY SameBelowSame
      <3>4. \A j \in 1 .. Len(f) : f[j] <= n
        BY <1>5, <2>6
      <3> HIDE DEF g, st, w, n
      <3> QED BY <2>6, <3>1, <3>2, <3>3, <3>4
    <2> QED BY <2>7, <2>8
  <1> HIDE DEF g, st
  <1>11. /\ b.kind \in {"Except", "Finally", "With"} /\ b.home = w /\ b.depth = Len(g) /\ b.saved = None
         /\ KindOf(b.kind) = kind /\ At(b) = n /\ b \in BlockSet
    BY <1>7, <1>10 DEF Block, BlockKindOf, Protected, KindOf, At, BlockSet, BlockKinds
  <1>12. Guards(w, b, g)
    <2>1. n \in Opened(w, Guarding)
      BY <1>8 DEF Guarding
    <2>2. w[n].kind = KindOf(b.kind)
      BY <1>5, <1>7, <1>11
    <2>3. b.home = Append(SubSeq(w, 1, n - 1), Region(KindOf(b.kind), w[n].id, None))
      <3>1. SubSeq(w, 1, n - 1) = where
        <4>1. SubSeq(w, 1, n - 1) \in Seq(Regions) /\ Len(SubSeq(w, 1, n - 1)) = n - 1
              /\ \A k \in 1 .. (n - 1) : SubSeq(w, 1, n - 1)[k] = w[k]
          <5> HIDE DEF w
          <5> QED BY <1>2, <1>7
        <4>2. n - 1 = Len(where)
          BY <1>2
        <4> HIDE DEF w, n
        <4> QED BY <1>2, <1>7, <4>1, <4>2, SeqEqual
      <3>2. Region(KindOf(b.kind), w[n].id, None) = r
        BY <1>5, <1>7, <1>11 DEF r
      <3> QED BY <1>11, <3>1, <3>2
    <2>4. b.depth \in 0 .. Len(g) /\ \A j \in 1 .. Len(g) : j <= b.depth <=> g[j] <= n
      BY <1>10, <1>11
    <2> HIDE DEF w, n, b
    <2> QED BY <1>11, <2>1, <2>2, <2>3, <2>4 DEF Guards
  <1>13. Framed(w, Append(blocks, b), current, g, p)
    <2> DEFINE more == <<b>>
    <2>1. more \in Seq(BlockSet) /\ Len(more) = 1 /\ more[1] = b
      BY <1>11
    <2>2. \A i \in 1 .. 1 : i = 1
      BY ONLY TRUE
    <2>3. \A j \in 1 .. Len(blocks) : blocks[j].kind /= "Handler" => blocks[j].depth <= b.depth
      <3> TAKE j \in 1 .. Len(blocks)
      <3> HAVE blocks[j].kind /= "Handler"
      <3>1. Guards(where, blocks[j], f)
        BY <1>3 DEF Framed
      <3>2. blocks[j].depth \in 0 .. Len(f)
        BY <3>1 DEF Guards
      <3>3. Len(f) <= Len(g) /\ Len(f) \in Nat
        BY <1>3, <1>10 DEF g
      <3> QED BY <1>10, <1>11, <3>2, <3>3
    <2> HIDE DEF more, b, w
    <2>4. \A i \in 1 .. Len(more) :
            /\ At(more[i]) = Len(where) + 1
            /\ \A j \in 1 .. Len(blocks) : blocks[j].kind /= "Handler" => blocks[j].depth <= more[i].depth
            /\ more[i].kind /= "Handler" => Guards(w, more[i], g)
            /\ more[i].kind = "Handler" => Handles(w, more[i])
      BY <1>11, <1>12, <2>1, <2>2, <2>3
    <2>5. \A i, j \in 1 .. Len(more) :
            i < j => /\ more[i].kind /= "Handler" /\ more[j].kind = "Handler"
                     /\ more[i].depth <= more[j].depth
      BY <2>1, <2>2
    <2>6. (\E i \in 1 .. Len(more) : more[i].kind /= "Handler") /\ r.kind \notin Handling
      BY <1>5, <1>11, <2>1
    <2>7. Framed(w, blocks \o more, Outer(w, Len(where) + 2), g, p)
      BY <1>2, <1>3, <1>6, <1>10, <2>1, <2>4, <2>5, <2>6, FramedPush DEF w
    <2>8. blocks \o more = Append(blocks, b)
      BY <1>2, <1>11, TwoMore DEF more
    <2>9. Outer(w, Len(where) + 2) = current
      <3>1. current = Outer(where, Len(where) + 1)
        BY <1>3 DEF Framed
      <3> QED BY <1>2, <1>5, <1>6, <3>1, OuterPush DEF w
    <2> QED BY <2>7, <2>8, <2>9
  <1>14. Shaped(w, Len(owed) + 1)
    BY <1>1, <1>2, <1>5, ShapedNew DEF r
  <1>15. Accounted(w, c) /\ Len(c) = Len(owed) + 1
    <2>1. \A j \in Opened(where, CL) : j \in 1 .. Len(where)
      BY <1>9
    <2>2. \A j \in Opened(where, CL) : w[j].id = where[j].id
      BY <1>7, <2>1
    <2>3. Opened(w, CL) = Opened(where, CL) \cup (IF kind \in HasCleanup THEN {n} ELSE {})
      <3>1. kind \in CL <=> kind \in HasCleanup
        BY DEF Protected
      <3> HIDE DEF w, CL
      <3> QED BY <1>8, <3>1
    <2>4. w[n].id = Len(owed) + 1
      BY <1>5, <1>7
    <2>5. Cleanups(w) = Cleanups(where) \cup (IF kind \in HasCleanup THEN {Len(owed) + 1} ELSE {})
      <3> HIDE DEF w, n
      <3> QED BY <2>2, <2>3, <2>4 DEF Cleanups
    <2>6. Accounted(w, Append(owed, Debt(kind))) /\ Len(Append(owed, Debt(kind))) = Len(owed) + 1
      <3>1. Accounted(where, owed) /\ Shaped(where, Len(owed))
        BY <1>2
      <3> HIDE DEF w, CL, c, n, b
      <3>2. Accounted(w, Append(owed, Debt(kind)))
        BY ONLY <2>5, <3>1, AccountedNew
      <3>3. Len(Append(owed, Debt(kind))) = Len(owed) + 1
        BY ONLY <2>5, <3>1, AccountedNew
      <3> QED BY <3>2, <3>3
    <2> QED BY <2>6
  <1>16. IInv'
    <2> HIDE DEF w, b, c
    <2> QED BY <1>1, <1>3, <1>4, <1>10, <1>13, <1>14, <1>15, GoesOn
  <1>17. Control!Enter(kind)
    <2>1. Control!Here
      BY <1>1, SameRegions DEF Here, Control!Here
    <2>2. Control!Goto(Append(where, Control!Region(kind, Len(owed) + 1, None)))
      BY <1>4, <1>5, SameRegions DEF Control!Goto, r
    <2>3. owed' = Append(owed, Control!Debt(kind))
      BY <1>4, SameRegions
    <2> QED BY <2>1, <2>2, <2>3 DEF Control!Enter, Setup, CanOpen
  <1> QED BY <1>16, <1>17

\* A region that has no block is added, with its value if it holds one.
LEMMA PlainRegion ==
  ASSUME NEW w \in Seq(Regions), NEW r, Fresh(w, r), r.kind \notin Guarding \cup Handling,
         NEW f \in Seq(Nat), NEW st, Valued(w, st, f),
         NEW bl, NEW cur, NEW p \in Nat, Framed(w, bl, cur, f, p), ValueOf(r) \in Values,
         NEW st2, st2 = IF r.kind = "for" \/ (r.kind \in Leaving /\ r.jump = "return")
                        THEN Append(st, ValueOf(r)) ELSE st
  PROVE  \E g \in Seq(Nat) : Valued(Append(w, r), st2, g) /\ Framed(Append(w, r), bl, cur, g, p)
  <1> DEFINE n == Len(w) + 1
             v == Append(w, r)
             holds == r.kind = "for" \/ (r.kind \in Leaving /\ r.jump = "return")
  <1>1. /\ v \in Seq(Regions) /\ Len(v) = n /\ v[n] = r /\ n \in Nat /\ r \in Regions
        /\ \A k \in 1 .. Len(w) : v[k] = w[k]
    BY DEF Fresh
  <1>2. Holding(v) = Holding(w) \cup (IF holds THEN {n} ELSE {})
    <2>1. \A k \in Holding(w) : w[k].kind = "with" /\ r.kind \in Leaving => r.at > k
      BY DEF Holding, Fresh
    <2>2. r.kind \notin {"with", "exiting"}
      BY DEF Guarding, Protected
    <2> QED BY <1>1, <2>1, <2>2, HoldingAppend
  <1>3. \A k \in Holding(w) : k < n /\ ValueOf(v[k]) = ValueOf(w[k])
    <2>1. \A k \in Holding(w) : k \in 1 .. Len(w)
      BY DEF Holding
    <2> QED BY <1>1, <2>1
  <1> HIDE DEF v, n
  <1>4. CASE holds
    <2>3. /\ Valued(w, st, f) /\ n \in Nat /\ Holding(v) = Holding(w) \cup {n}
          /\ (\A k \in Holding(w) : k < n) /\ (\A k \in Holding(w) : ValueOf(v[k]) = ValueOf(w[k]))
          /\ ValueOf(v[n]) \in Values
      BY <1>1, <1>2, <1>3, <1>4
    <2>1. Valued(v, Append(st, ValueOf(v[n])), Append(f, n)) /\ SameBelow(f, Append(f, n), n)
          /\ Append(f, n) \in Seq(Nat)
      BY ONLY <2>3, ValuedPush
    <2>2. Framed(v, bl, cur, Append(f, n), p)
      BY <2>1, PlainPush DEF v, n
    <2> QED BY <1>1, <1>4, <2>1, <2>2 DEF v
  <1>5. CASE ~holds
    <2>1. Valued(v, st, f)
      BY <1>2, <1>3, <1>5, ValuedSame
    <2>2. Framed(v, bl, cur, f, p)
      BY SameBelowSame, PlainPush DEF v
    <2> QED BY <1>5, <2>1, <2>2 DEF v
  <1> QED BY <1>4, <1>5

\* A loop is entered.
LEMMA EnterLoopKeeps ==
  ASSUME IInv, NEW kind \in Loops, EnterLoop(kind)
  PROVE  IInv' /\ Control!Enter(kind)
  <1> DEFINE r == Region(kind, NewId, None)
             w == Append(where, r)
             CL == HasCleanup \cup {"exiting"}
             c == Append(owed, Debt(kind))
  <1>1. Here /\ ended = Running /\ ~Abandoned(where) /\ \A k \in 1 .. Len(where) : where[k].kind \notin Brief
    BY AtHere DEF EnterLoop, CanOpen
  <1>2. where \in Seq(Regions) /\ Len(where) \in Nat /\ Len(owed) \in Nat /\ Shaped(where, Len(owed))
        /\ Accounted(where, owed) /\ blocks \in Seq(BlockSet)
    BY <1>1, Standing DEF IInv
  <1>3. PICK f \in Seq(Nat), p \in Nat : Valued(where, stack, f) /\ Framed(where, blocks, current, f, p)
    BY <1>1, Standing
  <1>4. /\ where' = w /\ ended' = ended /\ blocks' = blocks /\ current' = current /\ owed' = c
        /\ stack' = IF kind = "for" THEN Append(stack, Value("iterator", NewId)) ELSE stack
    BY DEF EnterLoop, Goto
  <1>5. /\ r \in Regions /\ r.kind = kind /\ r.id = NewId /\ NewId = Len(owed) + 1 /\ NewId \in Nat
        /\ r.kind \notin Leaving \cup Handling \cup Guarding
    BY <1>2 DEF Region, Regions, Kinds, Loops, Leaving, Handling, NewId, Guarding, Protected
  <1>6. Fresh(where, r)
    BY <1>5 DEF Fresh
  <1> HIDE DEF r
  <1>7. /\ ValueOf(r) \in Values
        /\ stack' = IF r.kind = "for" \/ (r.kind \in Leaving /\ r.jump = "return")
                    THEN Append(stack, ValueOf(r)) ELSE stack
    <2>1. kind = "for" => ValueOf(r) = Value("iterator", NewId)
      BY <1>5 DEF ValueOf
    <2>2. kind /= "for" => ValueOf(r) = Value("result", 0)
      BY <1>5 DEF ValueOf, Guarding, Protected
    <2>3. Value("iterator", NewId) \in Values /\ Value("result", 0) \in Values
      BY <1>5 DEF Value, Values
    <2> QED BY <1>4, <1>5, <2>1, <2>2, <2>3
  <1>8. PICK st : st = stack'
    OBVIOUS
  <1>9. PICK g \in Seq(Nat) : Valued(w, st, g) /\ Framed(w, blocks, current, g, p)
    BY <1>2, <1>3, <1>5, <1>6, <1>7, <1>8, PlainRegion
  <1>10. Shaped(w, Len(owed) + 1)
    BY <1>1, <1>2, <1>5, ShapedNew DEF r
  <1>11. Accounted(w, c) /\ Len(c) = Len(owed) + 1
    <2>1. \A j \in Opened(where, CL) : j \in 1 .. Len(where)
      BY <1>2, OpenedIn
    <2>2. \A j \in Opened(where, CL) : w[j] = where[j]
      BY <1>2, <1>5, <2>1
    <2>3. kind \notin CL /\ kind \notin HasCleanup
      BY DEF Loops, HasCleanup
    <2>4. Opened(w, CL) = Opened(where, CL)
      <3>1. \A K : Opened(w, K) = Opened(where, K) \cup (IF kind \in K THEN {Len(where) + 1} ELSE {})
        BY <1>2, <1>5, <1>6, OpenedPush
      <3> HIDE DEF w, CL
      <3> QED BY <2>3, <3>1
    <2>5. Cleanups(w) = Cleanups(where) \cup (IF kind \in HasCleanup THEN {Len(owed) + 1} ELSE {})
      BY <2>2, <2>3, <2>4 DEF Cleanups
    <2>6. Accounted(where, owed) /\ Shaped(where, Len(owed))
      BY <1>2
    <2> HIDE DEF w, CL
    <2>7. Accounted(w, Append(owed, Debt(kind)))
      BY ONLY <2>5, <2>6, AccountedNew
    <2>8. Len(Append(owed, Debt(kind))) = Len(owed) + 1
      BY ONLY <2>5, <2>6, AccountedNew
    <2> QED BY <2>7, <2>8
  <1>12. IInv'
    <2> HIDE DEF w, c
    <2> QED BY <1>1, <1>3, <1>4, <1>8, <1>9, <1>10, <1>11, GoesOn
  <1>13. Control!Enter(kind)
    <2>1. Control!Here
      BY <1>1, SameRegions DEF Here, Control!Here
    <2>2. Control!Goto(Append(where, Control!Region(kind, Len(owed) + 1, None)))
      BY <1>4, <1>5, SameRegions DEF Control!Goto, r
    <2>3. owed' = Append(owed, Control!Debt(kind))
      BY <1>4, SameRegions
    <2> QED BY <2>1, <2>2, <2>3 DEF Control!Enter, EnterLoop, CanOpen
  <1> QED BY <1>12, <1>13

\* The shape of a jump that begins.
LEMMA JumpShaped ==
  ASSUME IInv, Odd = {}, NEW jump \in JumpKinds, Jump(jump)
  PROVE  Shaped(Append(where, JumpRegion(jump, Len(where) + 1)), Len(owed))
  <1> DEFINE n == Len(where) + 1
             r == JumpRegion(jump, n)
             v == Append(where, r)
  <1>1. Here /\ ~Abandoned(where) /\ \A k \in 1 .. Len(where) : where[k].kind \notin Brief
    BY AtHere DEF Jump
  <1>2. where \in Seq(Regions) /\ Len(where) \in Nat /\ Len(owed) \in Nat /\ Shaped(where, Len(owed))
    BY <1>1, Standing DEF IInv
  <1>3. /\ r \in Regions /\ r.kind = "jump" /\ r.at = n /\ r.jump = jump /\ n \in Nat
    BY <1>2 DEF JumpRegion, Regions, Kinds, Leaving
  <1> HIDE DEF r
  <1>4. v \in Seq(Regions) /\ Len(v) = n /\ v[n] = r /\ \A k \in 1 .. Len(where) : v[k] = where[k]
    BY <1>2, <1>3
  <1> HIDE DEF v
  <1>5. ASSUME NEW i \in 1 .. (n - 1)
        PROVE  /\ i \in 1 .. Len(where) /\ v[i] = where[i]
               /\ Held(v, i, n) <=> Held(where, i, Len(where))
    <2>1. i \in 1 .. Len(where) /\ v[i] = where[i]
      BY <1>2, <1>4
    <2>2. \A m \in (i + 1) .. n : m \in (i + 1) .. Len(where) \/ m = n
      BY <1>2
    <2>3. \A m \in (i + 1) .. Len(where) : m \in (i + 1) .. n /\ m \in 1 .. Len(where)
      BY <1>2
    <2>4. v[n].at > i
      BY <1>2, <1>3, <1>4
    <2> QED BY <1>4, <2>1, <2>2, <2>3, <2>4 DEF Held
  <1>6. ShapesOf(jump) = {}
    BY DEF Jump
  <1> DEFINE target == IF jump = "return" THEN 0 ELSE LastOr0(Opened(where, Loops))
             tries == {k \in Opened(where, {"try"}) : k > target}
             outer == {k \in Opened(where, HasCleanup) : \E i \in tries : k < i}
  <1>7. /\ ~(tries /= {} /\ (jump = "return" => outer /= {}))
        /\ ~(jump /= "return" /\ PendingReturns(SubSeq(where, 1, target)) > 0)
        /\ ~(jump /= "return" /\ target /= Loop)
    <2> HIDE DEF tries, outer, target
    <2>1. \A s \in Shapes : ~(\/ s = "leaves_try" /\ tries /= {} /\ (jump = "return" => outer /= {})
                              \/ s = "loop_in_cleanup" /\ jump /= "return"
                                   /\ PendingReturns(SubSeq(where, 1, target)) > 0
                              \/ s = "hidden_loop" /\ jump /= "return" /\ target /= Loop)
      BY <1>6 DEF ShapesOf, tries, outer, target
    <2>2. "leaves_try" \in Shapes /\ "loop_in_cleanup" \in Shapes /\ "hidden_loop" \in Shapes
      BY DEF Shapes
    <2> QED BY <2>1, <2>2
  <1>8. \A K : Opened(where, K) = {k \in 1 .. Len(where) : where[k].kind \in K /\ Held(where, k, Len(where))}
    BY <1>2, OpenedHeld
  <1>12. v[n].at \in 1 .. n /\ v[n].jump \in JumpKinds /\ v[n].jump = jump
    BY <1>2, <1>3, <1>4
  <1>11. ASSUME JumpFits(v, n)
         PROVE  Shaped(v, Len(owed))
    <2>1. RegionFits(v, n, Len(owed))
      BY <1>3, <1>4, <1>11 DEF RegionFits, Leaving, Protected, Handling
    <2>2. SubSeq(where, 1, Len(where)) = where /\ Len(where) \in 0 .. Len(where)
      BY <1>2
    <2>3. Shaped(Append(SubSeq(where, 1, Len(where)), r), Len(owed))
      <3> HIDE DEF n
      <3>1. RegionFits(Append(SubSeq(where, 1, Len(where)), r), Len(where) + 1, Len(owed))
        BY <2>1, <2>2 DEF v, n
      <3> QED BY <1>1, <1>2, <1>3, <2>2, <3>1, ShapedPut
    <2> QED BY <2>2, <2>3 DEF v
  <1>9. CASE jump = "return"
    <2>1. CrossesNoTry(v, n)
      <3> SUFFICES ASSUME NEW i \in 1 .. (n - 1), NEW k \in 1 .. (n - 1),
                          v[i].kind = "try", Held(v, i, n), v[k].kind \in HasCleanup, Held(v, k, n)
                   PROVE  i < k
        BY DEF CrossesNoTry
      <3>1. i \in Opened(where, {"try"}) /\ k \in Opened(where, HasCleanup)
        BY <1>5, <1>8
      <3>2. i \in tries
        BY <1>9, <3>1, <1>5
      <3>3. outer = {}
        BY <1>7, <1>9, <3>2
      <3>4. ~(k < i)
        BY <3>1, <3>2, <3>3
      <3>5. k /= i
        BY DEF HasCleanup
      <3> QED BY <3>4, <3>5
    <2>2. JumpFits(v, n)
      <3>1. v[n].jump = "return"
        BY <1>9, <1>12
      <3> HIDE DEF n, v
      <3> QED BY ONLY <1>12, <2>1, <3>1 DEF JumpFits
    <2> QED BY <1>11, <2>2 DEF v, r
  <1>10. CASE jump /= "return"
    <2>1. Opened(where, Loops) /= {}
      BY <1>10 DEF Jump
    <2>2. target \in Opened(where, Loops) /\ target = LastOr0(Opened(where, Loops))
      BY <1>2, <1>10, <2>1, Greatest, OpenedIn
    <2>3. target = Loop
      BY <1>7, <1>10
    <2>4. target \in 1 .. (n - 1) /\ where[target].kind \in Loops /\ Held(where, target, Len(where))
      BY <1>2, <1>8, <2>2
    <2> HIDE DEF target
    <2>5. LoopOf(v, n, target)
      <3>1. v[target].kind \in Loops /\ Held(v, target, n)
        BY <1>5, <2>4
      <3>2. \A i \in (target + 1) .. n : v[i].kind \notin Loops
        <4> SUFFICES ASSUME NEW i \in (target + 1) .. n, v[i].kind \in Loops PROVE FALSE
          OBVIOUS
        <4>1. i /= n
          BY <1>3, <1>4 DEF Loops
        <4>2. i \in 1 .. (n - 1)
          BY <1>3, <2>4, <4>1
        <4>3. i \in LoopsOf(where) /\ LoopsOf(where) \subseteq 1 .. Len(where)
          BY <1>2, <1>5, <4>2 DEF LoopsOf
        <4>4. i <= Loop
          BY <1>2, <4>3, Greatest DEF Loop
        <4> QED BY <2>3, <2>4, <4>4
      <3>3. \A i \in (target + 1) .. n : ~(v[i].kind = "try" /\ Held(v, i, n))
        <4> SUFFICES ASSUME NEW i \in (target + 1) .. n, v[i].kind = "try", Held(v, i, n) PROVE FALSE
          OBVIOUS
        <4>1. i /= n
          BY <1>3, <1>4
        <4>2. i \in 1 .. (n - 1) /\ i > target
          BY <1>3, <2>4, <4>1
        <4>3. i \in Opened(where, {"try"})
          BY <1>5, <1>8, <4>2
        <4>4. i \in tries
          BY <4>2, <4>3
        <4> QED BY <1>7, <1>10, <4>4
      <3>4. \A i \in 1 .. target : ~(v[i].kind = "leave" /\ v[i].jump = "return")
        <4> SUFFICES ASSUME NEW i \in 1 .. target, v[i].kind = "leave", v[i].jump = "return" PROVE FALSE
          OBVIOUS
        <4> DEFINE low == SubSeq(where, 1, target)
                   P == {k \in DOMAIN low : low[k].kind = "leave" /\ low[k].jump = "return"}
        <4>1. target \in 0 .. Len(where) /\ target \in Nat /\ i \in 1 .. (n - 1) /\ v[i] = where[i]
          BY <1>2, <1>4, <2>4
        <4>2. DOMAIN low = 1 .. target /\ low[i] = where[i]
          BY <1>2, <4>1
        <4>3. i \in P /\ P \subseteq 1 .. target
          BY <4>1, <4>2
        <4>7. PendingReturns(low) = Cardinality(P)
          BY DEF PendingReturns
        <4> HIDE DEF P, low
        <4>8. 1 \in Int /\ target \in Int
          BY <4>1
        <4>9. IsFiniteSet(1 .. target)
          BY ONLY <4>8, FS_Interval
        <4>4. IsFiniteSet(P)
          BY <4>3, <4>9, FS_Subset
        <4>5. Cardinality(P) \in Nat /\ Cardinality(P) /= 0
          BY <4>3, <4>4, FS_CardinalityType, FS_EmptySet
        <4>6. PendingReturns(low) > 0
          BY <4>5, <4>7
        <4> QED BY <1>7, <1>10, <4>6 DEF low
      <3>5. target \in 1 .. (n - 1)
        BY <2>4
      <3> QED BY <3>1, <3>2, <3>3, <3>4, <3>5 DEF LoopOf
    <2>6. target \in 1 .. n
      BY <1>3, <2>4
    <2>7. JumpFits(v, n)
      <3>1. v[n].jump /= "return"
        BY <1>10, <1>12
      <3>2. \E t \in 1 .. n : LoopOf(v, n, t)
        BY <2>5, <2>6
      <3> HIDE DEF n, v
      <3> QED BY ONLY <1>12, <3>1, <3>2 DEF JumpFits
    <2> QED BY <1>11, <2>7 DEF v, r
  <1> QED BY <1>9, <1>10 DEF v, r, n

\* A jump begins.
LEMMA JumpKeeps ==
  ASSUME IInv, Odd = {}, NEW jump \in JumpKinds, Jump(jump)
  PROVE  IInv' /\ Control!Jump(jump)
  <1> DEFINE r == JumpRegion(jump, Len(where) + 1)
             w == Append(where, r)
             CL == HasCleanup \cup {"exiting"}
  <1>1. Here /\ ended = Running /\ ~Abandoned(where)
    BY AtHere DEF Jump
  <1>2. where \in Seq(Regions) /\ Len(where) \in Nat /\ Len(owed) \in Nat
        /\ Accounted(where, owed) /\ blocks \in Seq(BlockSet)
    BY <1>1, Standing DEF IInv
  <1>3. PICK f \in Seq(Nat), p \in Nat : Valued(where, stack, f) /\ Framed(where, blocks, current, f, p)
    BY <1>1, Standing
  <1>4. /\ where' = w /\ ended' = ended /\ blocks' = blocks /\ current' = current /\ owed' = owed
        /\ stack' = IF jump = "return" THEN Append(stack, Value("result", 0)) ELSE stack
    BY DEF Jump, Goto
  <1>5. /\ r \in Regions /\ r.kind = "jump" /\ r.at = Len(where) + 1 /\ r.jump = jump
        /\ r.kind \notin Guarding \cup Handling
    BY <1>2 DEF JumpRegion, Regions, Kinds, Leaving, Guarding, Protected, Handling
  <1>6. Fresh(where, r)
    BY <1>5 DEF Fresh
  <1>7. Shaped(w, Len(owed))
    BY JumpShaped
  <1> HIDE DEF r
  <1>8. /\ ValueOf(r) \in Values
        /\ stack' = IF r.kind = "for" \/ (r.kind \in Leaving /\ r.jump = "return")
                    THEN Append(stack, ValueOf(r)) ELSE stack
    <2>1. ValueOf(r) = Value("result", 0)
      BY <1>5 DEF ValueOf
    <2>2. Value("result", 0) \in Values
      BY DEF Value, Values
    <2>3. r.kind \in Leaving /\ r.kind /= "for"
      BY <1>5 DEF Leaving
    <2> QED BY <1>4, <1>5, <2>1, <2>2, <2>3
  <1>9. PICK st : st = stack'
    OBVIOUS
  <1>10. PICK g \in Seq(Nat) : Valued(w, st, g) /\ Framed(w, blocks, current, g, p)
    BY <1>2, <1>3, <1>5, <1>6, <1>8, <1>9, PlainRegion
  <1>11. Accounted(w, owed)
    <2>1. \A j \in Opened(where, CL) : j \in 1 .. Len(where)
      BY <1>2, OpenedIn
    <2>2. \A j \in Opened(where, CL) : w[j].id = where[j].id
      BY <1>2, <1>5, <2>1
    <2>3. Opened(w, CL) = Opened(where, CL)
      <3>1. \A K : Opened(w, K) = Opened(where, K) \cup (IF r.kind \in K THEN {Len(where) + 1} ELSE {})
        BY <1>2, <1>6, OpenedPush
      <3>2. r.kind \notin CL
        BY <1>5 DEF HasCleanup
      <3> HIDE DEF w, CL
      <3> QED BY <3>1, <3>2
    <2>4. Cleanups(w) = Cleanups(where)
      BY <2>2, <2>3, CleanupsSame
    <2> QED BY <1>2, <2>4, AccountedSame
  <1>12. IInv'
    <2> HIDE DEF w
    <2> QED BY <1>1, <1>3, <1>4, <1>7, <1>9, <1>10, <1>11, GoesOn
  <1>13. Control!Jump(jump)
    <2>1. Control!Here
      BY <1>1, SameRegions DEF Here, Control!Here
    <2>2. Control!Goto(Append(where, Control!JumpRegion(jump, Len(where) + 1)))
      BY <1>4, SameRegions DEF Control!Goto, r
    <2>3. jump /= "return" => Control!Opened(where, Control!Loops) /= {}
      BY SameRegions DEF Jump
    <2>4. Len(where) < MaxDepth /\ UNCHANGED owed
      BY DEF Jump
    <2> QED BY <2>1, <2>2, <2>3, <2>4 DEF Control!Jump
  <1> QED BY <1>12, <1>13

\* The exception that is current is the one that the innermost running handler handles.
LEMMA CurrentHandled ==
  ASSUME IInv, ~Abandoned(where)
  PROVE  /\ current = Control!Handled
         /\ current = Outer(where, Len(where) + 1)
         /\ current \in Raisable \cup {None}
  <1>1. where \in Seq(Regions) /\ Len(where) \in Nat
    BY Standing
  <1>2. current = Outer(where, Len(where) + 1)
    BY Standing DEF Framed
  <1>3. {j \in Opened(where, Handling) : j < Len(where) + 1} = Opened(where, Handling)
    BY <1>1, OpenedIn
  <1>4. Control!Handled = Outer(where, Len(where) + 1)
    BY <1>3, SameRegions DEF Control!Handled, Outer
  <1>5. current \in Raisable \cup {None}
    BY DEF IInv
  <1> QED BY <1>2, <1>4, <1>5

\* A statement raises.
LEMMA RaiseKeeps ==
  ASSUME IInv, Raise
  PROVE  IInv' /\ Control!Raise
  <1>1. Here /\ ended = Running /\ ~Abandoned(where) /\ \A k \in 1 .. Len(where) : where[k].kind \notin Brief
    BY AtHere DEF Raise
  <1>2. PICK f \in Seq(Nat), p \in Nat : Valued(where, stack, f) /\ Framed(where, blocks, current, f, p)
    BY <1>1, Standing
  <1>3. current = Control!Handled /\ current \in Raisable \cup {None}
    BY <1>1, CurrentHandled
  <1>4. ASSUME NEW e \in Raisable, Throw(e, blocks, stack, current, owed)
        PROVE  IInv' /\ Control!Throw(e, where, owed)
    <2>1. Shaped(where, Len(owed)) /\ Accounted(where, owed)
      BY DEF IInv
    <2>2. \A k \in 1 .. Len(where) : where[k].kind /= "exiting"
      BY <1>1 DEF Brief
    <2> QED BY <1>1, <1>2, <1>4, <2>1, <2>2, ThrowKeeps
  <1>5. Control!Here
    BY <1>1, SameRegions DEF Here, Control!Here
  <1>6. CASE \E e \in Exceptions : Throw(e, blocks, stack, current, owed)
    <2>1. PICK e \in Exceptions : Throw(e, blocks, stack, current, owed)
      BY <1>6
    <2>2. e \in Raisable
      BY DEF Raisable
    <2>3. IInv' /\ Control!Throw(e, where, owed)
      BY <1>4, <2>1, <2>2
    <2> QED BY <1>5, <2>3 DEF Control!Raise
  <1>7. CASE Throw(IF current = None THEN NoActive ELSE current, blocks, stack, current, owed)
    <2> DEFINE e == IF current = None THEN NoActive ELSE current
    <2>1. e \in Raisable
      BY <1>3 DEF Raisable
    <2>2. Throw(e, blocks, stack, current, owed)
      BY <1>7
    <2>3. e = IF Control!Handled = None THEN NoActive ELSE Control!Handled
      BY <1>3
    <2> HIDE DEF e
    <2>4. IInv' /\ Control!Throw(e, where, owed)
      BY <1>4, <2>1, <2>2
    <2> QED BY <1>5, <2>3, <2>4 DEF Control!Raise
  <1> QED BY <1>6, <1>7 DEF Raise

\* The innermost region handles an exception: it is the current one.
LEMMA HandlingNow ==
  ASSUME NEW w, NEW n \in Nat, Shaped(w, n), w /= <<>>, Last(w).kind \in Handling
  PROVE  /\ Outer(w, Len(w) + 1) = Last(w).exc
         /\ Last(w).exc \in Raisable
         /\ Last(w).kind \notin Leaving
  <1>1. w \in Seq(Regions) /\ Len(w) \in Nat /\ Len(w) \in 1 .. Len(w) /\ Last(w) = w[Len(w)]
    BY DEF Shaped, Last
  <1>2. Last(w).kind \notin Leaving
    BY DEF Handling, Leaving
  <1>3. Last(w).exc /= None
    BY <1>1 DEF Shaped, RegionFits
  <1>4. Last(w).exc \in Raisable \cup {None}
    BY <1>1, RegionTypes
  <1>5. Len(w) \in Opened(w, Handling) /\ Opened(w, Handling) \subseteq 1 .. Len(w)
    BY <1>1, <1>2, OpenedIn, CutLast
  <1>6. {j \in Opened(w, Handling) : j < Len(w) + 1} = Opened(w, Handling)
    BY <1>1, <1>5
  <1>7. LastOr0(Opened(w, Handling)) = Len(w)
    BY <1>1, <1>5, GreatestIs
  <1>8. Len(w) /= 0
    BY <1>1
  <1> QED BY <1>1, <1>2, <1>3, <1>4, <1>6, <1>7, <1>8 DEF Outer

\* No region but the innermost lasts for a step only.
LEMMA FrontNotBrief ==
  ASSUME NEW w, NEW n \in Nat, Shaped(w, n), w /= <<>>
  PROVE  \A k \in 1 .. Len(Front(w)) : Front(w)[k].kind \notin Brief
  <1>1. w \in Seq(Regions) /\ Len(w) \in Nat /\ Len(w) \in 1 .. Len(w)
    BY DEF Shaped
  <1>4. Front(w) = SubSeq(w, 1, Len(w) - 1)
    BY DEF Front
  <1>2. Len(Front(w)) = Len(w) - 1 /\ \A k \in 1 .. (Len(w) - 1) : Front(w)[k] = w[k]
    <2>1. \A t \in 0 .. Len(w) : Len(SubSeq(w, 1, t)) = t /\ \A k \in 1 .. t : SubSeq(w, 1, t)[k] = w[k]
      BY <1>1
    <2>2. Len(w) - 1 \in 0 .. Len(w)
      BY <1>1
    <2> QED BY <1>4, <2>1, <2>2
  <1>3. \A k \in 1 .. (Len(w) - 1) : w[k].kind \notin Brief
    BY <1>1 DEF Shaped
  <1> QED BY <1>1, <1>2, <1>3

\* A try or a finally body that handles an exception ends without taking it.
LEMMA ReRaiseKeeps ==
  ASSUME IInv, ended = Running, where /= <<>>, Last(where).kind \in {"clauses", "cleanup"},
         ReRaise(Front(where), blocks, stack, current, owed)
  PROVE  IInv' /\ Control!Throw(Last(where).exc, Front(where), owed)
  <1> DEFINE q == IF Last(where).kind \in {"final", "while"} THEN Len(blocks) ELSE Len(blocks) - 1
             u == Front(where)
  <1>1. ~Abandoned(where)
    BY DEF Abandoned
  <1>2. where \in Seq(Regions) /\ Shaped(where, Len(owed)) /\ Accounted(where, owed) /\ Len(owed) \in Nat
        /\ blocks \in Seq(BlockSet) /\ Len(where) \in Nat
    BY <1>1, Standing DEF IInv
  <1>3. PICK f \in Seq(Nat), p \in Nat : Valued(where, stack, f) /\ Framed(where, blocks, current, f, p)
    BY <1>1, Standing
  <1>4. Last(where).kind \in Handling
    BY DEF Handling
  <1>5. Outer(where, Len(where) + 1) = Last(where).exc /\ Last(where).exc \in Raisable
        /\ Last(where).kind \notin Leaving
    BY <1>2, <1>4, HandlingNow
  <1>6. current = Last(where).exc /\ current /= None
    BY <1>1, <1>5, CurrentHandled, NoneIsNoException DEF Raisable
  <1>7. /\ Shaped(u, Len(owed)) /\ Accounted(u, owed) /\ Valued(u, stack, f)
        /\ \E p1 \in Nat : Framed(u, SubSeq(blocks, 1, q), Outer(where, Len(where)), f, p1)
    BY <1>2, <1>3, Left
  <1>8. HandlerOnTop(blocks) /\ Last(blocks).saved = Outer(where, Len(where)) /\ Front(blocks) = SubSeq(blocks, 1, q)
    <2>1. q = Len(blocks) - 1
      BY <1>4 DEF Handling
    <2>2. /\ where \in Seq(Regions) /\ where /= <<>> /\ Framed(where, blocks, current, f, p)
          /\ Last(where).kind \in Handling \ {"exiting"}
      BY <1>2, <1>3, <1>4
    <2> HIDE DEF q
    <2>3. HandlerFreed(where, blocks, q)
      BY ONLY <2>1, <2>2, f \in Seq(Nat), p \in Nat, LeaveHandler
    <2> QED BY <2>3 DEF HandlerFreed
  <1>9. PICK p1 \in Nat : Framed(u, SubSeq(blocks, 1, q), Outer(where, Len(where)), f, p1)
    BY <1>7
  <1>10. Throw(Last(where).exc, SubSeq(blocks, 1, q), stack, Outer(where, Len(where)), owed)
    BY <1>6, <1>8 DEF ReRaise, WithoutHandler, Restored
  <1>11. \A k \in 1 .. Len(u) : u[k].kind /= "exiting"
    BY <1>2, FrontNotBrief DEF Brief
  <1> HIDE DEF u, q
  <1>12. IInv' /\ Control!Throw(Last(where).exc, u, owed)
    BY <1>5, <1>7, <1>9, <1>10, <1>11, ThrowKeeps
  <1> QED BY <1>12 DEF u

\* The body that a finally guards ends.
LEMMA GuardEndsKeeps ==
  ASSUME IInv, ended = Running, where /= <<>>, GuardEnds
  PROVE  IInv'
  <1> DEFINE u == Front(where)
             r == [Last(where) EXCEPT !.kind = "final"]
             w == Append(u, r)
             n == Len(where)
             CL == HasCleanup \cup {"exiting"}
             bl == SubSeq(blocks, 1, Len(blocks) - 1)
  <1>1. ~Abandoned(where) /\ Last(where).kind = "guard"
    BY DEF Abandoned, GuardEnds
  <1>2. where \in Seq(Regions) /\ Shaped(where, Len(owed)) /\ Accounted(where, owed) /\ Len(owed) \in Nat
        /\ blocks \in Seq(BlockSet) /\ n \in Nat
    BY <1>1, Standing DEF IInv
  <1>3. PICK f \in Seq(Nat), p \in Nat : Valued(where, stack, f) /\ Framed(where, blocks, current, f, p)
    BY <1>1, Standing
  <1>4. Last(where).kind \notin Leaving \cup {"with", "exiting"}
    BY <1>1 DEF Leaving
  <1>5. /\ n \in 1 .. n /\ Last(where) = where[n] /\ u = SubSeq(where, 1, n - 1)
        /\ u \in Seq(Regions) /\ Len(u) = n - 1
        /\ \A j \in 1 .. (n - 1) : u[j] = where[j]
        /\ \A K : Opened(u, K) = {j \in Opened(where, K) : j < n}
        /\ \A K : Last(where).kind \in K => n \in Opened(where, K)
        /\ Holding(u) = {j \in Holding(where) : j < n}
    BY <1>2, <1>4, CutLast
  <1>6. where' = w /\ ended' = ended /\ blocks' = PopFrom(blocks) /\ stack' = stack
        /\ current' = current /\ owed' = Paid(owed, where[n].id)
    BY <1>5 DEF GuardEnds, Goto, Set, Become
  <1>7. /\ \E p1 \in Nat : Framed(u, bl, Outer(where, n), f, p1)
        /\ current = Outer(where, n)
        /\ PopFrom(blocks) = bl
    <2> DEFINE q == IF Last(where).kind \in {"final", "while", "for"} THEN Len(blocks) ELSE Len(blocks) - 1
    <2>1. q = Len(blocks) - 1
      BY <1>1
    <2>2. SameBelow(f, f, n) /\ Last(where).kind \notin Handling
      BY <1>1, SameBelowSame DEF Handling
    <2> HIDE DEF q
    <2>3. q = IF Last(where).kind \in {"final", "while", "for"} THEN Len(blocks) ELSE Len(blocks) - 1
      BY DEF q
    <2> HIDE DEF u, bl
    <2>4. \E p1 \in Nat : Framed(Front(where), SubSeq(blocks, 1, q), Outer(where, n), f, p1)
      BY <1>2, <1>3, <1>4, <2>2, <2>3, LeaveFramed
    <2>6. current = Outer(where, n)
      BY <1>2, <1>3, <1>4, <2>2, <2>3, LeaveFramed
    <2>7. PopFrom(blocks) = SubSeq(blocks, 1, q)
      <3>1. q \in 0 .. Len(blocks)
        BY <1>2, <1>3, <1>4, <2>2, <2>3, LeaveFramed
      <3>2. blocks /= <<>>
        BY <1>2, <2>1, <3>1
      <3> QED BY <2>1, <3>2 DEF PopFrom, Front
    <2>5. bl = SubSeq(blocks, 1, q) /\ u = Front(where)
      BY <2>1 DEF bl, u
    <2> QED BY <2>4, <2>5, <2>6, <2>7
  <1>8. PICK p1 \in Nat : Framed(u, bl, current, f, p1)
    BY <1>7
  <1>9. Valued(u, stack, f)
    <2>1. where[n].kind \notin {"for", "with", "exiting"} \cup Leaving
      BY <1>1, <1>5 DEF Leaving
    <2>2. \A j \in Holding(where) : j \in 1 .. n /\ j /= n
      BY <1>2, <2>1 DEF Holding
    <2>5. \A j \in Holding(where) : j < n /\ j \in 1 .. (n - 1)
      BY <1>2, <2>2
    <2>3. Holding(u) = Holding(where)
      BY <1>5, <2>5
    <2>4. \A j \in Holding(where) : u[j] = where[j]
      BY <1>5, <2>5
    <2> QED BY <1>3, <2>3, <2>4, ValuedSame
  <1>10. /\ r \in Regions /\ r.kind = "final" /\ r.id = where[n].id
         /\ r.kind \notin Guarding \cup Handling \cup Leaving
    <2>1. where[n] \in Regions
      BY <1>2, <1>5
    <2> QED BY <1>5, <2>1 DEF Regions, Kinds, Guarding, Protected, Handling, Leaving
  <1>11. Fresh(u, r) /\ ValueOf(r) \in Values
    BY <1>10 DEF Fresh, ValueOf, Value, Values
  <1> HIDE DEF r, u, bl
  <1>12. PICK g \in Seq(Nat) : Valued(w, stack, g) /\ Framed(w, bl, current, g, p1)
    BY <1>5, <1>8, <1>9, <1>10, <1>11, PlainRegion
  <1>13. Shaped(w, Len(owed))
    <2>1. where[n].kind \notin Leaving /\ r.kind \notin Leaving \cup Protected
      BY <1>4, <1>5, <1>10 DEF Guarding
    <2> HIDE DEF n
    <2>2. Shaped(Append(SubSeq(where, 1, n - 1), r), Len(owed))
      BY <1>2, <1>5, <1>10, <2>1, ShapedTurn DEF n
    <2> QED BY <1>5, <2>2
  <1>14. Accounted(w, Paid(owed, where[n].id)) /\ Len(Paid(owed, where[n].id)) = Len(owed)
    <2>1. \A j \in Opened(where, CL) : j \in 1 .. n
      BY <1>2, OpenedIn
    <2>2. n \in Opened(where, CL)
      BY <1>1, <1>5 DEF HasCleanup
    <2>3. Opened(w, CL) = {j \in Opened(where, CL) : j < n}
      <3>3. u \in Seq(Regions) /\ Fresh(u, r) /\ w = Append(u, r)
        BY <1>5, <1>11
      <3>1. Opened(Append(u, r), CL) = Opened(u, CL) \cup (IF r.kind \in CL THEN {Len(u) + 1} ELSE {})
        BY ONLY <3>3, OpenedPush
      <3>2. r.kind \notin CL
        BY <1>10 DEF HasCleanup
      <3> HIDE DEF w, CL, n
      <3> QED BY <1>5, <3>1, <3>2, <3>3
    <2>7. \A j \in 1 .. (n - 1) : w[j] = where[j]
      BY <1>5, <1>10
    <2>4. \A j \in Opened(w, CL) : w[j].id = where[j].id
      <3>1. \A j \in Opened(where, CL) : j < n => j \in 1 .. (n - 1)
        BY <1>2, <2>1
      <3> HIDE DEF w, CL
      <3> QED BY <2>3, <2>7, <3>1
    <2>5. \A j \in Opened(where, CL) : j <= n
      BY <2>1
    <2> HIDE DEF w, CL, n
    <2>6. n \in Opened(where, HasCleanup \cup {"exiting"})
          /\ Opened(w, HasCleanup \cup {"exiting"}) = {j \in Opened(where, HasCleanup \cup {"exiting"}) : j < n}
          /\ (\A j \in Opened(where, HasCleanup \cup {"exiting"}) : j <= n)
          /\ (\A j \in Opened(w, HasCleanup \cup {"exiting"}) : w[j].id = where[j].id)
      BY <2>2, <2>3, <2>4, <2>5 DEF CL
    <2>8. Shaped(where, Len(owed)) /\ Accounted(where, owed) /\ where \in Seq(Regions)
      BY <1>2
    <2>9. Accounted(w, Paid(owed, where[n].id))
      BY ONLY <2>6, <2>8, PaidCut
    <2>10. Len(Paid(owed, where[n].id)) = Len(owed)
      BY <2>8 DEF Accounted, Paid
    <2> QED BY <2>9, <2>10
  <1> HIDE DEF w, n
  <1> QED BY <1>3, <1>6, <1>7, <1>12, <1>13, <1>14, GoesOn

\* The manager's exit of the innermost with runs, and control goes on to v, where that with is left.
LEMMA ExitKeeps ==
  ASSUME IInv, ~Abandoned(where), ended = Running, NEW k \in Opened(where, {"with"}),
         \A j \in Opened(where, Guarding) \cup Opened(where, Handling) : j <= k,
         \A j \in 1 .. (k - 1) : where[j].kind /= "exiting",
         NEW v, Below(where, v, k), Shaped(v, Len(owed)),
         Holding(v) = Holding(where) \ {k},
         \A j \in Holding(v) : ValueOf(v[j]) = ValueOf(where[j]),
         \A j \in 1 .. Len(v) : v[j].kind /= "exiting",
         Opened(v, HasCleanup \cup {"exiting"}) = {j \in Opened(where, HasCleanup \cup {"exiting"}) : j < k},
         ExitWith(v)
  PROVE  /\ IInv'
         /\ \/ Control!Goto(v) /\ owed' = Control!Paid(owed, where[k].id)
            \/ \E e \in Exceptions : Control!Throw(e, v, Control!Paid(owed, where[k].id))
  <1> DEFINE q == LastWithOf(blocks)
             s == blocks[q].depth
             c == Paid(owed, where[k].id)
             CL == HasCleanup \cup {"exiting"}
  <1>1. where \in Seq(Regions) /\ Shaped(where, Len(owed)) /\ Accounted(where, owed) /\ Len(owed) \in Nat
        /\ blocks \in Seq(BlockSet) /\ Len(where) \in Nat /\ v \in Seq(Regions) /\ k \in 1 .. Len(where) /\ k \in Nat
    BY Standing DEF IInv, Shaped, Opened
  <1>2. PICK f \in Seq(Nat), p \in Nat : Valued(where, stack, f) /\ Framed(where, blocks, current, f, p)
    BY Standing
  <1>3. q \in 1 .. Len(blocks) /\ Len(blocks) \in Nat /\ blocks[q].kind = "With" /\ At(blocks[q]) = k
    <2>1. q = LastWithOf(blocks)
      OBVIOUS
    <2>2. /\ where \in Seq(Regions) /\ p \in Nat /\ Framed(where, blocks, current, f, p)
          /\ k \in Opened(where, {"with"})
          /\ \A j \in Opened(where, Guarding) \cup Opened(where, Handling) : j <= k
      BY <1>1, <1>2
    <2> HIDE DEF q
    <2>3. q \in 1 .. Len(blocks) /\ Len(blocks) \in Nat
      BY ONLY <2>1, <2>2, WithBlock
    <2>4. blocks[q].kind = "With" /\ At(blocks[q]) = k
      BY ONLY <2>1, <2>2, WithBlock
    <2> QED BY <2>3, <2>4
  <1>4. blocks[q] \in BlockSet /\ Guards(where, blocks[q], f)
    BY <1>1, <1>2, <1>3 DEF Framed
  <1>5. s \in 1 .. Len(f) /\ f[s] = k /\ stack[s] = Value("exit", where[k].id)
    <2> HIDE DEF q
    <2> QED BY <1>1, <1>2, <1>3, <1>4, ExitValue
  <1>6. Len(f) = Len(stack) /\ Len(f) \in Nat
    BY <1>2 DEF Valued
  <1>7. /\ LastWith = q /\ LastWith /= 0 /\ ExitSlot = s /\ ~(ExitSlot > Len(stack)) /\ IsExit
        /\ ExitPaid = c /\ StackWithoutExit = RemoveAt(stack, s) /\ BlocksWithoutWith = RemoveAt(blocks, q)
    <2>1. LastWith = q
      BY DEF LastWith, LastWithOf
    <2>2. ExitSlot = s
      BY <2>1 DEF ExitSlot
    <2>3. IsExit /\ stack[ExitSlot].id = where[k].id
      BY <1>5, <2>2 DEF IsExit, Value
    <2> HIDE DEF q
    <2> QED BY <1>3, <1>5, <1>6, <2>1, <2>2, <2>3 DEF ExitPaid, StackWithoutExit, BlocksWithoutWith
  <1> DEFINE g == RemoveAt(f, s)
             bl == RemoveAt(blocks, q)
             st == RemoveAt(stack, s)
  <1>8. Valued(v, st, g) /\ SameBelow(f, g, k) /\ g \in Seq(Nat)
    <2> HIDE DEF s
    <2> QED BY <1>2, <1>5, ValuedRemove
  <1>9. PICK p1 \in Nat : Framed(v, bl, current, g, p1)
    <2> HIDE DEF g, q
    <2> QED BY <1>1, <1>2, <1>8, DropWith DEF q
  <1>10. Accounted(v, c) /\ Len(c) = Len(owed)
    <2>1. \A K : Opened(where, K) = {j \in 1 .. Len(where) : where[j].kind \in K /\ Held(where, j, Len(where))}
      BY <1>1, OpenedHeld
    <2>2. k \in Opened(where, CL)
      BY <2>1 DEF HasCleanup
    <2>3. \A j \in Opened(where, CL) : j \in Opened(where, Guarding)
      BY <2>1 DEF HasCleanup, Guarding, Protected
    <2>4. \A j \in Opened(where, CL) : j <= k
      BY <2>3
    <2>5. \A j \in Opened(v, CL) : v[j].id = where[j].id
      <3>1. \A j \in Opened(v, CL) : j \in 1 .. (k - 1)
        BY <1>1, <2>1
      <3> QED BY <3>1 DEF Below
    <2>6. k \in Opened(where, HasCleanup \cup {"exiting"})
          /\ (\A j \in Opened(where, HasCleanup \cup {"exiting"}) : j <= k)
          /\ (\A j \in Opened(v, HasCleanup \cup {"exiting"}) : v[j].id = where[j].id)
      BY <2>2, <2>4, <2>5
    <2>7. Accounted(v, c)
      BY <1>1, <2>6, PaidCut
    <2>8. Len(c) = Len(owed)
      BY <1>1 DEF Accounted, Paid
    <2> QED BY <2>7, <2>8
  <1> HIDE DEF g, bl, st, q, s, c
  <1>11. CASE Goto(v) /\ Set(bl, st, current) /\ owed' = c
    <2>1. IInv'
      BY <1>2, <1>8, <1>9, <1>10, <1>11, GoesOn DEF Goto, Set
    <2>2. Control!Goto(v) /\ owed' = Control!Paid(owed, where[k].id)
      BY <1>11, SameRegions DEF Goto, Control!Goto, c
    <2> QED BY <2>1, <2>2
  <1>12. CASE \E e \in Exceptions : Throw(e, bl, st, current, c)
    <2>1. PICK e \in Exceptions : Throw(e, bl, st, current, c)
      BY <1>12
    <2>2. e \in Raisable
      BY DEF Raisable
    <2>3. IInv' /\ Control!Throw(e, v, c)
      BY <1>8, <1>9, <1>10, <2>1, <2>2, ThrowKeeps
    <2>4. Control!Paid(owed, where[k].id) = c
      BY SameRegions DEF c
    <2> QED BY <2>3, <2>4
  <1>13. ExitWith(v) <=> \/ Goto(v) /\ Set(bl, st, current) /\ owed' = c
                         \/ \E e \in Exceptions : Throw(e, bl, st, current, c)
    BY <1>7 DEF ExitWith, bl, st
  <1> QED BY <1>11, <1>12, <1>13

\* The body of a with ends.
LEMMA WithEndsKeeps ==
  ASSUME IInv, ended = Running, where /= <<>>, WithEnds
  PROVE  /\ IInv'
         /\ \/ Control!Goto(Front(where)) /\ owed' = Control!Paid(owed, Last(where).id)
            \/ \E e \in Exceptions : Control!Throw(e, Front(where), Control!Paid(owed, Last(where).id))
  <1> DEFINE k == Len(where)
             v == Front(where)
             CL == HasCleanup \cup {"exiting"}
  <1>1. ~Abandoned(where) /\ Last(where).kind = "with" /\ ExitWith(v)
    BY DEF Abandoned, WithEnds
  <1>2. where \in Seq(Regions) /\ Shaped(where, Len(owed)) /\ Len(owed) \in Nat /\ k \in Nat
    BY <1>1, Standing DEF IInv
  <1>3. /\ k \in 1 .. k /\ Last(where) = where[k] /\ v = SubSeq(where, 1, k - 1)
        /\ v \in Seq(Regions) /\ Len(v) = k - 1
        /\ \A j \in 1 .. (k - 1) : v[j] = where[j]
        /\ \A K : Opened(v, K) = {j \in Opened(where, K) : j < k}
        /\ \A K : Last(where).kind \in K => k \in Opened(where, K)
        /\ Holding(v) = {j \in Holding(where) : j < k}
        /\ Below(where, v, k)
    <2>1. Last(where).kind \notin Leaving
      BY <1>1 DEF Leaving
    <2> QED BY <1>2, <2>1, CutLast
  <1>4. k \in Opened(where, {"with"})
    BY <1>1, <1>3
  <1>5. \A j \in Opened(where, Guarding) \cup Opened(where, Handling) : j <= k
    BY <1>2, OpenedIn
  <1>6. \A j \in 1 .. Len(v) : v[j].kind /= "exiting"
    BY <1>2, FrontNotBrief DEF Brief
  <1>7. \A j \in 1 .. (k - 1) : where[j].kind /= "exiting"
    BY <1>2, <1>3, <1>6
  <1>8. Shaped(v, Len(owed))
    <2>1. k - 1 \in 0 .. Len(where)
      BY <1>3
    <2> HIDE DEF k, v
    <2> QED BY <1>2, <1>3, <2>1, ShapedCut
  <1>9. Holding(v) = Holding(where) \ {k} /\ \A j \in Holding(v) : ValueOf(v[j]) = ValueOf(where[j])
    <2>1. \A j \in Holding(where) : j \in 1 .. k
      BY DEF Holding
    <2>2. \A j \in Holding(where) : j < k <=> j /= k
      BY <1>2, <2>1
    <2>3. Holding(v) = Holding(where) \ {k}
      <3> HIDE DEF k, v
      <3> QED BY <1>3, <2>2
    <2>4. \A j \in Holding(v) : j \in 1 .. (k - 1)
      BY <1>2, <1>3, <2>1
    <2> QED BY <1>3, <2>3, <2>4
  <1> HIDE DEF k, v
  <1>10. /\ IInv'
         /\ \/ Control!Goto(v) /\ owed' = Control!Paid(owed, where[k].id)
            \/ \E e \in Exceptions : Control!Throw(e, v, Control!Paid(owed, where[k].id))
    BY <1>1, <1>3, <1>4, <1>5, <1>6, <1>7, <1>8, <1>9, ExitKeeps
  <1> QED BY <1>3, <1>10 DEF v

\* A jump that moves outward still belongs to its loop, or crosses no try of its body.
LEMMA ShapedMoved ==
  ASSUME NEW w, NEW n \in Nat, Shaped(w, n), w /= <<>>, Last(w).kind \in Leaving,
         NEW kind \in Leaving, NEW at \in 1 .. Last(w).at,
         \A t \in 1 .. Len(w) : Last(w).jump /= "return" /\ LoopOf(w, Len(w), t) => t < at,
         NEW v, v = Become(w, [Last(w) EXCEPT !.kind = kind, !.at = at])
  PROVE  Shaped(v, n) /\ Last(w).at \in 1 .. Len(w) /\ Last(w).jump \in JumpKinds
  <1> DEFINE m == Len(w)
             r == [Last(w) EXCEPT !.kind = kind, !.at = at]
  <1>1. w \in Seq(Regions) /\ m \in Nat /\ m \in 1 .. m /\ Last(w) = w[m]
    BY DEF Shaped, Last
  <1>2. JumpFits(w, m) /\ \A k \in 1 .. (m - 1) : w[k].kind \notin Brief
    BY <1>1 DEF Shaped, RegionFits
  <1>3. Last(w).at \in 1 .. m /\ Last(w).jump \in JumpKinds
    BY <1>1, <1>2 DEF JumpFits
  <1>4. /\ v \in Seq(Regions) /\ Len(v) = m
        /\ \A j \in 1 .. (m - 1) : v[j] = w[j]
        /\ v[m] = r /\ v[m].kind = kind /\ v[m].at = at /\ v[m].jump = Last(w).jump
        /\ \A j \in 1 .. (m - 1) : Held(v, j, m) => Held(w, j, m)
        /\ \A j \in 1 .. (m - 1) : j < at => (Held(v, j, m) <=> Held(w, j, m))
    <2>1. Moves(w, v, kind, at)
      BY <1>1, <1>3 DEF Moves
    <2>9. MoveLeaves(w, v, kind, at)
      BY <2>1, Moved
    <2>2. /\ v \in Seq(Regions) /\ Len(v) = Len(w)
          /\ \A j \in 1 .. (Len(w) - 1) : v[j] = w[j]
      BY <2>9 DEF MoveLeaves
    <2>3. /\ v[Len(w)] = [Last(w) EXCEPT !.kind = kind, !.at = at]
          /\ v[Len(w)].kind = kind /\ v[Len(w)].at = at /\ v[Len(w)].jump = Last(w).jump
      BY <2>9 DEF MoveLeaves
    <2>4. /\ \A j \in 1 .. (Len(w) - 1) : Held(v, j, Len(w)) => Held(w, j, Len(w))
          /\ \A j \in 1 .. (Len(w) - 1) : j < at => (Held(v, j, Len(w)) <=> Held(w, j, Len(w)))
      BY <2>9 DEF MoveLeaves
    <2> QED BY <2>2, <2>3, <2>4
  <1>5. v[m].at \in 1 .. m /\ v[m].jump \in JumpKinds
    BY <1>1, <1>3, <1>4
  <1>6. ASSUME Last(w).jump = "return"
        PROVE  JumpFits(v, m)
    <2>1. CrossesNoTry(w, m)
      BY <1>1, <1>2, <1>6 DEF JumpFits
    <2>2. CrossesNoTry(v, m)
      <3> SUFFICES ASSUME NEW i \in 1 .. (m - 1), NEW k \in 1 .. (m - 1),
                          v[i].kind = "try", Held(v, i, m), v[k].kind \in HasCleanup, Held(v, k, m)
                   PROVE  i < k
        BY DEF CrossesNoTry
      <3>1. w[i].kind = "try" /\ Held(w, i, m) /\ w[k].kind \in HasCleanup /\ Held(w, k, m)
        BY <1>4
      <3> QED BY <2>1, <3>1 DEF CrossesNoTry
    <2>3. v[m].jump = "return"
      BY <1>4, <1>6
    <2> HIDE DEF m
    <2> QED BY ONLY <1>5, <2>2, <2>3 DEF JumpFits
  <1>7. ASSUME Last(w).jump /= "return"
        PROVE  JumpFits(v, m)
    <2>1. PICK t \in 1 .. m : LoopOf(w, m, t)
      BY <1>1, <1>2, <1>7 DEF JumpFits
    <2>2. t < at /\ t \in Nat
      BY <1>7, <2>1
    <2>3. LoopOf(v, m, t)
      <3>1. t \in 1 .. (m - 1) /\ w[t].kind \in Loops /\ Held(w, t, m)
            /\ (\A i \in (t + 1) .. m : w[i].kind \notin Loops /\ ~(w[i].kind = "try" /\ Held(w, i, m)))
            /\ (\A i \in 1 .. t : ~(w[i].kind = "leave" /\ w[i].jump = "return"))
        BY <2>1 DEF LoopOf
      <3>2. v[t].kind \in Loops /\ Held(v, t, m)
        BY <1>4, <2>2, <3>1
      <3>3. \A i \in (t + 1) .. m : i \in 1 .. (m - 1) \/ i = m
        BY <1>1, <2>2
      <3>4. \A i \in (t + 1) .. m : v[i].kind \notin Loops
        BY <1>4, <3>1, <3>3 DEF Leaving, Loops
      <3>5. \A i \in (t + 1) .. m : ~(v[i].kind = "try" /\ Held(v, i, m))
        BY <1>4, <3>1, <3>3 DEF Leaving
      <3>6. \A i \in 1 .. t : i \in 1 .. (m - 1)
        BY <3>1
      <3>7. \A i \in 1 .. t : ~(v[i].kind = "leave" /\ v[i].jump = "return")
        BY <1>4, <3>1, <3>6
      <3> HIDE DEF m
      <3> QED BY <3>1, <3>2, <3>4, <3>5, <3>7 DEF LoopOf
    <2>4. v[m].jump /= "return"
      BY <1>4, <1>7
    <2>5. \E i \in 1 .. m : LoopOf(v, m, i)
      BY <2>1, <2>3
    <2> HIDE DEF m
    <2> QED BY ONLY <1>5, <2>4, <2>5 DEF JumpFits
  <1>8. JumpFits(v, m)
    BY <1>6, <1>7
  <1>9. RegionFits(v, m, n)
    BY <1>4, <1>8 DEF RegionFits, Leaving, Protected, Handling
  <1>10. v = Append(SubSeq(w, 1, m - 1), r)
    BY DEF Become, Front
  <1>11. m - 1 \in 0 .. m /\ (m - 1) + 1 = m
    BY <1>1
  <1>12. r \in Regions
    BY <1>1, <1>4
  <1>13. Shaped(v, n)
    <2>1. RegionFits(Append(SubSeq(w, 1, m - 1), r), (m - 1) + 1, n)
      BY <1>9, <1>10, <1>11
    <2>2. \A k \in 1 .. (m - 1) : w[k].kind \notin Brief
      BY <1>2
    <2> HIDE DEF r
    <2>3. Shaped(Append(SubSeq(w, 1, m - 1), r), n)
      BY <1>11, <1>12, <2>1, <2>2, ShapedPut
    <2> QED BY <1>10, <2>3
  <1> QED BY <1>3, <1>13

\* A jump moves outward to region at, past no with and no value: q blocks stay.
LEMMA MovedKeeps ==
  ASSUME IInv, ended = Running, where /= <<>>, Last(where).kind \in Leaving,
         NEW kind \in Leaving, NEW at \in 1 .. Last(where).at,
         \A t \in 1 .. Len(where) : Last(where).jump /= "return" /\ LoopOf(where, Len(where), t) => t < at,
         NEW v, v = Become(where, [Last(where) EXCEPT !.kind = kind, !.at = at]),
         \A j \in Opened(where, {"with"}) : j < at,
         NEW f \in Seq(Nat), NEW p \in Nat, Valued(where, stack, f), Framed(where, blocks, current, f, p),
         NEW q \in 0 .. Len(blocks),
         \A i \in 1 .. Len(blocks) : Proper(blocks, p, i) => (i <= q <=> At(blocks[i]) < at),
         NEW c, Accounted(v, c), Len(c) = Len(owed),
         Goto(v), owed' = c, blocks' = SubSeq(blocks, 1, q), stack' = stack, current' = Outer(where, at)
  PROVE  IInv'
  <1>1. Shaped(where, Len(owed)) /\ where \in Seq(Regions) /\ Len(owed) \in Nat
    BY DEF IInv, Shaped, Accounted
  <1>2. Shaped(v, Len(owed)) /\ Last(where).at \in 1 .. Len(where)
    BY <1>1, ShapedMoved
  <1>3. /\ v \in Seq(Regions) /\ Len(v) = Len(where) /\ Len(where) \in Nat /\ Len(where) \in 1 .. Len(where)
        /\ \A j \in 1 .. (Len(where) - 1) : v[j] = where[j]
        /\ where[Len(where)] = Last(where) /\ v[Len(where)].kind = kind
        /\ Holding(v) = {j \in Holding(where) : where[j].kind = "with" => j < at}
        /\ Below(where, v, at)
    <2>1. Moves(where, v, kind, at)
      BY <1>1, <1>2 DEF Moves
    <2>9. MoveLeaves(where, v, kind, at)
      BY <2>1, Moved
    <2>2. /\ v \in Seq(Regions) /\ Len(v) = Len(where) /\ Len(where) \in Nat /\ Len(where) \in 1 .. Len(where)
          /\ \A j \in 1 .. (Len(where) - 1) : v[j] = where[j]
      BY <2>9 DEF MoveLeaves
    <2>3. /\ where[Len(where)] = Last(where) /\ v[Len(where)].kind = kind
          /\ Holding(v) = {j \in Holding(where) : where[j].kind = "with" => j < at}
      BY <2>9 DEF MoveLeaves
    <2>4. Below(where, v, at)
      BY <2>9 DEF MoveLeaves
    <2> QED BY <2>2, <2>3, <2>4
  <1>4. Valued(v, stack, f)
    <2>1. \A j \in Holding(where) : where[j].kind = "with" => j \in Opened(where, {"with"})
      BY DEF Holding, Opened, Leaving
    <2>2. Holding(v) = Holding(where)
      BY <1>3, <2>1
    <2>3. \A j \in Holding(where) : j \in 1 .. Len(where)
      BY <1>1 DEF Holding
    <2>4. ValueOf(v[Len(where)]) = Value("result", 0) /\ ValueOf(where[Len(where)]) = Value("result", 0)
      BY <1>3 DEF ValueOf, Leaving
    <2>5. \A j \in 1 .. Len(where) : j \in 1 .. (Len(where) - 1) \/ j = Len(where)
      BY <1>3
    <2>6. \A j \in Holding(where) : ValueOf(v[j]) = ValueOf(where[j])
      BY <1>3, <2>3, <2>4, <2>5
    <2> QED BY <2>2, <2>6, ValuedSame
  <1>5. SameBelow(f, f, at)
    BY SameBelowSame
  <1>6. Framed(v, SubSeq(blocks, 1, q), Outer(where, at), f, IF p <= q THEN p ELSE q)
    BY <1>1, <1>3, <1>5, FramedBelow
  <1>7. (IF p <= q THEN p ELSE q) \in Nat
    OBVIOUS
  <1>8. Shaped(v, Len(c))
    BY <1>2
  <1> QED BY <1>4, <1>6, <1>7, <1>8, GoesOn DEF Goto

\* What the innermost jump has left is no more open.
LEMMA BelowJump ==
  ASSUME NEW w \in Seq(Regions), w /= <<>>, Last(w).kind \in Leaving, NEW K, K \cap Leaving = {}
  PROVE  \A j \in Opened(w, K) : j < Last(w).at /\ j \in 1 .. (Len(w) - 1)
  <1>1. Len(w) \in Nat /\ Len(w) \in 1 .. Len(w) /\ Last(w) = w[Len(w)]
    BY DEF Last
  <1> SUFFICES ASSUME NEW j \in Opened(w, K)
               PROVE  j < Last(w).at /\ j \in 1 .. (Len(w) - 1)
    OBVIOUS
  <1>2. j \in 1 .. Len(w) /\ w[j].kind \in K /\ Held(w, j, Len(w))
    BY OpenedHeld
  <1>3. j /= Len(w)
    BY <1>1, <1>2
  <1>4. Len(w) \in (j + 1) .. Len(w) /\ j \in 1 .. (Len(w) - 1)
    BY <1>1, <1>2, <1>3
  <1>5. Last(w).at > j
    BY <1>1, <1>2, <1>4 DEF Held
  <1>6. Last(w).at \in Nat
    BY <1>1, RegionTypes
  <1> QED BY <1>4, <1>5, <1>6

\* The cleanups that a jump leaves behind when it moves outward.
LEMMA MovedCleanups ==
  ASSUME NEW w, NEW v, NEW kind, NEW at, Moves(w, v, kind, at), NEW K, K = HasCleanup \cup {"exiting"}
  PROVE  /\ Opened(v, K) = {j \in Opened(w, K) : j < at}
         /\ \A j \in Opened(v, K) : v[j].id = w[j].id
  <1>1. MoveLeaves(w, v, kind, at) /\ w \in Seq(Regions) /\ w /= <<>> /\ Last(w).kind \in Leaving
    BY Moved DEF Moves
  <1>2. K \cap Leaving = {}
    BY DEF HasCleanup, Leaving
  <1>3. Opened(v, K) = {j \in Opened(w, K) : j < at}
    BY <1>1, <1>2 DEF MoveLeaves
  <1>4. \A j \in Opened(w, K) : j \in 1 .. (Len(w) - 1)
    BY <1>1, <1>2, BelowJump
  <1>5. \A j \in Opened(v, K) : v[j] = w[j]
    BY <1>1, <1>3, <1>4 DEF MoveLeaves
  <1> QED BY <1>3, <1>5

\* The finally body that a jump runs ends, and the jump goes on.
LEMMA LeaveTurnsKeeps ==
  ASSUME IInv, ended = Running, where /= <<>>, Last(where).kind = "leave",
         Goto(Become(where, [Last(where) EXCEPT !.kind = "jump"])), UNCHANGED <<blocks, stack, current, owed>>
  PROVE  IInv'
  <1> DEFINE n == Len(where)
             at == Last(where).at
             v == Become(where, [Last(where) EXCEPT !.kind = "jump", !.at = at])
             CL == HasCleanup \cup {"exiting"}
  <1>1. ~Abandoned(where) /\ Last(where).kind \in Leaving /\ "jump" \in Leaving
    BY DEF Abandoned, Leaving
  <1>2. where \in Seq(Regions) /\ Shaped(where, Len(owed)) /\ Accounted(where, owed) /\ Len(owed) \in Nat
        /\ blocks \in Seq(BlockSet) /\ n \in Nat /\ n \in 1 .. n /\ Last(where) = where[n]
    BY <1>1, Standing DEF IInv, Last
  <1>3. PICK f \in Seq(Nat), p \in Nat : Valued(where, stack, f) /\ Framed(where, blocks, current, f, p)
    BY <1>1, Standing
  <1>4. at \in 1 .. n /\ at \in Nat /\ at \in 1 .. at
    <2>1. JumpFits(where, n)
      BY <1>1, <1>2 DEF Shaped, RegionFits
    <2> QED BY <1>2, <2>1 DEF JumpFits
  <1>5. v = Become(where, [Last(where) EXCEPT !.kind = "jump"])
    <2>1. Last(where) \in Regions
      BY <1>2
    <2>2. [Last(where) EXCEPT !.kind = "jump", !.at = at] = [Last(where) EXCEPT !.kind = "jump"]
      BY <2>1 DEF Regions
    <2> QED BY <2>2
  <1>6. Moves(where, v, "jump", at)
    BY <1>1, <1>2, <1>4 DEF Moves
  <1>7. \A j \in Opened(where, Guarding) \cup Opened(where, Handling) : j < at
    <2>1. Guarding \cap Leaving = {} /\ Handling \cap Leaving = {}
      BY DEF Guarding, Protected, Handling, Leaving
    <2> QED BY <1>1, <1>2, <2>1, BelowJump
  <1>8. \A j \in Opened(where, {"with"}) : j < at
    <2>1. {"with"} \cap Leaving = {}
      BY DEF Leaving
    <2> QED BY <1>1, <1>2, <2>1, BelowJump
  <1>9. \A t \in 1 .. n : LoopOf(where, n, t) => t < at
    <2> SUFFICES ASSUME NEW t \in 1 .. n, LoopOf(where, n, t) PROVE t < at
      OBVIOUS
    <2>1. t \in 1 .. (n - 1) /\ Held(where, t, n)
      BY DEF LoopOf
    <2>2. n \in (t + 1) .. n
      BY <1>2, <2>1
    <2> QED BY <1>1, <1>2, <1>4, <2>2, <2>1 DEF Held
  <1>10. Accounted(v, owed)
    <2>1. /\ Opened(v, CL) = {j \in Opened(where, CL) : j < at}
          /\ \A j \in Opened(v, CL) : v[j].id = where[j].id
      BY <1>6, MovedCleanups
    <2>2. \A j \in Opened(where, CL) : j < at
      <3>1. CL \cap Leaving = {}
        BY DEF HasCleanup, Leaving
      <3> QED BY <1>1, <1>2, <3>1, BelowJump
    <2> HIDE DEF v, at
    <2> QED BY <1>2, <2>1, <2>2, AccountedCut
  <1>11. \A i \in 1 .. Len(blocks) : Proper(blocks, p, i) => (i <= Len(blocks) <=> At(blocks[i]) < at)
    <2>1. \A i \in 1 .. Len(blocks) : Proper(blocks, p, i) => At(blocks[i]) < at
      BY <1>2, <1>3, <1>7, ProperBlocks
    <2> QED BY <2>1
  <1>12. current = Outer(where, at)
    BY <1>2, <1>3, <1>4, <1>7, CurrentAt
  <1>13. SubSeq(blocks, 1, Len(blocks)) = blocks /\ Len(blocks) \in 0 .. Len(blocks)
    BY <1>2
  <1>14. Goto(v) /\ owed' = owed /\ blocks' = SubSeq(blocks, 1, Len(blocks)) /\ stack' = stack
         /\ current' = Outer(where, at)
    BY <1>5, <1>12, <1>13
  <1>15. v = Become(where, [Last(where) EXCEPT !.kind = "jump", !.at = at])
    OBVIOUS
  <1> HIDE DEF v
  <1> QED BY <1>1, <1>3, <1>4, <1>8, <1>9, <1>10, <1>11, <1>13, <1>14, <1>15, MovedKeeps

\* The value of the innermost region is on top.
LEMMA TopValue ==
  ASSUME NEW w \in Seq(Regions), NEW st, NEW f, Valued(w, st, f), Len(w) \in Holding(w)
  PROVE  /\ Len(f) \in Nat \ {0} /\ Len(st) = Len(f) /\ st \in Seq(Values) /\ f \in Seq(Nat)
         /\ st[Len(f)] = ValueOf(w[Len(w)]) /\ f[Len(f)] = Len(w)
         /\ \A j \in 1 .. Len(f) : j <= Len(f) - 1 <=> f[j] < Len(w)
  <1>1. f \in Seq(Nat) /\ st \in Seq(Values) /\ Len(f) = Len(st) /\ Len(f) \in Nat /\ Rises(f)
    BY DEF Valued
  <1>2. PICK i \in 1 .. Len(f) : f[i] = Len(w)
    BY DEF Valued
  <1>3. \A j \in 1 .. Len(f) : f[j] \in 1 .. Len(w) /\ f[j] \in Nat /\ st[j] = ValueOf(w[f[j]])
    BY <1>1 DEF Valued, Holding
  <1>4. i = Len(f)
    <2> SUFFICES ASSUME i /= Len(f) PROVE FALSE
      OBVIOUS
    <2>1. Len(f) \in 1 .. Len(f) /\ i < Len(f)
      BY <1>1
    <2>2. f[i] < f[Len(f)]
      BY <1>1, <2>1 DEF Rises
    <2> QED BY <1>2, <1>3, <2>1, <2>2
  <1>5. \A j \in 1 .. Len(f) : j < Len(f) => f[j] < f[Len(f)]
    BY <1>1, <1>4 DEF Rises
  <1>6. \A j \in 1 .. Len(f) : j <= Len(f) - 1 <=> f[j] < Len(w)
    <2> TAKE j \in 1 .. Len(f)
    <2>1. j < Len(f) \/ j = Len(f)
      BY <1>1
    <2> QED BY <1>1, <1>2, <1>3, <1>4, <1>5, <2>1
  <1> QED BY <1>1, <1>2, <1>3, <1>4, <1>6

\* It is dropped.
LEMMA TopDropped ==
  ASSUME NEW w \in Seq(Regions), NEW st, NEW f, Valued(w, st, f), Len(w) \in Holding(w), NEW v,
         Holding(v) = {k \in Holding(w) : k < Len(w)},
         \A k \in Holding(v) : ValueOf(v[k]) = ValueOf(w[k])
  PROVE  /\ Valued(v, SubSeq(st, 1, Len(f) - 1), SubSeq(f, 1, Len(f) - 1))
         /\ SameBelow(f, SubSeq(f, 1, Len(f) - 1), Len(w))
         /\ SubSeq(f, 1, Len(f) - 1) \in Seq(Nat)
  <1> DEFINE d == Len(f) - 1
             m == Len(w)
  <1>1. /\ d \in 0 .. Len(f) /\ m \in Nat
        /\ \A j \in 1 .. Len(f) : j <= d <=> f[j] < m
    BY TopValue
  <1>2. Holding(v) = {k \in Holding(w) : k < m}
    OBVIOUS
  <1> HIDE DEF d, m
  <1>4. \A j \in 1 .. Len(f) : j <= d <=> f[j] < m
    BY <1>1
  <1> DEFINE g == SubSeq(f, 1, d)
             sv == SubSeq(st, 1, d)
  <1>3. Valued(v, sv, g) /\ SameBelow(f, g, m)
    <2>1. f \in Seq(Nat) /\ Len(f) \in Nat
      BY DEF Valued
    <2>2. \A k \in Holding(v) : ValueOf(v[k]) = ValueOf(w[k])
      OBVIOUS
    <2>3. Valued(v, SubSeq(st, 1, d), SubSeq(f, 1, d)) /\ SameBelow(f, SubSeq(f, 1, d), m)
      BY <1>1, <1>2, <1>4, <2>1, <2>2, ValuedCut
    <2> QED BY <2>3
  <1>5. g \in Seq(Nat)
    BY <1>3 DEF Valued
  <1> QED BY <1>3, <1>5 DEF d, m

\* A for loop is exhausted: its iterator is on top.
LEMMA ForEndsKeeps ==
  ASSUME IInv, ended = Running, where /= <<>>, Last(where).kind = "for", LoopEnds
  PROVE  IInv' /\ Goto(Front(where)) /\ owed' = owed
  <1> DEFINE n == Len(where)
             u == Front(where)
             CL == HasCleanup \cup {"exiting"}
  <1>1. ~Abandoned(where) /\ Last(where).kind \notin Leaving \cup {"with", "exiting"} /\ Last(where).kind \notin Handling
    BY DEF Abandoned, Leaving, Handling
  <1>2. where \in Seq(Regions) /\ Shaped(where, Len(owed)) /\ Accounted(where, owed) /\ Len(owed) \in Nat
        /\ blocks \in Seq(BlockSet) /\ n \in Nat
    BY <1>1, Standing DEF IInv
  <1>3. PICK f \in Seq(Nat), p \in Nat : Valued(where, stack, f) /\ Framed(where, blocks, current, f, p)
    BY <1>1, Standing
  <1>4. /\ n \in 1 .. n /\ Last(where) = where[n] /\ u = SubSeq(where, 1, n - 1)
        /\ u \in Seq(Regions) /\ Len(u) = n - 1
        /\ \A j \in 1 .. (n - 1) : u[j] = where[j]
        /\ \A K : Last(where).kind \notin K => Opened(u, K) = Opened(where, K)
        /\ Holding(u) = {j \in Holding(where) : j < n}
    BY <1>1, <1>2, CutLast
  <1> DEFINE d == Len(f) - 1
             g == SubSeq(f, 1, d)
  <1>5. n \in Holding(where)
    BY <1>2, <1>4 DEF Holding
  <1>6. /\ Len(f) \in Nat \ {0} /\ Len(stack) = Len(f) /\ stack \in Seq(Values) /\ f \in Seq(Nat)
        /\ stack[Len(f)] = ValueOf(where[n])
        /\ \A j \in 1 .. Len(f) : j <= Len(f) - 1 <=> f[j] < n
    BY <1>2, <1>3, <1>5, TopValue
  <1>7. stack /= <<>> /\ Last(stack).what = "iterator"
    <2>1. stack /= <<>>
      BY <1>6
    <2>2. ValueOf(where[n]) = Value("iterator", where[n].id)
      BY <1>4 DEF ValueOf
    <2> QED BY <1>6, <2>1, <2>2 DEF Last, Value
  <1>8. Goto(u) /\ Set(blocks, Front(stack), current) /\ UNCHANGED owed
    BY <1>7 DEF LoopEnds
  <1>9. d \in 0 .. Len(f) /\ d \in Nat /\ Front(stack) = SubSeq(stack, 1, d)
    BY <1>6 DEF Front
  <1>10. Valued(u, SubSeq(stack, 1, d), g) /\ SameBelow(f, g, n) /\ g \in Seq(Nat)
    <2>1. \A k \in Holding(u) : ValueOf(u[k]) = ValueOf(where[k])
      <3>1. \A k \in Holding(u) : k \in 1 .. (n - 1)
        BY <1>2, <1>4 DEF Holding
      <3> QED BY <1>4, <3>1
    <2> HIDE DEF u
    <2> QED BY <1>2, <1>3, <1>4, <1>5, <2>1, TopDropped
  <1>11. PICK p1 \in Nat : Framed(u, blocks, current, g, p1)
    <2> DEFINE q == IF Last(where).kind \in {"final", "while", "for"} THEN Len(blocks) ELSE Len(blocks) - 1
    <2>1. q = Len(blocks) /\ SubSeq(blocks, 1, Len(blocks)) = blocks
      BY <1>2
    <2>2. q = IF Last(where).kind \in {"final", "while", "for"} THEN Len(blocks) ELSE Len(blocks) - 1
      OBVIOUS
    <2> HIDE DEF q, g
    <2>3. \E p1 \in Nat : Framed(u, SubSeq(blocks, 1, q), Outer(where, n), g, p1)
      BY <1>1, <1>2, <1>3, <1>10, <2>2, LeaveFramed
    <2>4. current = Outer(where, n)
      BY <1>1, <1>2, <1>3, <1>10, <2>2, LeaveFramed
    <2> QED BY <2>1, <2>3, <2>4
  <1>12. Shaped(u, Len(owed))
    <2>1. n - 1 \in 0 .. Len(where)
      BY <1>4
    <2> HIDE DEF n, u
    <2> QED BY <1>2, <1>4, <2>1, ShapedCut
  <1>13. Accounted(u, owed)
    <2>1. Opened(u, CL) = Opened(where, CL)
      <3>1. Last(where).kind \notin CL
        BY DEF HasCleanup
      <3> QED BY <1>4, <3>1
    <2>2. Opened(u, CL) \subseteq 1 .. (n - 1)
      BY <1>4, OpenedIn
    <2>3. \A j \in Opened(where, CL) : u[j].id = where[j].id
      BY <1>4, <2>1, <2>2
    <2>4. Cleanups(u) = Cleanups(where)
      BY <2>1, <2>3, CleanupsSame
    <2> QED BY <1>2, <2>4, AccountedSame
  <1> HIDE DEF u, g, d
  <1>14. where' = u /\ ended' = ended /\ owed' = owed /\ blocks' = blocks
         /\ stack' = SubSeq(stack, 1, d) /\ current' = current
    BY <1>8, <1>9 DEF Goto, Set
  <1>15. IInv'
    BY <1>10, <1>11, <1>12, <1>13, <1>14, GoesOn
  <1> QED BY <1>8, <1>15 DEF u

\* The innermost construct ends.
LEMMA BodyEndsKeeps ==
  ASSUME IInv, BodyEnds
  PROVE  IInv' /\ Control!BodyEnds
  <1> DEFINE r == Last(where)
  <1>1. Here /\ where /= <<>> /\ ended = Running
    BY DEF BodyEnds, Here
  <1>2. Control!Here
    BY <1>1, SameRegions DEF Here, Control!Here
  <1>3. Control!Front(where) = Front(where) /\ Control!Last(where) = r
    BY SameRegions
  <1>4. \A w : Goto(w) <=> Control!Goto(w)
    BY DEF Goto, Control!Goto
  <1>5. ASSUME r.kind \in {"try", "handler", "final", "while", "for"}, Goto(Front(where)), owed' = owed
        PROVE  Control!BodyEnds
    BY <1>1, <1>2, <1>3, <1>4, <1>5 DEF Control!BodyEnds
  <1>6. CASE TryEnds
    <2>1. r.kind = "try" /\ Goto(Front(where)) /\ UNCHANGED <<owed, stack>>
          /\ blocks' = PopFrom(blocks) /\ UNCHANGED current
      BY <1>6 DEF TryEnds, Leave, Set
    <2>2. IInv'
      BY <1>1, <2>1, LeaveKeeps
    <2> QED BY <1>5, <2>1, <2>2
  <1>7. CASE GuardEnds
    <2>1. IInv'
      BY <1>1, <1>7, GuardEndsKeeps
    <2>2. r.kind = "guard" /\ Goto(Become(where, [r EXCEPT !.kind = "final"])) /\ owed' = Paid(owed, r.id)
      BY <1>7 DEF GuardEnds
    <2>3. Control!Goto(Control!Become(where, [Control!Last(where) EXCEPT !.kind = "final"]))
          /\ owed' = Control!Paid(owed, Control!Last(where).id)
      BY <1>3, <1>4, <2>2, SameRegions
    <2> QED BY <1>1, <1>2, <1>3, <2>1, <2>2, <2>3 DEF Control!BodyEnds
  <1>8. CASE WithEnds
    <2>1. /\ IInv'
          /\ \/ Control!Goto(Front(where)) /\ owed' = Control!Paid(owed, r.id)
             \/ \E e \in Exceptions : Control!Throw(e, Front(where), Control!Paid(owed, r.id))
      BY <1>1, <1>8, WithEndsKeeps
    <2>2. r.kind = "with"
      BY <1>8 DEF WithEnds
    <2> QED BY <1>1, <1>2, <1>3, <2>1, <2>2 DEF Control!BodyEnds
  <1>9. CASE HandlerEnds
    <2>1. r.kind = "handler" /\ Goto(Front(where)) /\ UNCHANGED <<owed, stack>>
          /\ blocks' = WithoutHandler(blocks) /\ current' = Restored(blocks)
      BY <1>9 DEF HandlerEnds, Leave, Set
    <2>2. IInv'
      BY <1>1, <2>1, LeaveKeeps
    <2> QED BY <1>5, <2>1, <2>2
  <1>10. CASE FinallyEnds
    <2>1. CASE r.kind = "final" /\ Leave(blocks, current)
      <3>1. Goto(Front(where)) /\ UNCHANGED <<owed, stack>> /\ UNCHANGED <<blocks, current>>
        BY <2>1 DEF Leave, Set
      <3>2. IInv'
        BY <1>1, <2>1, <3>1, LeaveKeeps
      <3> QED BY <1>5, <2>1, <3>1, <3>2
    <2>2. CASE r.kind = "cleanup" /\ ReRaise(Front(where), blocks, stack, current, owed)
      <3>1. IInv' /\ Control!Throw(r.exc, Front(where), owed)
        BY <1>1, <2>2, ReRaiseKeeps
      <3> QED BY <1>1, <1>2, <1>3, <2>2, <3>1 DEF Control!BodyEnds
    <2>3. CASE /\ r.kind = "leave"
               /\ Goto(Become(where, [r EXCEPT !.kind = "jump"]))
               /\ UNCHANGED <<blocks, stack, current, owed>>
      <3>1. IInv'
        BY <1>1, <2>3, LeaveTurnsKeeps
      <3>2. Control!Goto(Control!Become(where, [Control!Last(where) EXCEPT !.kind = "jump"])) /\ UNCHANGED owed
        BY <1>3, <1>4, <2>3, SameRegions
      <3> QED BY <1>1, <1>2, <1>3, <2>3, <3>1, <3>2 DEF Control!BodyEnds
    <2> QED BY <1>10, <2>1, <2>2, <2>3 DEF FinallyEnds
  <1>11. CASE LoopEnds
    <2>1. CASE r.kind = "while" /\ Leave(blocks, current)
      <3>1. Goto(Front(where)) /\ UNCHANGED <<owed, stack>> /\ UNCHANGED <<blocks, current>>
        BY <2>1 DEF Leave, Set
      <3>2. IInv'
        BY <1>1, <2>1, <3>1, LeaveKeeps
      <3> QED BY <1>5, <2>1, <3>1, <3>2
    <2>2. CASE r.kind = "for"
      <3>1. IInv' /\ Goto(Front(where)) /\ owed' = owed
        BY <1>1, <1>11, <2>2, ForEndsKeeps
      <3> QED BY <1>5, <2>2, <3>1
    <2> QED BY <1>11, <2>1, <2>2 DEF LoopEnds
  <1> QED BY <1>6, <1>7, <1>8, <1>9, <1>10, <1>11 DEF BodyEnds

\* A clause takes the exception: its Handler block stays for the body of the clause.
LEMMA ClauseTakes ==
  ASSUME IInv, ended = Running, where /= <<>>, Last(where).kind = "clauses",
         Goto(Become(where, [Last(where) EXCEPT !.kind = "handler"])), UNCHANGED <<blocks, stack, current, owed>>
  PROVE  IInv'
  <1> DEFINE n == Len(where)
             u == Front(where)
             r == [Last(where) EXCEPT !.kind = "handler"]
             v == Append(u, r)
             m == Len(blocks)
             low == SubSeq(blocks, 1, m - 1)
             b == blocks[m]
             CL == HasCleanup \cup {"exiting"}
  <1>1. ~Abandoned(where) /\ Last(where).kind \in Handling
    BY DEF Abandoned, Handling
  <1>2. where \in Seq(Regions) /\ Shaped(where, Len(owed)) /\ Accounted(where, owed) /\ Len(owed) \in Nat
        /\ blocks \in Seq(BlockSet) /\ n \in Nat
    BY <1>1, Standing DEF IInv
  <1>3. PICK f \in Seq(Nat), p \in Nat : Valued(where, stack, f) /\ Framed(where, blocks, current, f, p)
    BY <1>1, Standing
  <1>4. Outer(where, n + 1) = Last(where).exc /\ Last(where).exc \in Raisable /\ Last(where).kind \notin Leaving
    BY <1>1, <1>2, HandlingNow
  <1>5. /\ n \in 1 .. n /\ Last(where) = where[n] /\ u = SubSeq(where, 1, n - 1)
        /\ u \in Seq(Regions) /\ Len(u) = n - 1
        /\ \A K : Last(where).kind \in K => n \in Opened(where, K)
    BY <1>2, <1>4, CutLast
  <1>6. current = Last(where).exc
    BY <1>1, <1>4, CurrentHandled
  <1>7. /\ m \in Nat \ {0} /\ At(b) = n /\ b.kind = "Handler" /\ b.saved = Outer(where, n)
    <2>1. n \in Opened(where, {"try", "guard", "clauses", "handler", "cleanup"})
      BY <1>5
    <2>2. \A j \in Opened(where, Guarding) \cup Opened(where, Handling) : j <= n
      BY <1>2, OpenedIn
    <2>3. where[n].kind \in Handling
      BY <1>1, <1>5
    <2> HIDE DEF n
    <2>4. m \in Nat \ {0} /\ At(b) = n
      BY <1>2, <1>3, <2>1, <2>2, TopBlock
    <2>5. b.kind = "Handler"
      BY <1>2, <1>3, <2>1, <2>2, <2>3, TopBlock
    <2>6. b.saved = Outer(where, n)
      BY <1>2, <1>3, <2>1, <2>2, <2>5, TopBlock
    <2> QED BY <2>4, <2>5, <2>6
  <1>8. /\ Shaped(u, Len(owed)) /\ Accounted(u, owed) /\ Valued(u, stack, f)
        /\ \E p1 \in Nat : Framed(u, low, Outer(where, n), f, p1)
    <2> DEFINE q == IF Last(where).kind \in {"final", "while"} THEN Len(blocks) ELSE Len(blocks) - 1
    <2>1. q = m - 1 /\ q = IF Last(where).kind \in {"final", "while"} THEN Len(blocks) ELSE Len(blocks) - 1
      OBVIOUS
    <2>2. Last(where).kind \in {"try", "clauses", "handler", "cleanup", "final", "while"}
      OBVIOUS
    <2> HIDE DEF q
    <2>3. Shaped(u, Len(owed)) /\ Accounted(u, owed) /\ Valued(u, stack, f)
      BY <1>2, <1>3, <2>1, <2>2, Left
    <2>4. \E p1 \in Nat : Framed(u, SubSeq(blocks, 1, q), Outer(where, n), f, p1)
      BY <1>2, <1>3, <2>1, <2>2, Left
    <2> QED BY <2>1, <2>3, <2>4
  <1>9. PICK p1 \in Nat : Framed(u, low, Outer(where, n), f, p1)
    BY <1>8
  <1>10. /\ r \in Regions /\ r.kind = "handler" /\ r.id = where[n].id /\ r.exc = current
         /\ r.kind \in Handling /\ r.kind \notin Guarding \cup Leaving
         /\ r = Region("handler", where[n].id, where[n].exc)
    <2>1. where[n] \in Regions
      BY <1>2, <1>5
    <2>2. where[n] = Region("clauses", where[n].id, where[n].exc)
      BY <1>1, <1>2, <1>5 DEF Shaped, RegionFits
    <2>3. r = Region("handler", where[n].id, where[n].exc)
      <3>1. \A id, e : [Region("clauses", id, e) EXCEPT !.kind = "handler"] = Region("handler", id, e)
        BY DEF Region
      <3>2. r = [Region("clauses", where[n].id, where[n].exc) EXCEPT !.kind = "handler"]
        BY <1>5, <2>2
      <3> QED BY <3>1, <3>2
    <2> QED BY <1>5, <1>6, <2>1, <2>3 DEF Regions, Kinds, Guarding, Protected, Handling, Leaving
  <1>11. Fresh(u, r)
    BY <1>10 DEF Fresh
  <1> HIDE DEF r, u
  <1>12. /\ v \in Seq(Regions) /\ Len(v) = n /\ v[n] = r /\ \A j \in 1 .. (n - 1) : v[j] = u[j]
         /\ \A K : Opened(v, K) = Opened(u, K) \cup (IF r.kind \in K THEN {n} ELSE {})
    <2>1. \A K : Opened(v, K) = Opened(u, K) \cup (IF r.kind \in K THEN {Len(u) + 1} ELSE {})
      BY <1>5, <1>11, OpenedPush
    <2>2. Len(u) + 1 = n
      BY <1>5, <1>2
    <2> QED BY <1>2, <1>5, <1>10, <2>1, <2>2
  <1>13. Outer(v, n) = Outer(u, n) /\ Outer(v, n + 1) = current /\ Outer(u, n) = Outer(where, n)
    <2>1. /\ Outer(v, Len(u) + 1) = Outer(u, Len(u) + 1)
          /\ Outer(v, Len(u) + 2) = r.exc
      BY <1>5, <1>10, <1>11, OuterPush
    <2>2. Len(u) + 1 = n /\ Len(u) + 2 = n + 1
      BY <1>5, <1>2
    <2>3. Outer(where, n) = Outer(u, Len(u) + 1)
      BY <1>9 DEF Framed
    <2> QED BY <1>10, <2>1, <2>2, <2>3
  <1>14. /\ low \in Seq(BlockSet) /\ Len(low) = m - 1 /\ b \in BlockSet
         /\ \A i \in 1 .. (m - 1) : low[i] = blocks[i]
    <2>1. \A t \in 0 .. m : /\ SubSeq(blocks, 1, t) \in Seq(BlockSet) /\ Len(SubSeq(blocks, 1, t)) = t
                           /\ \A i \in 1 .. t : SubSeq(blocks, 1, t)[i] = blocks[i]
      BY <1>2
    <2>2. m - 1 \in 0 .. m /\ m \in 1 .. m
      BY <1>7
    <2>3. b \in BlockSet
      BY <1>2, <2>2
    <2> HIDE DEF m, b
    <2> QED BY <2>1, <2>2, <2>3 DEF low
  <1>15. Framed(v, blocks, current, f, p1)
    <2> DEFINE more == <<b>>
    <2>1. more \in Seq(BlockSet) /\ Len(more) = 1 /\ more[1] = b
      BY <1>14
    <2>2. \A i \in 1 .. 1 : i = 1
      BY ONLY TRUE
    <2>3. low \o more = blocks
      <3>1. low \o more = Append(low, b)
        <4> HIDE DEF low, b
        <4> QED BY <1>14, TwoMore DEF more
      <3>2. Append(low, b) = blocks
        BY <1>2, <1>7
      <3> QED BY <3>1, <3>2
    <2>4. \A j \in 1 .. Len(low) : low[j].kind /= "Handler" => low[j].depth <= b.depth
      <3>1. \A i, j \in 1 .. m : i < j /\ blocks[i].kind /= "Handler" => blocks[i].depth <= blocks[j].depth
        BY <1>3 DEF Framed
      <3>2. m \in 1 .. m /\ \A j \in 1 .. (m - 1) : j \in 1 .. m /\ j < m
        BY <1>7
      <3> HIDE DEF low, m
      <3> QED BY <1>14, <3>1, <3>2
    <2>5. Handles(v, b)
      <3>1. At(b) \in Opened(v, Handling)
        BY <1>7, <1>10, <1>12
      <3>2. b.saved = Outer(v, At(b))
        BY <1>7, <1>13
      <3> HIDE DEF v, b
      <3> QED BY <3>1, <3>2 DEF Handles
    <2> HIDE DEF more, b, v, low, n, m
    <2>6. \A i \in 1 .. Len(more) :
            /\ At(more[i]) = Len(u) + 1
            /\ \A j \in 1 .. Len(low) : low[j].kind /= "Handler" => low[j].depth <= more[i].depth
            /\ more[i].kind /= "Handler" => Guards(v, more[i], f)
            /\ more[i].kind = "Handler" => Handles(v, more[i])
      BY <1>2, <1>5, <1>7, <2>1, <2>2, <2>4, <2>5
    <2>7. \A i, j \in 1 .. Len(more) :
            i < j => /\ more[i].kind /= "Handler" /\ more[j].kind = "Handler"
                     /\ more[i].depth <= more[j].depth
      BY <2>1, <2>2
    <2>8. r.kind \notin Guarding /\ (\E i \in 1 .. Len(more) : more[i].kind = "Handler")
      BY <1>7, <1>10, <2>1
    <2>9. SameBelow(f, f, Len(u) + 1)
      BY SameBelowSame
    <2>10. Framed(v, low \o more, Outer(v, Len(u) + 2), f, p1)
      BY <1>5, <1>9, <1>11, <2>1, <2>6, <2>7, <2>8, <2>9, FramedPush DEF v
    <2>11. Len(u) + 2 = n + 1
      BY <1>5, <1>2
    <2> QED BY <1>13, <2>3, <2>10, <2>11
  <1>16. Valued(v, stack, f)
    <2>1. Holding(v) = Holding(u)
      <3>1. \A k \in Holding(u) : u[k].kind = "with" /\ r.kind \in Leaving => r.at > k
        BY <1>10
      <3>2. r.kind \notin {"for", "with", "exiting"} \cup Leaving
        BY <1>10 DEF Leaving
      <3>3. Holding(v) =
              {k \in Holding(u) : u[k].kind = "with" /\ r.kind \in Leaving => r.at > k}
                 \cup (IF r.kind \in {"for", "with", "exiting"} \/ (r.kind \in Leaving /\ r.jump = "return")
                       THEN {Len(u) + 1} ELSE {})
        BY <1>5, <1>10, HoldingAppend
      <3>4. ~(r.kind \in {"for", "with", "exiting"} \/ (r.kind \in Leaving /\ r.jump = "return"))
        BY <3>2
      <3> QED BY <3>1, <3>3, <3>4
    <2>2. \A k \in Holding(u) : k \in 1 .. (n - 1)
      BY <1>5 DEF Holding
    <2>3. \A k \in Holding(u) : ValueOf(v[k]) = ValueOf(u[k])
      BY <1>12, <2>2
    <2> HIDE DEF v
    <2> QED BY <1>8, <2>1, <2>3, ValuedSame
  <1>17. Shaped(v, Len(owed))
    <2>1. where[n].kind \notin Leaving /\ r.kind \notin Leaving \cup Protected /\ where[n].exc /= None
          /\ r.exc = where[n].exc
      BY <1>4, <1>5, <1>6, <1>10, NoneIsNoException DEF Guarding, Raisable
    <2>2. r.kind \in Handling => r.exc /= None /\ r = Region(r.kind, r.id, r.exc)
      BY <1>10, <2>1
    <2> HIDE DEF n
    <2>3. Shaped(Append(SubSeq(where, 1, n - 1), r), Len(owed))
      BY <1>2, <1>5, <1>10, <2>1, <2>2, ShapedTurn DEF n
    <2> QED BY <1>5, <2>3
  <1>18. Accounted(v, owed)
    <2>1. Opened(v, CL) = Opened(u, CL)
      <3>1. r.kind \notin CL
        BY <1>10 DEF HasCleanup
      <3> HIDE DEF v, CL
      <3> QED BY <1>12, <3>1
    <2>2. Opened(u, CL) \subseteq 1 .. (n - 1)
      BY <1>5, OpenedIn
    <2>3. \A j \in Opened(u, CL) : v[j].id = u[j].id
      BY <1>12, <2>2
    <2>4. Cleanups(v) = Cleanups(u)
      BY <2>1, <2>3, CleanupsSame
    <2> QED BY <1>8, <2>4, AccountedSame
  <1>19. where' = v /\ ended' = ended /\ owed' = owed /\ blocks' = blocks /\ stack' = stack /\ current' = current
    BY DEF Goto, Become, r, u
  <1> HIDE DEF v
  <1> QED BY <1>15, <1>16, <1>17, <1>18, <1>19, GoesOn

\* The clauses of a try are matched.
LEMMA MatchClausesKeeps ==
  ASSUME IInv, MatchClauses
  PROVE  IInv' /\ Control!MatchClauses
  <1> DEFINE r == Last(where)
             n == Len(where)
  <1>1. ended = Running /\ where /= <<>> /\ r.kind = "clauses"
    BY DEF MatchClauses
  <1>2. ~Abandoned(where) /\ r.kind \in Handling /\ r.kind \notin Protected
    BY <1>1 DEF Abandoned, Handling, Protected
  <1>3. where \in Seq(Regions) /\ Shaped(where, Len(owed)) /\ Accounted(where, owed) /\ Len(owed) \in Nat /\ n \in Nat
    BY <1>2, Standing DEF IInv
  <1>4. PICK f \in Seq(Nat), p \in Nat : Valued(where, stack, f) /\ Framed(where, blocks, current, f, p)
    BY <1>2, Standing
  <1>5. r.kind \notin Leaving
    BY <1>2, <1>3, <1>1, HandlingNow
  <1>6. /\ Front(where) \in Seq(Regions) /\ Len(Front(where)) = n - 1 /\ n \in 1 .. n /\ r = where[n]
        /\ \A j \in 1 .. (n - 1) : Front(where)[j] = where[j]
        /\ Opened(Front(where), Protected) = Opened(where, Protected)
    BY <1>1, <1>2, <1>3, <1>5, CutLast
  <1>7. Control!MatchClauses <=>
          \/ Goto(Become(where, [r EXCEPT !.kind = "handler"])) /\ UNCHANGED owed
          \/ \E e \in Exceptions \cup {r.exc} : Control!Throw(e, Front(where), owed)
    BY <1>1, SameRegions DEF Control!MatchClauses, Goto, Control!Goto
  <1>8. CASE Goto(Become(where, [r EXCEPT !.kind = "handler"])) /\ UNCHANGED <<blocks, stack, current, owed>>
    BY <1>1, <1>7, <1>8, ClauseTakes
  <1>9. CASE ReRaise(Front(where), blocks, stack, current, owed)
    <2>1. IInv' /\ Control!Throw(r.exc, Front(where), owed)
      BY <1>1, <1>9, ReRaiseKeeps
    <2> QED BY <1>7, <2>1
  <1>10. CASE \E e \in Exceptions : Throw(e, blocks, stack, current, owed)
    <2>1. PICK e \in Exceptions : Throw(e, blocks, stack, current, owed)
      BY <1>10
    <2>2. e \in Raisable
      BY DEF Raisable
    <2>3. \A k \in 1 .. n : where[k].kind /= "exiting"
      <3> TAKE k \in 1 .. n
      <3>1. CASE k = n
        BY <1>1, <1>6, <3>1
      <3>2. CASE k /= n
        BY <1>3, <3>2 DEF Shaped, Brief
      <3> QED BY <3>1, <3>2
    <2>4. IInv' /\ Control!Throw(e, where, owed)
      BY <1>1, <1>3, <1>4, <2>1, <2>2, <2>3, ThrowKeeps
    <2>5. Control!Throw(e, Front(where), owed)
      <3>1. \A j \in Opened(Front(where), Protected) : j < n
        <4>1. Opened(Front(where), Protected) \subseteq 1 .. (n - 1)
          BY <1>6, OpenedIn
        <4> QED BY <1>3, <4>1
      <3>2. \A j \in 1 .. (n - 1) : j <= Len(Front(where)) /\ j <= Len(where) => where[j] = Front(where)[j]
        BY <1>6
      <3> QED BY <1>3, <1>6, <2>4, <3>1, <3>2, ThrowSame
    <2> QED BY <1>7, <2>4, <2>5
  <1> QED BY <1>8, <1>9, <1>10 DEF MatchClauses

\* What the manager's exit, with an exception in flight, leaves once its with is left: its
\* With block q and its Handler block are on top, and its exit is the value that q says.
ExitLeaves(w, c, bl, st, q) ==
    /\ q \in 1 .. Len(bl) /\ q \in Nat /\ Len(bl) = q + 1 /\ bl \in Seq(BlockSet)
    /\ bl[q].depth <= Len(st) /\ Len(st) \in Nat
    /\ st[bl[q].depth] = Value("exit", Last(w).id)
    /\ bl[q + 1].kind = "Handler" /\ bl[q + 1].saved = Outer(w, Len(w))
    /\ Shaped(Front(w), Len(c))
    /\ Accounted(Front(w), Paid(c, Last(w).id)) /\ Len(Paid(c, Last(w).id)) = Len(c)
    /\ \E g \in Seq(Nat), p1 \in Nat :
          /\ Valued(Front(w), RemoveAt(st, bl[q].depth), g)
          /\ Framed(Front(w), SubSeq(bl, 1, q - 1), Outer(w, Len(w)), g, p1)
          /\ Len(RemoveAt(st, bl[q].depth)) = Len(g)
    /\ \A i \in 1 .. (q - 1) : bl[i].kind /= "Handler" => bl[i].depth <= bl[q + 1].depth

\* A manager's exit in progress leaves this.
LEMMA ExitingLeft ==
  ASSUME NEW w, NEW c, NEW bl, NEW st, NEW cur, NEW f \in Seq(Nat), NEW p \in Nat,
         Shaped(w, Len(c)), Accounted(w, c), Valued(w, st, f), Framed(w, bl, cur, f, p),
         w /= <<>>, Last(w).kind = "exiting", NEW q, q = LastWithOf(bl)
  PROVE  ExitLeaves(w, c, bl, st, q)
  <1> DEFINE n == Len(w)
             u == Front(w)
             b == bl[q]
             s == b.depth
             g == RemoveAt(f, s)
             CL == HasCleanup \cup {"exiting"}
  <1>1. w \in Seq(Regions) /\ n \in Nat /\ Len(c) \in Nat /\ Last(w).kind \notin Leaving
    BY DEF Shaped, Accounted, Leaving
  <1>2. /\ n \in 1 .. n /\ Last(w) = w[n] /\ u = SubSeq(w, 1, n - 1)
        /\ u \in Seq(Regions) /\ Len(u) = n - 1
        /\ \A j \in 1 .. (n - 1) : u[j] = w[j]
        /\ \A K : Opened(u, K) = {j \in Opened(w, K) : j < n}
        /\ \A K : Last(w).kind \in K => n \in Opened(w, K)
        /\ Holding(u) = {j \in Holding(w) : j < n}
        /\ Below(w, u, n)
    BY <1>1, CutLast
  <1>3. /\ q \in 1 .. Len(bl) /\ Len(bl) = q + 1
        /\ b.kind = "With" /\ At(b) = n
        /\ bl[q + 1].kind = "Handler" /\ bl[q + 1].saved = Outer(w, n)
        /\ b.depth <= bl[q + 1].depth
        /\ \A i \in 1 .. Len(bl) : Proper(bl, p, i) => (i <= q - 1 <=> At(bl[i]) < n)
    <2>1. q \in 1 .. Len(bl) /\ Len(bl) = q + 1 /\ b.kind = "With" /\ At(b) = n
      BY <1>1, ExitingBlocks
    <2>2. bl[q + 1].kind = "Handler" /\ bl[q + 1].saved = Outer(w, n) /\ b.depth <= bl[q + 1].depth
      BY <1>1, ExitingBlocks
    <2>3. \A i \in 1 .. Len(bl) : Proper(bl, p, i) => (i <= q - 1 <=> At(bl[i]) < n)
      BY <1>1, ExitingBlocks
    <2> QED BY <2>1, <2>2, <2>3
  <1>4. bl \in Seq(BlockSet) /\ b \in BlockSet /\ Guards(w, b, f) /\ q \in Nat /\ Len(bl) \in Nat
    BY <1>3 DEF Framed
  <1>5. s \in 1 .. Len(f) /\ f[s] = n /\ st[s] = Value("exit", w[n].id)
    <2> HIDE DEF b
    <2> QED BY <1>1, <1>3, <1>4, ExitValue
  <1>6. Len(f) = Len(st) /\ Len(f) \in Nat
    BY DEF Valued
  <1>7. Valued(u, RemoveAt(st, s), g) /\ SameBelow(f, g, n) /\ g \in Seq(Nat) /\ Len(RemoveAt(st, s)) = Len(g)
    <2>1. \A j \in Holding(w) : j \in 1 .. n
      BY DEF Holding
    <2>2. \A j \in Holding(w) : j < n <=> j /= n
      BY <1>1, <2>1
    <2>3. Holding(u) = Holding(w) \ {f[s]}
      <3> HIDE DEF u, n, s
      <3> QED BY <1>2, <1>5, <2>2
    <2>4. \A j \in Holding(u) : j \in 1 .. (n - 1)
      BY <1>1, <1>2, <2>1
    <2>5. \A j \in Holding(u) : ValueOf(u[j]) = ValueOf(w[j])
      BY <1>2, <2>4
    <2>6. Valued(u, RemoveAt(st, s), g) /\ SameBelow(f, g, f[s]) /\ g \in Seq(Nat)
      <3> HIDE DEF s, u
      <3> QED BY <1>5, <2>3, <2>5, ValuedRemove
    <2>7. Len(RemoveAt(st, s)) = Len(g)
      <3> HIDE DEF s, u, g
      <3> QED BY <2>6 DEF Valued
    <2> QED BY <1>5, <2>6, <2>7
  <1>8. q - 1 \in 0 .. Len(bl)
    BY <1>3, <1>4
  <1>9. \E p1 \in Nat : Framed(u, SubSeq(bl, 1, q - 1), Outer(w, n), g, p1)
    <2>1. Framed(u, SubSeq(bl, 1, q - 1), Outer(w, n), g, IF p <= q - 1 THEN p ELSE q - 1)
      <3>1. PICK q1 : q1 = q - 1
        OBVIOUS
      <3>2. q1 \in 0 .. Len(bl) /\ Below(w, u, n) /\ SameBelow(f, g, n) /\ g \in Seq(Nat)
            /\ w \in Seq(Regions) /\ u \in Seq(Regions)
        BY <1>1, <1>2, <1>7, <1>8, <3>1
      <3>3. \A i \in 1 .. Len(bl) : Proper(bl, p, i) => (i <= q1 <=> At(bl[i]) < n)
        BY <1>3, <3>1
      <3> HIDE DEF g, u, n, b
      <3>4. Framed(u, SubSeq(bl, 1, q1), Outer(w, n), g, IF p <= q1 THEN p ELSE q1)
        BY <3>2, <3>3, FramedBelow
      <3> QED BY <3>1, <3>4
    <2>2. (IF p <= q - 1 THEN p ELSE q - 1) \in Nat
      BY <1>8
    <2> QED BY <2>1, <2>2
  <1>10. Shaped(u, Len(c))
    <2>1. n - 1 \in 0 .. Len(w)
      BY <1>2
    <2> HIDE DEF n, u
    <2> QED BY <1>1, <1>2, <2>1, ShapedCut
  <1>11. Accounted(u, Paid(c, w[n].id)) /\ Len(Paid(c, w[n].id)) = Len(c)
    <2>1. n \in Opened(w, CL)
      BY <1>2
    <2>2. \A j \in Opened(w, CL) : j \in 1 .. n
      BY <1>1, OpenedIn
    <2>3. \A j \in Opened(u, CL) : j \in 1 .. (n - 1)
      BY <1>1, <1>2, OpenedIn
    <2>4. \A j \in Opened(u, CL) : u[j].id = w[j].id
      BY <1>2, <2>3
    <2>5. Opened(u, CL) = {j \in Opened(w, CL) : j < n}
      BY <1>2
    <2>6. \A j \in Opened(w, CL) : j <= n
      BY <2>2
    <2> HIDE DEF n, u
    <2>7. Accounted(u, Paid(c, w[n].id))
      BY <1>1, <2>1, <2>4, <2>5, <2>6, PaidCut
    <2>8. Len(Paid(c, w[n].id)) = Len(c)
      BY DEF Accounted, Paid
    <2> QED BY <2>7, <2>8
  <1>12. \A i \in 1 .. (q - 1) : bl[i].kind /= "Handler" => bl[i].depth <= bl[q + 1].depth
    <2>1. \A i \in 1 .. (q - 1) : i \in 1 .. Len(bl) /\ i < q + 1 /\ q + 1 \in 1 .. Len(bl)
      BY <1>3, <1>4
    <2> QED BY <2>1 DEF Framed
  <1> HIDE DEF g, u
  <1>13. \E h \in Seq(Nat), p1 \in Nat :
               /\ Valued(u, RemoveAt(st, s), h)
               /\ Framed(u, SubSeq(bl, 1, q - 1), Outer(w, n), h, p1)
               /\ Len(RemoveAt(st, s)) = Len(h)
    BY <1>7, <1>9
  <1>14. s <= Len(st) /\ Len(st) \in Nat /\ st[s] = Value("exit", Last(w).id)
    BY <1>2, <1>5, <1>6
  <1> QED BY <1>2, <1>3, <1>4, <1>10, <1>11, <1>12, <1>13, <1>14 DEF u, ExitLeaves

\* The element at the end of a sequence, and what is before it.
LEMMA FrontOfAppend ==
  ASSUME NEW S, NEW s \in Seq(S), NEW a \in S
  PROVE  /\ Append(s, a) /= <<>> /\ Last(Append(s, a)) = a /\ Front(Append(s, a)) = s
         /\ Append(s, a) \in Seq(S)
  <1> DEFINE t == Append(s, a)
  <1>1. t \in Seq(S) /\ Len(t) = Len(s) + 1 /\ Len(s) \in Nat /\ t[Len(s) + 1] = a
        /\ \A i \in 1 .. Len(s) : t[i] = s[i]
    OBVIOUS
  <1>2. t /= <<>> /\ Last(t) = a
    BY <1>1 DEF Last
  <1>3. Front(t) = SubSeq(t, 1, Len(s))
    BY <1>1 DEF Front
  <1> HIDE DEF t
  <1>4. SubSeq(t, 1, Len(s)) \in Seq(S) /\ Len(SubSeq(t, 1, Len(s))) = Len(s)
        /\ \A i \in 1 .. Len(s) : SubSeq(t, 1, Len(s))[i] = t[i]
    BY <1>1
  <1>5. SubSeq(t, 1, Len(s)) = s
    BY <1>1, <1>4, SeqEqual
  <1>6. Front(t) = s /\ t \in Seq(S)
    BY <1>1, <1>3, <1>5
  <1> QED BY <1>2, <1>6 DEF t

\* The block under the last one is removed.
LEMMA RemovedUnder ==
  ASSUME NEW S, NEW s \in Seq(S), NEW q \in 1 .. Len(s), Len(s) = q + 1
  PROVE  RemoveAt(s, q) = Append(SubSeq(s, 1, q - 1), s[q + 1]) /\ SubSeq(s, 1, q - 1) \in Seq(S) /\ s[q + 1] \in S
         /\ Len(SubSeq(s, 1, q - 1)) = q - 1 /\ \A i \in 1 .. (q - 1) : SubSeq(s, 1, q - 1)[i] = s[i]
  <1>1. q \in Nat /\ q + 1 \in 1 .. Len(s) /\ s[q + 1] \in S
    OBVIOUS
  <1>2. RemoveAt(s, q) \in Seq(S) /\ Len(RemoveAt(s, q)) = q
        /\ \A j \in 1 .. q : RemoveAt(s, q)[j] = IF j < q THEN s[j] ELSE s[j + 1]
    <2>1. RemoveAt(s, q) \in Seq(S) /\ Len(RemoveAt(s, q)) = Len(s) - 1
          /\ \A j \in 1 .. (Len(s) - 1) : RemoveAt(s, q)[j] = IF j < q THEN s[j] ELSE s[j + 1]
      BY Removed
    <2>2. Len(s) - 1 = q
      BY <1>1
    <2> QED BY <2>1, <2>2
  <1>3. SubSeq(s, 1, q - 1) \in Seq(S) /\ Len(SubSeq(s, 1, q - 1)) = q - 1
        /\ \A i \in 1 .. (q - 1) : SubSeq(s, 1, q - 1)[i] = s[i]
    <2>1. \A t \in 0 .. Len(s) : SubSeq(s, 1, t) \in Seq(S) /\ Len(SubSeq(s, 1, t)) = t
                                 /\ \A i \in 1 .. t : SubSeq(s, 1, t)[i] = s[i]
      OBVIOUS
    <2>2. PICK t : t = q - 1
      OBVIOUS
    <2>3. t \in 0 .. Len(s)
      BY <1>1, <2>2
    <2> QED BY <2>1, <2>2, <2>3
  <1> DEFINE low == SubSeq(s, 1, q - 1)
             r == RemoveAt(s, q)
             a == Append(low, s[q + 1])
  <1>4. a \in Seq(S) /\ Len(a) = q /\ a[q] = s[q + 1] /\ \A i \in 1 .. (q - 1) : a[i] = s[i]
    <2> HIDE DEF low
    <2> QED BY <1>1, <1>3 DEF low
  <1>5. r[q] = s[q + 1] /\ \A i \in 1 .. (q - 1) : r[i] = s[i]
    <2> HIDE DEF r
    <2> QED BY <1>1, <1>2 DEF r
  <1>6. r = a
    <2>1. \A i \in 1 .. q : i \in 1 .. (q - 1) \/ i = q
      BY <1>1
    <2>2. r \in Seq(S) /\ Len(r) = Len(a)
      BY <1>2, <1>4
    <2>3. \A i \in 1 .. Len(r) : r[i] = a[i]
      <3> HIDE DEF r, a
      <3> QED BY <1>2, <1>4, <1>5, <2>1 DEF r
    <2> HIDE DEF r, a
    <2> QED BY <1>4, <2>2, <2>3, SeqEqual
  <1> QED BY <1>1, <1>3, <1>6

\* The manager's exit, with an exception in flight.
LEMMA ExitOnExceptionKeeps ==
  ASSUME IInv, Odd = {}, ExitOnException
  PROVE  IInv' /\ Control!ExitOnException
  <1> DEFINE n == Len(where)
             u == Front(where)
             x == Last(where)
             q == LastWithOf(blocks)
             s == blocks[q].depth
             c == Paid(owed, x.id)
             st == RemoveAt(stack, s)
             low == SubSeq(blocks, 1, q - 1)
             h == blocks[q + 1]
             bl == RemoveAt(blocks, q)
             out == Outer(where, n)
  <1>1. /\ ended = Running /\ where /= <<>> /\ x.kind = "exiting" /\ ~Abandoned(where) /\ x.kind \in Handling
    BY DEF ExitOnException, Abandoned, Handling
  <1>2. where \in Seq(Regions) /\ Shaped(where, Len(owed)) /\ Accounted(where, owed) /\ Len(owed) \in Nat
        /\ blocks \in Seq(BlockSet) /\ n \in Nat
    BY <1>1, Standing DEF IInv
  <1>3. PICK f \in Seq(Nat), p \in Nat : Valued(where, stack, f) /\ Framed(where, blocks, current, f, p)
    BY <1>1, Standing
  <1>4. current = x.exc /\ current /= None /\ x.exc \in Raisable
    BY <1>1, <1>2, HandlingNow, CurrentHandled, NoneIsNoException DEF Raisable
  <1>5. q = LastWithOf(blocks)
    OBVIOUS
  <1> HIDE DEF q
  <1>23. ExitLeaves(where, owed, blocks, stack, q)
    BY <1>1, <1>2, <1>3, <1>5, ExitingLeft
  <1>6. /\ q \in 1 .. Len(blocks) /\ q \in Nat /\ Len(blocks) = q + 1
        /\ s <= Len(stack) /\ Len(stack) \in Nat /\ stack[s] = Value("exit", x.id)
        /\ h.kind = "Handler" /\ h.saved = out
    <2>1. q \in 1 .. Len(blocks) /\ q \in Nat /\ Len(blocks) = q + 1
      BY <1>23 DEF ExitLeaves
    <2>2. blocks[q].depth <= Len(stack) /\ Len(stack) \in Nat
      BY <1>23 DEF ExitLeaves
    <2>3. stack[blocks[q].depth] = Value("exit", Last(where).id)
      BY <1>23 DEF ExitLeaves
    <2>4. blocks[q + 1].kind = "Handler" /\ blocks[q + 1].saved = Outer(where, Len(where))
      BY <1>23 DEF ExitLeaves
    <2> QED BY <2>1, <2>2, <2>3, <2>4
  <1>7. Shaped(u, Len(c)) /\ Accounted(u, c)
    BY <1>23 DEF ExitLeaves
  <1>8. PICK g \in Seq(Nat), p1 \in Nat : Valued(u, st, g) /\ Framed(u, low, out, g, p1) /\ Len(st) = Len(g)
    <2>1. \E g \in Seq(Nat), p1 \in Nat :
               /\ Valued(Front(where), RemoveAt(stack, blocks[q].depth), g)
               /\ Framed(Front(where), SubSeq(blocks, 1, q - 1), Outer(where, Len(where)), g, p1)
               /\ Len(RemoveAt(stack, blocks[q].depth)) = Len(g)
      BY <1>23 DEF ExitLeaves
    <2> QED BY <2>1
  <1>9. \A i \in 1 .. (q - 1) : blocks[i].kind /= "Handler" => blocks[i].depth <= h.depth
    BY <1>23 DEF ExitLeaves
  <1>10. /\ LastWith = q /\ LastWith /= 0 /\ ExitSlot = s /\ ~(ExitSlot > Len(stack))
         /\ IsExit /\ ExitPaid = c /\ StackWithoutExit = st /\ BlocksWithoutWith = bl
    <2>1. LastWith = q
      BY DEF LastWith, LastWithOf, q
    <2>2. ExitSlot = s
      BY <2>1 DEF ExitSlot
    <2>3. IsExit /\ stack[ExitSlot].id = x.id
      BY <1>6, <2>2 DEF IsExit, Value
    <2>4. s \in Nat
      <3>1. blocks[q] \in BlockSet
        BY <1>2, <1>6
      <3> QED BY <3>1 DEF BlockSet
    <2> QED BY <1>6, <2>1, <2>2, <2>3, <2>4 DEF ExitPaid, StackWithoutExit, BlocksWithoutWith
  <1>11. /\ bl = Append(low, h) /\ low \in Seq(BlockSet) /\ h \in BlockSet /\ Len(low) = q - 1
         /\ \A i \in 1 .. (q - 1) : low[i] = blocks[i]
    BY <1>2, <1>6, RemovedUnder
  <1> HIDE DEF bl, low, h, st, s, c, u, n, out
  <1>12. bl /= <<>> /\ Last(bl) = h /\ Front(bl) = low
    BY <1>11, FrontOfAppend
  <1>13. WithoutHandler(bl) = low /\ Restored(bl) = out
    BY <1>6, <1>12 DEF WithoutHandler, Restored, HandlerOnTop
  <1>14. \A k \in 1 .. Len(u) : u[k].kind \notin Brief
    BY <1>1, <1>2, FrontNotBrief DEF u
  <1>15. \A k \in 1 .. Len(u) : u[k].kind /= "exiting"
    BY <1>14 DEF Brief
  <1>16. u \in Seq(Regions) /\ Len(c) \in Nat
    BY <1>7 DEF Shaped, Accounted
  <1>17. Control!ExitOnException <=>
            \/ Goto(u) /\ owed' = c
            \/ \E e \in Exceptions \cup {x.exc} : Control!Throw(e, u, c)
    BY <1>1, SameRegions DEF Control!ExitOnException, Goto, Control!Goto, u, c
  <1>18. ASSUME NEW e \in Raisable, Throw(e, low, st, out, c)
         PROVE  IInv' /\ Control!Throw(e, u, c)
    BY <1>1, <1>7, <1>8, <1>15, <1>18, ThrowKeeps
  <1>19. CASE Alone /\ Goto(u) /\ Set(bl, st, None) /\ owed' = c
    <2>1. \A K : Opened(u, K) = {k \in 1 .. Len(u) : u[k].kind \in K /\ Held(u, k, Len(u))}
      BY <1>16, OpenedHeld
    <2>2. Opened(u, {"try", "guard", "handler", "cleanup"}) = {}
      BY <1>19 DEF Alone, u
    <2>3. Opened(u, Handling) = {} /\ Opened(u, {"try", "guard"}) = {}
      BY <1>14, <2>1, <2>2 DEF Handling, Brief
    <2>4. Framed(u, low, out, g, Len(low))
      BY <1>8, <1>16, <2>3, AllLeft
    <2>5. out = None
      <3>1. out = Outer(u, Len(u) + 1)
        BY <2>4 DEF Framed
      <3>2. {j \in Opened(u, Handling) : j < Len(u) + 1} = {}
        BY <2>3
      <3> QED BY <3>1, <3>2 DEF Outer, LastOr0
    <2> DEFINE more == <<h>>
    <2>6. more \in Seq(BlockSet) /\ Len(more) = 1 /\ more[1] = h /\ \A i \in 1 .. 1 : i = 1
      BY <1>11
    <2>7. low \o more = bl
      BY <1>11, TwoMore
    <2> HIDE DEF more
    <2>8. \A i \in 1 .. Len(more) : more[i].kind = "Handler" /\ more[i].saved = None
      BY <1>6, <2>5, <2>6
    <2>9. \A i \in 1 .. Len(low), j \in 1 .. Len(more) : low[i].kind /= "Handler" => low[i].depth <= more[j].depth
      BY <1>9, <1>11, <2>6
    <2>10. \A k \in Opened(u, Guarding) : u[k].kind /= "exiting"
      BY <1>15, <2>1
    <2>11. Framed(u, low \o more, out, g, Len(low \o more)) /\ Len(low \o more) \in Nat
      BY <1>16, <2>4, <2>6, <2>8, <2>9, <2>10, LeftOnTop
    <2>12. Framed(u, bl, None, g, Len(bl)) /\ Len(bl) \in Nat
      BY <2>5, <2>7, <2>11
    <2>13. where' = u /\ ended' = ended /\ owed' = c /\ blocks' = bl /\ stack' = st /\ current' = None
      BY <1>19 DEF Goto, Set
    <2>14. IInv'
      BY <1>1, <1>7, <1>8, <2>12, <2>13, GoesOn
    <2> QED BY <1>17, <1>19, <2>14
  <1>20. CASE ReRaise(u, bl, st, current, c)
    <2>1. Throw(x.exc, low, st, out, c)
      BY <1>4, <1>13, <1>20 DEF ReRaise
    <2>2. IInv' /\ Control!Throw(x.exc, u, c)
      BY <1>4, <1>18, <2>1
    <2> QED BY <1>17, <2>2
  <1>21. CASE \E e \in Exceptions : Throw(e, bl, st, current, c)
    <2>1. PICK e \in Exceptions : Throw(e, bl, st, current, c)
      BY <1>21
    <2>2. e \in Raisable
      BY DEF Raisable
    <2>3. Len(st) \in Nat
      BY <1>8
    <2>4. \A i \in 1 .. Len(low) : low[i].kind /= "Handler" => low[i].depth <= Len(st) /\ low[i].depth <= h.depth
      <3> TAKE i \in 1 .. Len(low)
      <3> HAVE low[i].kind /= "Handler"
      <3>1. Guards(u, low[i], g)
        BY <1>8 DEF Framed
      <3>2. low[i].depth \in 0 .. Len(g)
        BY <3>1 DEF Guards
      <3>3. low[i].depth <= h.depth
        BY <1>9, <1>11
      <3> QED BY <1>8, <3>2, <3>3
    <2>5. \A i, j \in 1 .. Len(low) : i < j /\ low[i].kind /= "Handler" => low[i].depth <= low[j].depth
      BY <1>8 DEF Framed
    <2>6. Throw(e, low, st, h.saved, c)
      BY <1>6, <1>11, <2>1, <2>3, <2>4, <2>5, ThrowSkips
    <2>7. IInv' /\ Control!Throw(e, u, c)
      BY <1>6, <1>18, <2>2, <2>6
    <2> QED BY <1>17, <2>7
  <1>22. \/ Alone /\ Goto(u) /\ Set(bl, st, None) /\ owed' = c
         \/ ReRaise(u, bl, st, current, c)
         \/ \E e \in Exceptions : Throw(e, bl, st, current, c)
    BY <1>10 DEF ExitOnException, u
  <1> QED BY <1>19, <1>20, <1>21, <1>22

(***************************************************************************)
(* A jump on its way: LeaveNext.                                          *)
(***************************************************************************)
\* The loop depth that the compiler compares tells whether a region is inside the innermost loop.
LEMMA DepthTells ==
  ASSUME NEW w \in Seq(Regions), NEW k \in 1 .. Len(w), NEW t \in LoopsOf(w), \A j \in LoopsOf(w) : j <= t
  PROVE  LoopDepth(SubSeq(w, 1, k)) = LoopDepth(w) <=> t <= k
  <1> DEFINE u == SubSeq(w, 1, k)
  <1>1. Len(w) \in Nat /\ DOMAIN w = 1 .. Len(w) /\ LoopsOf(w) \subseteq 1 .. Len(w) /\ t \in 1 .. Len(w)
    BY DEF LoopsOf
  <1>2. Len(u) = k /\ DOMAIN u = 1 .. k /\ \A j \in 1 .. k : u[j] = w[j]
    BY <1>1
  <1> HIDE DEF u
  <1>3. LoopsOf(u) = {j \in LoopsOf(w) : j <= k}
    <2>1. \A j : j \in LoopsOf(u) <=> j \in LoopsOf(w) /\ j <= k
      <3>1. \A j \in 1 .. k : j \in 1 .. Len(w)
        BY <1>1
      <3>2. \A j \in 1 .. Len(w) : j <= k <=> j \in 1 .. k
        BY <1>1
      <3> QED BY <1>1, <1>2, <3>1, <3>2 DEF LoopsOf
    <2> QED BY <2>1
  <1>4. IsFiniteSet(LoopsOf(w))
    <2>1. IsFiniteSet(1 .. Len(w))
      BY <1>1, FS_Interval
    <2> QED BY <1>1, <2>1, FS_Subset
  <1>5. LoopsOf(u) \in SUBSET LoopsOf(w)
    BY <1>3
  <1>6. ASSUME LoopDepth(u) = LoopDepth(w) PROVE t <= k
    <2>1. LoopsOf(w) = LoopsOf(u)
      BY <1>4, <1>5, <1>6, FS_Subset DEF LoopDepth
    <2> QED BY <1>3, <2>1
  <1>7. ASSUME t <= k PROVE LoopDepth(u) = LoopDepth(w)
    <2>1. \A j \in LoopsOf(w) : j <= k
      BY <1>1, <1>7
    <2>2. LoopsOf(u) = LoopsOf(w)
      BY <1>3, <2>1
    <2> QED BY <2>2 DEF LoopDepth
  <1> QED BY <1>6, <1>7 DEF u

\* A break or continue under way goes to the innermost loop, open or not.
LEMMA JumpGoes ==
  ASSUME NEW w, NEW n \in Nat, Shaped(w, n), w /= <<>>, Last(w).kind \in Leaving, Last(w).jump /= "return"
  PROVE  \E t \in 1 .. (Len(w) - 1) :
            /\ LoopOf(w, Len(w), t) /\ t < Last(w).at
            /\ t \in Opened(w, Loops) /\ LastOr0(Opened(w, Loops)) = t
            /\ t \in LoopsOf(w) /\ LastOr0(LoopsOf(w)) = t
            /\ \A j \in LoopsOf(w) : j <= t
  <1>1. w \in Seq(Regions) /\ Len(w) \in Nat /\ Len(w) \in 1 .. Len(w) /\ Last(w) = w[Len(w)]
    BY DEF Shaped, Last
  <1>2. JumpFits(w, Len(w))
    BY <1>1 DEF Shaped, RegionFits
  <1>3. PICK t \in 1 .. Len(w) : LoopOf(w, Len(w), t)
    BY <1>1, <1>2 DEF JumpFits
  <1>4. /\ t \in 1 .. (Len(w) - 1) /\ w[t].kind \in Loops /\ Held(w, t, Len(w))
        /\ \A i \in (t + 1) .. Len(w) : w[i].kind \notin Loops
    BY <1>3 DEF LoopOf
  <1>5. t \in Opened(w, Loops) /\ t \in LoopsOf(w)
    BY <1>1, <1>4, OpenedHeld DEF LoopsOf
  <1>6. LoopsOf(w) \subseteq 1 .. Len(w) /\ Opened(w, Loops) \subseteq LoopsOf(w)
    BY <1>1 DEF LoopsOf, Opened
  <1>7. \A j \in LoopsOf(w) : j <= t
    <2> SUFFICES ASSUME NEW j \in LoopsOf(w), ~(j <= t) PROVE FALSE
      OBVIOUS
    <2>1. j \in (t + 1) .. Len(w)
      BY <1>1, <1>4, <1>6
    <2> QED BY <1>4, <2>1 DEF LoopsOf
  <1>8. LastOr0(LoopsOf(w)) = t
    BY <1>1, <1>5, <1>6, <1>7, GreatestIs
  <1>9. LastOr0(Opened(w, Loops)) = t
    <2>1. Opened(w, Loops) \subseteq 1 .. Len(w) /\ \A j \in Opened(w, Loops) : j <= t
      BY <1>6, <1>7
    <2> QED BY <1>1, <1>5, <2>1, GreatestIs
  <1>10. t < Last(w).at
    <2>1. Len(w) \in (t + 1) .. Len(w)
      BY <1>1, <1>4
    <2>2. w[Len(w)].at > t /\ w[Len(w)].at \in Nat
      BY <1>1, <1>4, <2>1, RegionTypes DEF Held
    <2> QED BY <1>1, <1>4, <2>2
  <1> QED BY <1>3, <1>4, <1>5, <1>7, <1>8, <1>9, <1>10

\* What UnwindFinallies emits next is the innermost construct inside the target of the jump.
LEMMA ContextNext ==
  ASSUME IInv, where /= <<>>, Last(where).kind = "jump",
         NEW k, k = LastOr0(Opened(where, Contexts))
  PROVE  NextContext(Last(where).jump) = IF k > Control!JumpTarget(Last(where).jump) THEN k ELSE 0
  <1> DEFINE n == Len(where)
             jump == Last(where).jump
  <1>1. where \in Seq(Regions) /\ Shaped(where, Len(owed)) /\ Len(owed) \in Nat /\ n \in Nat
    BY DEF IInv, Shaped, Accounted
  <1>2. Control!JumpTarget(jump) = IF jump = "return" THEN 0 ELSE LastOr0(Opened(where, Loops))
    BY SameRegions DEF Control!JumpTarget
  <1>3. k \in 0 .. n /\ (k /= 0 => k \in Opened(where, Contexts))
    <2>1. Opened(where, Contexts) \subseteq 1 .. n
      BY <1>1, OpenedIn
    <2>2. CASE Opened(where, Contexts) = {}
      BY <1>1, <2>2 DEF LastOr0
    <2>3. CASE Opened(where, Contexts) /= {}
      BY <1>1, <2>1, <2>3, Greatest
    <2> QED BY <2>2, <2>3
  <1>4. NextContext(jump) =
           IF k /= 0 /\ (jump = "return" \/ LoopDepth(SubSeq(where, 1, k)) = LoopDepth(where)) THEN k ELSE 0
    BY DEF NextContext
  <1> HIDE DEF jump, n
  <1>5. CASE jump = "return"
    BY <1>2, <1>3, <1>4, <1>5 DEF jump
  <1>6. CASE jump /= "return"
    <2>1. PICK t \in 1 .. (Len(where) - 1) :
            /\ t \in Opened(where, Loops) /\ LastOr0(Opened(where, Loops)) = t
            /\ t \in LoopsOf(where) /\ \A j \in LoopsOf(where) : j <= t
      <3>1. Last(where).kind \in Leaving
        BY DEF Leaving
      <3> QED BY <1>1, <1>6, <3>1, JumpGoes DEF jump
    <2>2. ASSUME k /= 0 PROVE (LoopDepth(SubSeq(where, 1, k)) = LoopDepth(where)) <=> k > t
      <3>1. k \in 1 .. Len(where)
        BY <1>3, <2>2 DEF n
      <3>2. (LoopDepth(SubSeq(where, 1, k)) = LoopDepth(where)) <=> t <= k
        BY <1>1, <2>1, <3>1, DepthTells
      <3>3. k /= t
        BY <1>3, <2>1, <2>2 DEF Opened, Contexts, HasCleanup, Loops
      <3> QED BY <1>1, <2>1, <3>1, <3>2, <3>3 DEF n
    <2>3. CASE k = 0
      BY <1>2, <1>4, <1>6, <2>1, <2>3 DEF jump
    <2>4. CASE k /= 0
      BY <1>2, <1>4, <1>6, <2>1, <2>2, <2>4 DEF jump
    <2> QED BY <2>3, <2>4
  <1> QED BY <1>5, <1>6
\* Region k, the innermost that a jump under way has something to do for, lies inside its target.
LeavesNext(w, k) ==
    /\ w \in Seq(Regions) /\ w /= <<>> /\ Last(w).kind = "jump"
    /\ k \in Opened(w, Contexts) /\ \A j \in Opened(w, Contexts) : j <= k
    /\ \A t \in 1 .. Len(w) : Last(w).jump /= "return" /\ LoopOf(w, Len(w), t) => t < k

\* It is open, and its jump has not left it.
LEMMA LeavesOpen ==
  ASSUME IInv, ended = Running, NEW k, LeavesNext(where, k)
  PROVE  /\ k \in 1 .. (Len(where) - 1) /\ k < Last(where).at /\ k \in 1 .. Last(where).at
         /\ Len(where) \in Nat /\ Last(where).at \in 1 .. Len(where)
         /\ k \in 1 .. Len(where) /\ where[k].kind \in Contexts
         /\ \A j \in 1 .. Len(where) : where[j].kind \notin {"clauses", "exiting"}
  <1>1. where \in Seq(Regions) /\ where /= <<>> /\ Last(where).kind = "jump" /\ k \in Opened(where, Contexts)
    BY DEF LeavesNext
  <1>2. Shaped(where, Len(owed)) /\ Len(where) \in Nat /\ Len(where) \in 1 .. Len(where) /\ Last(where) = where[Len(where)]
    BY <1>1 DEF IInv, Last
  <1>3. Last(where).kind \in Leaving /\ Contexts \cap Leaving = {}
    BY <1>1 DEF Leaving, Contexts, HasCleanup
  <1>4. k < Last(where).at /\ k \in 1 .. (Len(where) - 1)
    BY <1>1, <1>3, BelowJump
  <1>5. JumpFits(where, Len(where))
    BY <1>2, <1>3 DEF Shaped, RegionFits
  <1>6. Last(where).at \in 1 .. Len(where)
    BY <1>2, <1>5 DEF JumpFits
  <1>7. where[k].kind \in Contexts
    BY <1>1 DEF Opened
  <1>8. \A j \in 1 .. Len(where) : where[j].kind \in Brief => j = Len(where)
    BY <1>2 DEF Shaped
  <1>9. \A j \in 1 .. Len(where) : where[j].kind \notin {"clauses", "exiting"}
    BY <1>1, <1>2, <1>8 DEF Brief
  <1> QED BY <1>2, <1>4, <1>6, <1>7, <1>9

\* Every block that belongs to a region is of a region up to it.
LEMMA LeavesInnermost ==
  ASSUME IInv, ended = Running, NEW k, LeavesNext(where, k), ~Abandoned(where)
  PROVE  \A j \in Opened(where, Guarding) \cup Opened(where, Handling) : j <= k
  <1> DEFINE n == Len(where)
  <1>1. /\ k \in 1 .. (n - 1) /\ n \in Nat
        /\ \A j \in 1 .. n : where[j].kind \notin {"clauses", "exiting"}
    BY LeavesOpen
  <1>2. /\ where \in Seq(Regions) /\ where /= <<>> /\ Last(where).kind = "jump"
        /\ \A j \in Opened(where, Contexts) : j <= k
        /\ \A t \in 1 .. n : Last(where).jump /= "return" /\ LoopOf(where, n, t) => t < k
    BY DEF LeavesNext
  <1>3. Shaped(where, Len(owed)) /\ n \in 1 .. n /\ Last(where) = where[n] /\ Last(where).kind \in Leaving
    BY <1>1, <1>2 DEF IInv, Last, Leaving
  <1>4. JumpFits(where, n)
    BY <1>3 DEF Shaped, RegionFits
  <1> HIDE DEF n
  <1>5. ASSUME NEW j \in Opened(where, {"try"})
        PROVE  j <= k
    <2>1. j \in 1 .. (n - 1)
      <3>1. {"try"} \cap Leaving = {}
        BY DEF Leaving
      <3> QED BY <1>2, <1>3, <3>1, BelowJump DEF n
    <2>2. where[j].kind = "try" /\ Held(where, j, n)
      BY <1>2, OpenedHeld DEF n
    <2>3. CASE Last(where).jump = "return"
      <3>1. PICK c \in Opened(where, HasCleanup) : TRUE
        BY <1>2, <2>3 DEF Abandoned
      <3>2. c \in 1 .. (n - 1)
        <4>1. HasCleanup \cap Leaving = {}
          BY DEF Leaving, HasCleanup
        <4> QED BY <1>2, <1>3, <4>1, BelowJump DEF n
      <3>3. where[c].kind \in HasCleanup /\ Held(where, c, n)
        BY <1>2, OpenedHeld DEF n
      <3>4. CrossesNoTry(where, n)
        BY <1>3, <1>4, <2>3 DEF JumpFits
      <3>5. j < c
        BY <2>1, <2>2, <3>2, <3>3, <3>4 DEF CrossesNoTry
      <3>6. c \in Opened(where, Contexts)
        BY DEF Opened, Contexts
      <3> QED BY <1>1, <1>2, <2>1, <3>2, <3>5, <3>6
    <2>4. CASE Last(where).jump /= "return"
      <3>1. PICK t \in 1 .. n : LoopOf(where, n, t)
        BY <1>3, <1>4, <2>4 DEF JumpFits
      <3>2. t < k
        BY <1>2, <2>4, <3>1
      <3>3. ~(j \in (t + 1) .. n)
        BY <2>2, <3>1 DEF LoopOf
      <3> QED BY <1>1, <2>1, <3>2, <3>3
    <2> QED BY <2>3, <2>4
  <1>6. ASSUME NEW j \in Opened(where, Guarding) \cup Opened(where, Handling)
        PROVE  j \in Opened(where, {"try"}) \/ j \in Opened(where, Contexts)
    <2>1. j \in DOMAIN where /\ Active(where, j) /\ where[j].kind \in Guarding \cup Handling
      BY DEF Opened
    <2>2. j \in 1 .. n
      BY <1>2, <2>1 DEF n
    <2>3. where[j].kind \in {"try"} \cup Contexts
      BY <1>1, <2>1, <2>2 DEF Guarding, Handling, Protected, Contexts, HasCleanup
    <2> QED BY <2>1, <2>3 DEF Opened
  <1> QED BY <1>2, <1>5, <1>6

\* So is every cleanup.
LEMMA LeavesCleanups ==
  ASSUME IInv, ended = Running, NEW k, LeavesNext(where, k)
  PROVE  \A j \in Opened(where, HasCleanup \cup {"exiting"}) : j <= k /\ j \in Opened(where, HasCleanup)
  <1>1. /\ where \in Seq(Regions)
        /\ \A j \in Opened(where, Contexts) : j <= k
    BY DEF LeavesNext
  <1>2. \A j \in 1 .. Len(where) : where[j].kind \notin {"clauses", "exiting"}
    BY LeavesOpen
  <1> SUFFICES ASSUME NEW j \in Opened(where, HasCleanup \cup {"exiting"})
               PROVE  j <= k /\ j \in Opened(where, HasCleanup)
    OBVIOUS
  <1>3. j \in DOMAIN where /\ Active(where, j) /\ where[j].kind \in HasCleanup \cup {"exiting"}
    BY DEF Opened
  <1>4. where[j].kind \in HasCleanup
    BY <1>1, <1>2, <1>3
  <1>5. j \in Opened(where, HasCleanup) /\ j \in Opened(where, Contexts)
    BY <1>3, <1>4 DEF Opened, Contexts
  <1> QED BY <1>1, <1>5
\* The records that UnwindFinallies makes of a jump.
LEMMA JumpRecord ==
  ASSUME NEW j \in Regions, j.kind = "jump", NEW k
  PROVE  /\ [j EXCEPT !.at = k] = [j EXCEPT !.kind = "jump", !.at = k]
         /\ [[j EXCEPT !.at = k] EXCEPT !.kind = "leave"] = [j EXCEPT !.kind = "leave", !.at = k]
  BY DEF Regions

\* A running handler, or a finally body with an exception in flight, is left: EndHandler.
LEMMA HandlerLeft ==
  ASSUME IInv, ended = Running, NEW k, LeavesNext(where, k), ~Abandoned(where),
         where[k].kind \in {"handler", "cleanup"},
         Goto(Become(where, [Last(where) EXCEPT !.at = k])),
         Set(WithoutHandler(blocks), stack, Restored(blocks)), owed' = owed
  PROVE  IInv'
  <1> DEFINE v == Become(where, [Last(where) EXCEPT !.kind = "jump", !.at = k])
             q == Len(blocks) - 1
             CL == HasCleanup \cup {"exiting"}
  <1>1. /\ where \in Seq(Regions) /\ where /= <<>> /\ Last(where).kind = "jump" /\ k \in Opened(where, Contexts)
        /\ \A t \in 1 .. Len(where) : Last(where).jump /= "return" /\ LoopOf(where, Len(where), t) => t < k
    BY DEF LeavesNext
  <1>2. /\ k \in 1 .. Last(where).at /\ Last(where).at \in 1 .. Len(where) /\ k \in 1 .. Len(where) /\ k \in Nat
        /\ Len(where) \in Nat /\ Len(where) \in 1 .. Len(where)
    BY LeavesOpen
  <1>3. Last(where).kind \in Leaving /\ "jump" \in Leaving /\ Last(where) \in Regions
    BY <1>1, <1>2 DEF Leaving, Last
  <1>4. PICK f \in Seq(Nat), p \in Nat : Valued(where, stack, f) /\ Framed(where, blocks, current, f, p)
    BY Standing
  <1>5. k \in Opened(where, {"try", "guard", "clauses", "handler", "cleanup"}) /\ where[k].kind \in Handling
    BY <1>1 DEF Opened, Handling
  <1>6. \A j \in Opened(where, Guarding) \cup Opened(where, Handling) : j <= k
    BY ONLY IInv, ended = Running, LeavesNext(where, k), ~Abandoned(where), LeavesInnermost, Zenon
  <1>7. /\ Len(blocks) \in Nat \ {0} /\ blocks[Len(blocks)].kind = "Handler"
        /\ \A i \in 1 .. Len(blocks) : Proper(blocks, p, i) => (i <= Len(blocks) - 1 <=> At(blocks[i]) < k)
        /\ blocks[Len(blocks)].saved = Outer(where, k)
    BY <1>1, <1>4, <1>5, <1>6, TopBlock
  <1>8. WithoutHandler(blocks) = SubSeq(blocks, 1, q) /\ Restored(blocks) = Outer(where, k) /\ q \in 0 .. Len(blocks)
    <2>1. blocks /= <<>> /\ blocks \in Seq(BlockSet)
      BY <1>7 DEF IInv
    <2> QED BY <1>7, <2>1 DEF WithoutHandler, Restored, HandlerOnTop, Last, Front
  <1>9. \A j \in Opened(where, {"with"}) : j < k
    <2>1. \A j \in Opened(where, {"with"}) : j \in Opened(where, Guarding) /\ where[j].kind = "with" /\ j \in 1 .. Len(where)
      BY <1>1 DEF Opened, Guarding, Protected
    <2>2. \A j \in Opened(where, {"with"}) : j <= k /\ j /= k /\ j \in Nat
      BY <1>6, <2>1
    <2> QED BY <1>2, <2>2
  <1>10. Moves(where, v, "jump", k)
    BY <1>1, <1>2, <1>3 DEF Moves
  <1>11. Accounted(v, owed)
    <2>1. /\ Opened(v, CL) = {j \in Opened(where, CL) : j < k}
          /\ \A j \in Opened(v, CL) : v[j].id = where[j].id
      BY <1>10, MovedCleanups
    <2>2. \A j \in Opened(where, CL) : j < k
      <3>1. \A j \in Opened(where, CL) : j <= k /\ where[j].kind \in CL /\ j \in 1 .. Len(where)
        BY <1>1, LeavesCleanups DEF Opened
      <3>2. where[k].kind \notin CL
        BY DEF HasCleanup
      <3>3. \A j \in Opened(where, CL) : j <= k /\ j /= k /\ j \in Nat
        BY <3>1, <3>2
      <3> QED BY <1>2, <3>3
    <2>3. Accounted(where, owed)
      BY ONLY IInv, Zenon DEF IInv
    <2> HIDE DEF v
    <2> QED BY <2>1, <2>2, <2>3, AccountedCut
  <1>12. v = Become(where, [Last(where) EXCEPT !.at = k])
    BY <1>1, <1>3, JumpRecord
  <1>13. /\ Goto(v) /\ owed' = owed /\ blocks' = SubSeq(blocks, 1, q) /\ stack' = stack
         /\ current' = Outer(where, k)
    BY <1>8, <1>12 DEF Set
  <1>14. v = Become(where, [Last(where) EXCEPT !.kind = "jump", !.at = k])
    OBVIOUS
  <1>15. \A i \in 1 .. Len(blocks) : Proper(blocks, p, i) => (i <= q <=> At(blocks[i]) < k)
    BY <1>7
  <1> HIDE DEF v, q
  <1> QED BY <1>1, <1>2, <1>3, <1>4, <1>8, <1>9, <1>11, <1>13, <1>14, <1>15, MovedKeeps

\* A body that a finally guards is left: its finally body runs.
LEMMA GuardLeft ==
  ASSUME IInv, ended = Running, NEW k, LeavesNext(where, k), ~Abandoned(where),
         where[k].kind = "guard",
         Goto(Become(where, [[Last(where) EXCEPT !.at = k] EXCEPT !.kind = "leave"])),
         Set(PopFrom(blocks), stack, current), owed' = Paid(owed, where[k].id)
  PROVE  IInv'
  <1> DEFINE v == Become(where, [Last(where) EXCEPT !.kind = "leave", !.at = k])
             q == Len(blocks) - 1
             c == Paid(owed, where[k].id)
             CL == HasCleanup \cup {"exiting"}
  <1>1. /\ where \in Seq(Regions) /\ where /= <<>> /\ Last(where).kind = "jump" /\ k \in Opened(where, Contexts)
        /\ \A t \in 1 .. Len(where) : Last(where).jump /= "return" /\ LoopOf(where, Len(where), t) => t < k
    BY DEF LeavesNext
  <1>2. /\ k \in 1 .. Last(where).at /\ Last(where).at \in 1 .. Len(where) /\ k \in 1 .. Len(where) /\ k \in Nat
        /\ Len(where) \in Nat /\ Len(where) \in 1 .. Len(where)
    BY LeavesOpen
  <1>3. Last(where).kind \in Leaving /\ "leave" \in Leaving /\ Last(where) \in Regions
    BY <1>1, <1>2 DEF Leaving, Last
  <1>4. PICK f \in Seq(Nat), p \in Nat : Valued(where, stack, f) /\ Framed(where, blocks, current, f, p)
    BY Standing
  <1>5. k \in Opened(where, {"try", "guard", "clauses", "handler", "cleanup"}) /\ k \in Opened(where, CL)
    BY <1>1 DEF Opened, HasCleanup
  <1>6. \A j \in Opened(where, Guarding) \cup Opened(where, Handling) : j <= k
    BY ONLY IInv, ended = Running, LeavesNext(where, k), ~Abandoned(where), LeavesInnermost, Zenon
  <1>7. /\ Len(blocks) \in Nat \ {0}
        /\ \A i \in 1 .. Len(blocks) : Proper(blocks, p, i) => (i <= Len(blocks) - 1 <=> At(blocks[i]) < k)
    BY <1>1, <1>4, <1>5, <1>6, TopBlock
  <1>8. PopFrom(blocks) = SubSeq(blocks, 1, q) /\ q \in 0 .. Len(blocks)
    <2>1. blocks /= <<>> /\ blocks \in Seq(BlockSet)
      BY <1>7 DEF IInv
    <2> QED BY <1>7, <2>1 DEF PopFrom, Front
  <1>9. \A j \in Opened(where, {"with"}) \cup Opened(where, Handling) : j < k
    <2>1. \A j \in Opened(where, {"with"}) \cup Opened(where, Handling) :
             /\ j \in Opened(where, Guarding) \cup Opened(where, Handling)
             /\ where[j].kind \in {"with"} \cup Handling /\ j \in 1 .. Len(where)
      BY <1>1 DEF Opened, Guarding, Protected
    <2>2. \A j \in Opened(where, {"with"}) \cup Opened(where, Handling) : j <= k /\ j /= k /\ j \in Nat
      BY <1>6, <2>1 DEF Handling
    <2> QED BY <1>2, <2>2
  <1>10. Moves(where, v, "leave", k)
    BY <1>1, <1>2, <1>3 DEF Moves
  <1>11. Accounted(v, c) /\ Len(c) = Len(owed)
    <2>1. /\ Opened(v, CL) = {j \in Opened(where, CL) : j < k}
          /\ \A j \in Opened(v, CL) : v[j].id = where[j].id
      BY <1>10, MovedCleanups
    <2>2. \A j \in Opened(where, CL) : j <= k
      BY LeavesCleanups
    <2>3. Accounted(where, owed) /\ Shaped(where, Len(owed))
      BY DEF IInv
    <2> HIDE DEF v
    <2>4. /\ where \in Seq(Regions) /\ k \in Opened(where, HasCleanup \cup {"exiting"})
          /\ Opened(v, HasCleanup \cup {"exiting"}) = {j \in Opened(where, HasCleanup \cup {"exiting"}) : j < k}
          /\ (\A j \in Opened(where, HasCleanup \cup {"exiting"}) : j <= k)
          /\ (\A j \in Opened(v, HasCleanup \cup {"exiting"}) : v[j].id = where[j].id)
      BY <1>1, <1>5, <2>1, <2>2
    <2>5. Accounted(v, Paid(owed, where[k].id))
      BY ONLY <2>3, <2>4, PaidCut
    <2>6. Len(Paid(owed, where[k].id)) = Len(owed)
      BY <2>3 DEF Accounted, Paid
    <2> QED BY <2>5, <2>6
  <1>12. v = Become(where, [[Last(where) EXCEPT !.at = k] EXCEPT !.kind = "leave"])
    BY <1>1, <1>3, JumpRecord
  <1>13. current = Outer(where, k)
    BY <1>1, <1>2, <1>4, <1>9, CurrentAt
  <1>14. /\ Goto(v) /\ owed' = c /\ blocks' = SubSeq(blocks, 1, q) /\ stack' = stack
         /\ current' = Outer(where, k)
    BY <1>8, <1>12, <1>13 DEF Set
  <1>15. v = Become(where, [Last(where) EXCEPT !.kind = "leave", !.at = k])
    OBVIOUS
  <1>16. \A i \in 1 .. Len(blocks) : Proper(blocks, p, i) => (i <= q <=> At(blocks[i]) < k)
    BY <1>7
  <1>17. \A j \in Opened(where, {"with"}) : j < k
    BY <1>9
  <1> HIDE DEF v, q, c
  <1> QED BY <1>1, <1>2, <1>3, <1>4, <1>8, <1>11, <1>14, <1>15, <1>16, <1>17, MovedKeeps

\* The body of a with is left: its manager's exit runs.
LEMMA WithLeft ==
  ASSUME IInv, ended = Running, NEW k, LeavesNext(where, k), ~Abandoned(where),
         where[k].kind = "with",
         NEW v, v = Become(where, [Last(where) EXCEPT !.at = k]), ExitWith(v)
  PROVE  /\ IInv'
         /\ \/ Control!Goto(v) /\ owed' = Control!Paid(owed, where[k].id)
            \/ \E e \in Exceptions : Control!Throw(e, v, Control!Paid(owed, where[k].id))
  <1> DEFINE n == Len(where)
             CL == HasCleanup \cup {"exiting"}
  <1>1. /\ where \in Seq(Regions) /\ where /= <<>> /\ Last(where).kind = "jump" /\ k \in Opened(where, Contexts)
        /\ \A t \in 1 .. n : Last(where).jump /= "return" /\ LoopOf(where, n, t) => t < k
    BY DEF LeavesNext
  <1>2. /\ k \in 1 .. Last(where).at /\ Last(where).at \in 1 .. n /\ k \in 1 .. n /\ k \in Nat
        /\ n \in Nat /\ n \in 1 .. n /\ k \in 1 .. (n - 1)
        /\ \A j \in 1 .. n : where[j].kind \notin {"clauses", "exiting"}
    BY LeavesOpen
  <1>3. Last(where).kind \in Leaving /\ "jump" \in Leaving /\ Last(where) \in Regions
    BY <1>1, <1>2 DEF Leaving, Last
  <1>4. k \in Opened(where, {"with"})
    BY <1>1 DEF Opened
  <1>5. \A j \in Opened(where, Guarding) \cup Opened(where, Handling) : j <= k
    BY ONLY IInv, ended = Running, LeavesNext(where, k), ~Abandoned(where), LeavesInnermost, Zenon
  <1>6. v = Become(where, [Last(where) EXCEPT !.kind = "jump", !.at = k])
    BY <1>1, <1>3, JumpRecord
  <1>7. Moves(where, v, "jump", k)
    BY <1>1, <1>2, <1>3, <1>6 DEF Moves
  <1>8. MoveLeaves(where, v, "jump", k)
    BY <1>7, Moved
  <1>9. Shaped(v, Len(owed))
    <2>1. Shaped(where, Len(owed)) /\ Len(owed) \in Nat
      BY DEF IInv, Accounted
    <2> HIDE DEF n
    <2>2. \A t \in 1 .. Len(where) : Last(where).jump /= "return" /\ LoopOf(where, Len(where), t) => t < k
      BY <1>1 DEF n
    <2> QED BY <1>1, <1>2, <1>3, <1>6, <2>1, <2>2, ShapedMoved
  <1>10. /\ Len(v) = n /\ v[n].kind = "jump" /\ \A j \in 1 .. (n - 1) : v[j] = where[j]
    BY <1>8 DEF MoveLeaves
  <1>11. Holding(v) = {j \in Holding(where) : where[j].kind = "with" => j < k}
    BY <1>8 DEF MoveLeaves
  <1>12. Below(where, v, k)
    BY <1>8 DEF MoveLeaves
  <1> HIDE DEF n
  <1>13. \A j \in 1 .. n : j \in 1 .. (n - 1) \/ j = n
    BY <1>2
  <1>14. \A j \in Holding(where) : j \in 1 .. n
    BY <1>1 DEF Holding, n
  <1>15. Holding(v) = Holding(where) \ {k}
    <2>1. \A j \in Holding(where) : where[j].kind = "with" => j \in Opened(where, Guarding)
      BY DEF Holding, Opened, Guarding, Protected, Leaving
    <2>2. \A j \in Holding(where) : (where[j].kind = "with" => j < k) <=> j /= k
      BY <1>2, <1>5, <1>14, <2>1
    <2> QED BY <1>11, <2>2
  <1>16. \A j \in Holding(v) : ValueOf(v[j]) = ValueOf(where[j])
    <2>1. ValueOf(v[n]) = Value("result", 0) /\ ValueOf(where[n]) = Value("result", 0)
      BY <1>1, <1>10 DEF ValueOf, Last, n
    <2> QED BY <1>10, <1>13, <1>14, <1>15, <2>1
  <1>17. \A j \in 1 .. Len(v) : v[j].kind /= "exiting"
    BY <1>2, <1>10, <1>13 DEF n
  <1>18. Opened(v, CL) = {j \in Opened(where, CL) : j < k}
    BY <1>7, MovedCleanups
  <1>19. \A j \in 1 .. (k - 1) : where[j].kind /= "exiting"
    BY <1>2 DEF n
  <1> QED BY <1>4, <1>5, <1>9, <1>12, <1>15, <1>16, <1>17, <1>18, <1>19, ExitKeeps

\* A return whose cleanups are done still ends the handlers around it; the blocks count no more.
LEMMA AbandonedLeft ==
  ASSUME IInv, ended = Running, NEW k, LeavesNext(where, k), Abandoned(where),
         Goto(Become(where, [Last(where) EXCEPT !.at = k])),
         Set(WithoutHandler(blocks), stack, Restored(blocks)), owed' = owed
  PROVE  IInv'
  <1> DEFINE v == Become(where, [Last(where) EXCEPT !.kind = "jump", !.at = k])
             n == Len(where)
             CL == HasCleanup \cup {"exiting"}
  <1>1. /\ where \in Seq(Regions) /\ where /= <<>> /\ Last(where).kind = "jump" /\ k \in Opened(where, Contexts)
        /\ \A t \in 1 .. n : Last(where).jump /= "return" /\ LoopOf(where, n, t) => t < k
    BY DEF LeavesNext
  <1>2. /\ k \in 1 .. Last(where).at /\ Last(where).at \in 1 .. n /\ k \in 1 .. n /\ k \in Nat
        /\ n \in Nat /\ n \in 1 .. n
    BY LeavesOpen
  <1>3. Last(where).kind \in Leaving /\ "jump" \in Leaving /\ Last(where) \in Regions
    BY <1>1, <1>2 DEF Leaving, Last
  <1>4. Opened(where, HasCleanup) = {} /\ Last(where).jump = "return"
    BY DEF Abandoned
  <1>5. Opened(where, CL) = {}
    BY <1>4, LeavesCleanups
  <1>6. Moves(where, v, "jump", k)
    BY <1>1, <1>2, <1>3 DEF Moves
  <1>7. MoveLeaves(where, v, "jump", k)
    BY <1>6, Moved
  <1>8. /\ v \in Seq(Regions) /\ Len(v) = n /\ v[n].kind = "jump" /\ v[n].jump = "return"
        /\ \A j \in 1 .. (n - 1) : v[j] = where[j]
        /\ Opened(v, HasCleanup) = {}
    <2>1. /\ v \in Seq(Regions) /\ Len(v) = n /\ v[n].kind = "jump" /\ v[n].jump = Last(where).jump
          /\ \A j \in 1 .. (n - 1) : v[j] = where[j]
      BY <1>7 DEF MoveLeaves
    <2>2. Opened(v, HasCleanup) = {j \in Opened(where, HasCleanup) : j < k}
      <3>1. HasCleanup \cap Leaving = {}
        BY DEF HasCleanup, Leaving
      <3> QED BY <1>7, <3>1 DEF MoveLeaves
    <2> HIDE DEF v, n
    <2> QED BY <1>4, <2>1, <2>2
  <1>9. Accounted(v, owed)
    <2>1. /\ Opened(v, CL) = {j \in Opened(where, CL) : j < k}
          /\ \A j \in Opened(v, CL) : v[j].id = where[j].id
      BY <1>6, MovedCleanups
    <2>2. Opened(v, CL) = Opened(where, CL)
      BY <1>5, <2>1
    <2>3. Cleanups(v) = Cleanups(where)
      BY <1>5, <2>2 DEF Cleanups
    <2>4. Accounted(where, owed)
      BY DEF IInv
    <2> HIDE DEF v
    <2> QED BY <2>3, <2>4, AccountedSame
  <1>10. Shaped(where, Len(owed)) /\ Len(owed) \in Nat
    BY DEF IInv, Accounted
  <1>11. v = Become(where, [Last(where) EXCEPT !.at = k])
    BY <1>1, <1>3, JumpRecord
  <1>12. Shaped(v, Len(owed))
    <2>1. v = Become(where, [Last(where) EXCEPT !.kind = "jump", !.at = k])
      OBVIOUS
    <2> HIDE DEF v
    <2> QED BY <1>1, <1>2, <1>3, <1>10, <2>1, ShapedMoved
  <1>13. Holding(v) = {j \in Holding(where) : where[j].kind = "with" => j < k}
    BY <1>7 DEF MoveLeaves
  <1>14. PICK f : Valued(where, stack, f)
    BY DEF IInv, Stacked
  <1> HIDE DEF v, n
  <1>15. Valued(v, stack, f)
    <2>1. \A j \in Holding(where) : j \in 1 .. n
      BY <1>1 DEF Holding, n
    <2>2. \A j \in Holding(where) : where[j].kind = "with" => j \in Opened(where, HasCleanup)
      BY DEF Holding, Opened, HasCleanup, Leaving
    <2>3. Holding(v) = Holding(where)
      BY <1>4, <1>13, <2>2
    <2>4. ValueOf(v[n]) = Value("result", 0) /\ ValueOf(where[n]) = Value("result", 0)
      BY <1>1, <1>8 DEF ValueOf, Last, n
    <2>5. \A j \in 1 .. n : j \in 1 .. (n - 1) \/ j = n
      BY <1>2
    <2>6. \A j \in Holding(where) : ValueOf(v[j]) = ValueOf(where[j])
      BY <1>8, <2>1, <2>4, <2>5
    <2> QED BY <1>14, <2>3, <2>6, ValuedSame
  <1>16. Abandoned(v)
    <2>1. v /= <<>> /\ Last(v) = v[n]
      BY <1>2, <1>8 DEF Last
    <2> QED BY <1>8, <2>1 DEF Abandoned
  <1>17. WithoutHandler(blocks) \in Seq(BlockSet) /\ Restored(blocks) \in Raisable \cup {None}
    <2>1. blocks \in Seq(BlockSet)
      BY DEF IInv
    <2>2. CASE HandlerOnTop(blocks)
      <3>1. blocks /= <<>> /\ Len(blocks) \in Nat /\ Len(blocks) \in 1 .. Len(blocks)
        BY <2>1, <2>2 DEF HandlerOnTop
      <3>2. blocks[Len(blocks)] \in BlockSet /\ Last(blocks) = blocks[Len(blocks)]
        BY <2>1, <3>1 DEF Last
      <3>3. SubSeq(blocks, 1, Len(blocks) - 1) \in Seq(BlockSet)
        BY <2>1, <3>1
      <3> QED BY <2>2, <3>2, <3>3 DEF WithoutHandler, Restored, BlockSet, Front
    <2>3. CASE ~HandlerOnTop(blocks)
      BY <2>1, <2>3 DEF WithoutHandler, Restored
    <2> QED BY <2>2, <2>3
  <1>18. /\ where' = v /\ ended' = ended /\ owed' = owed /\ blocks' = WithoutHandler(blocks)
         /\ stack' = stack /\ current' = Restored(blocks)
    BY <1>11 DEF Goto, Set
  <1>19. Stacked(v, WithoutHandler(blocks), stack, Restored(blocks))
    BY <1>15, <1>16 DEF Stacked
  <1>20. ended \in Endings
    BY DEF IInv
  <1> QED BY <1>9, <1>12, <1>17, <1>18, <1>19, <1>20 DEF IInv
\* The region that UnwindFinallies leaves next.
LEMMA NextLeaves ==
  ASSUME IInv, where /= <<>>, Last(where).kind = "jump", NEW k, k = NextContext(Last(where).jump), k /= 0
  PROVE  /\ LeavesNext(where, k)
         /\ k = LastOr0(Opened(where, Contexts)) /\ k > Control!JumpTarget(Last(where).jump)
  <1>1. where \in Seq(Regions) /\ Shaped(where, Len(owed)) /\ Len(owed) \in Nat /\ Len(where) \in Nat
    BY DEF IInv, Shaped, Accounted
  <1>2. k = LastOr0(Opened(where, Contexts)) /\ k > Control!JumpTarget(Last(where).jump)
    <2> DEFINE g == LastOr0(Opened(where, Contexts))
    <2>1. g = LastOr0(Opened(where, Contexts))
      OBVIOUS
    <2> HIDE DEF g
    <2>2. NextContext(Last(where).jump) = IF g > Control!JumpTarget(Last(where).jump) THEN g ELSE 0
      BY <2>1, ContextNext
    <2> QED BY <2>1, <2>2
  <1>3. k \in Opened(where, Contexts) /\ \A j \in Opened(where, Contexts) : j <= k
    <2>1. Opened(where, Contexts) \subseteq 1 .. Len(where)
      BY <1>1, OpenedIn
    <2>2. Opened(where, Contexts) /= {}
      BY <1>2 DEF LastOr0
    <2> QED BY <1>1, <1>2, <2>1, <2>2, Greatest
  <1>4. ASSUME NEW t \in 1 .. Len(where), Last(where).jump /= "return", LoopOf(where, Len(where), t)
        PROVE  t < k
    <2>1. PICK u \in 1 .. (Len(where) - 1) :
            LastOr0(Opened(where, Loops)) = u /\ \A j \in LoopsOf(where) : j <= u
      <3>1. Last(where).kind \in Leaving
        BY DEF Leaving
      <3> QED BY <1>1, <1>4, <3>1, JumpGoes
    <2>2. t \in LoopsOf(where)
      BY <1>1, <1>4 DEF LoopOf, LoopsOf
    <2>3. Control!JumpTarget(Last(where).jump) = u
      BY <1>4, <2>1, SameRegions DEF Control!JumpTarget
    <2>4. k \in 1 .. Len(where)
      BY <1>1, <1>3, OpenedIn
    <2> QED BY <1>2, <2>1, <2>2, <2>3, <2>4
  <1> QED BY <1>1, <1>2, <1>3, <1>4 DEF LeavesNext

\* The jump leaves one construct.
LEMMA UnwindNextKeeps ==
  ASSUME IInv, ended = Running, where /= <<>>, Last(where).kind = "jump", UnwindNext
  PROVE  IInv' /\ Control!LeaveNext
  <1> DEFINE j == Last(where)
             k == NextContext(j.jump)
             r == [j EXCEPT !.at = k]
  <1>1. k /= 0
    BY DEF UnwindNext
  <1>2. /\ LeavesNext(where, k)
        /\ k = LastOr0(Opened(where, Contexts)) /\ k > Control!JumpTarget(j.jump)
    <2> HIDE DEF k
    <2>1. k = NextContext(Last(where).jump)
      BY DEF k
    <2> QED BY <1>1, <2>1, NextLeaves
  <1>3. \/ /\ where[k].kind \in {"handler", "cleanup"}
           /\ Goto(Become(where, r))
           /\ Set(WithoutHandler(blocks), stack, Restored(blocks))
           /\ UNCHANGED owed
        \/ /\ where[k].kind = "guard"
           /\ Goto(Become(where, [r EXCEPT !.kind = "leave"]))
           /\ Set(PopFrom(blocks), stack, current)
           /\ owed' = Paid(owed, where[k].id)
        \/ where[k].kind = "with" /\ ExitWith(Become(where, r))
    BY DEF UnwindNext
  <1>4. /\ where[k].kind \in {"handler", "cleanup"} =>
              (Goto(Become(where, r)) /\ UNCHANGED owed => Control!LeaveNext)
        /\ where[k].kind = "guard" =>
              (Goto(Become(where, [r EXCEPT !.kind = "leave"])) /\ owed' = Paid(owed, where[k].id)
                 => Control!LeaveNext)
        /\ where[k].kind = "with" =>
              ((\/ Goto(Become(where, r)) /\ owed' = Paid(owed, where[k].id)
                \/ \E e \in Exceptions : Control!Throw(e, Become(where, r), Paid(owed, where[k].id)))
                 => Control!LeaveNext)
    <2>1. \A x : Control!Goto(x) <=> Goto(x)
      BY DEF Control!Goto, Goto
    <2>2. k = Control!LastOr0(Control!Opened(where, Control!Contexts)) /\ Control!Last(where) = j
      BY <1>2, SameRegions
    <2> HIDE DEF k, r
    <2>3. k > Control!JumpTarget(Control!Last(where).jump)
      BY <1>2, <2>2
    <2>4. ended = Control!Running /\ where /= <<>> /\ Control!Last(where).kind = "jump"
      BY <2>2, SameRegions
    <2>5. \A x : Control!Become(where, x) = Become(where, x)
      BY SameRegions
    <2>6. \A id : Control!Paid(owed, id) = Paid(owed, id)
      BY SameRegions
    <2>7. r = [Control!Last(where) EXCEPT !.at = k]
      BY <2>2 DEF r
    <2> DEFINE u == [Control!Last(where) EXCEPT !.at = k]
               c == Control!Paid(owed, where[k].id)
    <2>8. where[k].kind \in {"handler", "cleanup"} /\ Control!Goto(Control!Become(where, u)) /\ UNCHANGED owed
             => Control!LeaveNext
      BY <2>2, <2>3, <2>4, Zenon DEF Control!LeaveNext
    <2>9. where[k].kind = "guard" /\ Control!Goto(Control!Become(where, [u EXCEPT !.kind = "leave"])) /\ owed' = c
             => Control!LeaveNext
      BY <2>2, <2>3, <2>4, Zenon DEF Control!LeaveNext
    <2>10. (/\ where[k].kind = "with"
            /\ \/ Control!Goto(Control!Become(where, u)) /\ owed' = c
               \/ \E e \in Exceptions : Control!Throw(e, Control!Become(where, u), c))
             => Control!LeaveNext
      BY <2>2, <2>3, <2>4, Zenon DEF Control!LeaveNext
    <2> QED BY <2>1, <2>5, <2>6, <2>7, <2>8, <2>9, <2>10, Zenon
  <1>5. Abandoned(where) => where[k].kind \in {"handler", "cleanup"}
    <2> HIDE DEF k
    <2>1. k \in Opened(where, Contexts)
      BY <1>2 DEF LeavesNext
    <2>2. Abandoned(where) => k \notin Opened(where, HasCleanup)
      BY DEF Abandoned
    <2> QED BY <2>1, <2>2 DEF Opened, Contexts
  <1> HIDE DEF k
  <1>6. CASE where[k].kind \in {"handler", "cleanup"}
    <2>1. Goto(Become(where, r)) /\ Set(WithoutHandler(blocks), stack, Restored(blocks)) /\ owed' = owed
      BY <1>3, <1>6
    <2>2. Control!LeaveNext
      BY <1>4, <1>6, <2>1
    <2>3. Goto(Become(where, [Last(where) EXCEPT !.at = k]))
      BY <2>1
    <2>4. CASE Abandoned(where)
      BY <1>2, <2>1, <2>2, <2>3, <2>4, AbandonedLeft
    <2>5. CASE ~Abandoned(where)
      BY <1>2, <1>6, <2>1, <2>2, <2>3, <2>5, HandlerLeft
    <2> QED BY <2>4, <2>5
  <1>7. CASE where[k].kind = "guard"
    <2>1. /\ Goto(Become(where, [r EXCEPT !.kind = "leave"]))
          /\ Set(PopFrom(blocks), stack, current) /\ owed' = Paid(owed, where[k].id)
      BY <1>3, <1>7
    <2>2. Control!LeaveNext
      BY <1>4, <1>7, <2>1
    <2>3. Goto(Become(where, [[Last(where) EXCEPT !.at = k] EXCEPT !.kind = "leave"]))
      BY <2>1
    <2>4. ~Abandoned(where)
      BY <1>5, <1>7
    <2> QED BY <1>2, <1>7, <2>1, <2>2, <2>3, <2>4, GuardLeft
  <1>8. CASE where[k].kind = "with"
    <2> DEFINE v == Become(where, r)
    <2>1. ExitWith(v) /\ v = Become(where, [Last(where) EXCEPT !.at = k])
      BY <1>3, <1>8
    <2>2. ~Abandoned(where)
      BY <1>5, <1>8
    <2> HIDE DEF v, r
    <2>3. /\ IInv'
          /\ \/ Control!Goto(v) /\ owed' = Control!Paid(owed, where[k].id)
             \/ \E e \in Exceptions : Control!Throw(e, v, Control!Paid(owed, where[k].id))
      BY <1>2, <1>8, <2>1, <2>2, WithLeft
    <2>4. (\/ Goto(v) /\ owed' = Paid(owed, where[k].id)
           \/ \E e \in Exceptions : Control!Throw(e, v, Paid(owed, where[k].id)))
             => Control!LeaveNext
      BY <1>4, <1>8 DEF v
    <2>5. Control!Goto(v) <=> Goto(v)
      BY DEF Control!Goto, Goto
    <2>6. Control!Paid(owed, where[k].id) = Paid(owed, where[k].id)
      BY SameRegions
    <2> QED BY <2>3, <2>4, <2>5, <2>6
  <1> QED BY <1>3, <1>6, <1>7, <1>8
\* The regions, the values and the places of the values when those from t + 1 on are cut off.
CutAt(w, v, t) ==
    /\ v \in Seq(Regions) /\ Len(v) = t /\ \A j \in 1 .. t : v[j] = w[j]
    /\ \A K : Opened(v, K) = {j \in Opened(w, K) : j < t + 1}
    /\ Holding(v) = {j \in Holding(w) : j < t + 1}
    /\ Below(w, v, t + 1)
ValuesCut(v, st, f, d, m) ==
    /\ Valued(v, SubSeq(st, 1, d), SubSeq(f, 1, d))
    /\ SameBelow(f, SubSeq(f, 1, d), m)
    /\ SubSeq(f, 1, d) \in Seq(Nat)
\* What is cut off leaves them so.
LEMMA CutLeaves ==
  /\ \A w \in Seq(Regions) : \A t \in 0 .. Len(w) : Held(w, t, Len(w)) => CutAt(w, SubSeq(w, 1, t), t)
  /\ \A w, v, st, f, m, d :
        /\ Valued(w, st, f) /\ m \in Nat /\ d \in 0 .. Len(f)
        /\ Holding(v) = {k \in Holding(w) : k < m}
        /\ \A k \in Holding(v) : ValueOf(v[k]) = ValueOf(w[k])
        /\ \A j \in 1 .. Len(f) : j <= d <=> f[j] < m
        => ValuesCut(v, st, f, d, m)
  <1>1. ASSUME NEW w \in Seq(Regions), NEW t \in 0 .. Len(w), Held(w, t, Len(w))
        PROVE  CutAt(w, SubSeq(w, 1, t), t)
    <2> DEFINE v == SubSeq(w, 1, t)
    <2>1. v = SubSeq(w, 1, t)
      OBVIOUS
    <2> HIDE DEF v
    <2>2. Len(w) \in Nat /\ t \in 0 .. Len(w) /\ t \in Nat
      OBVIOUS
    <2>4. v \in Seq(Regions) /\ Len(v) = t /\ \A j \in 1 .. t : v[j] = w[j]
      BY <1>1, <2>1, <2>2
    <2>5. \A K : Opened(v, K) = {j \in Opened(w, K) : j < t + 1}
      <3> TAKE K
      <3>1. Opened(v, K) = {j \in Opened(w, K) : j <= t}
        BY <1>1, <2>1, <2>2, OpenedCut
      <3>2. \A j \in Opened(w, K) : j \in 1 .. Len(w)
        BY OpenedIn
      <3>3. \A j \in Opened(w, K) : j <= t <=> j < t + 1
        BY <2>2, <3>2
      <3> QED BY <3>1, <3>3
    <2>6. Holding(v) = {j \in Holding(w) : j < t + 1}
      BY <1>1, <2>1, <2>2, Cut
    <2>7. Below(w, v, t + 1)
      BY <1>1, <2>1, <2>2, Cut
    <2>3. CutAt(w, v, t)
      BY <2>4, <2>5, <2>6, <2>7 DEF CutAt
    <2> QED BY <2>1, <2>3
  <1>2. ASSUME NEW w, NEW v, NEW st, NEW f, NEW m, NEW d,
               Valued(w, st, f), m \in Nat, d \in 0 .. Len(f),
               Holding(v) = {k \in Holding(w) : k < m},
               \A k \in Holding(v) : ValueOf(v[k]) = ValueOf(w[k]),
               \A j \in 1 .. Len(f) : j <= d <=> f[j] < m
        PROVE  ValuesCut(v, st, f, d, m)
    <2>1. f \in Seq(Nat) /\ Len(f) \in Nat
      BY <1>2 DEF Valued
    <2>4. Valued(v, SubSeq(st, 1, d), SubSeq(f, 1, d))
      BY ONLY <1>2, ValuedCut
    <2>5. SameBelow(f, SubSeq(f, 1, d), m)
      BY ONLY <1>2, ValuedCut
    <2>2. Valued(v, SubSeq(st, 1, d), SubSeq(f, 1, d)) /\ SameBelow(f, SubSeq(f, 1, d), m)
      BY <2>4, <2>5
    <2>3. SubSeq(f, 1, d) \in Seq(Nat)
      BY <2>2 DEF Valued
    <2> QED BY <2>2, <2>3 DEF ValuesCut
  <1> QED BY <1>1, <1>2

\* The region that a break or continue arrives at, and the values that stay.
LEMMA ArriveAt ==
  ASSUME IInv, ended = Running, NEW m \in 0 .. Len(where), Held(where, m, Len(where)),
         \A j \in Opened(where, Guarding) \cup Opened(where, Handling) : j < m + 1,
         \A j \in Opened(where, HasCleanup \cup {"exiting"}) : j < m + 1,
         NEW f \in Seq(Nat), NEW p \in Nat, Valued(where, stack, f), Framed(where, blocks, current, f, p),
         NEW d \in 0 .. Len(f), \A j \in 1 .. Len(f) : j <= d <=> f[j] < m + 1,
         Goto(SubSeq(where, 1, m)), Set(blocks, SubSeq(stack, 1, d), current), owed' = owed
  PROVE  IInv'
  <1> DEFINE v == SubSeq(where, 1, m)
             g == SubSeq(f, 1, d)
             CL == HasCleanup \cup {"exiting"}
             k == m + 1
             q == Len(blocks)
  <1>1. /\ where \in Seq(Regions) /\ Shaped(where, Len(owed)) /\ Len(owed) \in Nat /\ Accounted(where, owed)
        /\ blocks \in Seq(BlockSet) /\ Len(where) \in Nat /\ k \in Nat /\ v = SubSeq(where, 1, m)
    BY DEF IInv, Shaped, Accounted
  <1> HIDE DEF v
  <1>2. /\ v \in Seq(Regions) /\ Len(v) = m /\ \A j \in 1 .. m : v[j] = where[j]
        /\ \A K : Opened(v, K) = {j \in Opened(where, K) : j < k}
        /\ Holding(v) = {j \in Holding(where) : j < k}
        /\ Below(where, v, k)
    <2>1. CutAt(where, v, m)
      BY <1>1, CutLeaves
    <2> QED BY <2>1 DEF CutAt
  <1>3. Shaped(v, Len(owed))
    BY <1>1, ShapedCut
  <1>4. \A j \in 1 .. Len(where) : j < k => v[j] = where[j]
    <2>1. \A j \in 1 .. Len(where) : j < k => j \in 1 .. m
      BY <1>1
    <2> QED BY <1>2, <2>1
  <1>5. Accounted(v, owed)
    <2>1. \A j \in Opened(v, CL) : j \in 1 .. Len(where) /\ j < k
      BY <1>1, <1>2, OpenedIn
    <2>2. \A j \in Opened(v, CL) : v[j].id = where[j].id
      BY <1>4, <2>1
    <2>3. Opened(v, CL) = {j \in Opened(where, CL) : j < k}
      BY <1>2
    <2> QED BY <1>1, <2>2, <2>3, AccountedCut
  <1>6. Valued(v, SubSeq(stack, 1, d), g) /\ SameBelow(f, g, k) /\ g \in Seq(Nat)
    <2>1. \A j \in Holding(v) : j \in 1 .. Len(where) /\ j < k
      BY <1>1, <1>2 DEF Holding
    <2>2. \A j \in Holding(v) : ValueOf(v[j]) = ValueOf(where[j])
      BY <1>4, <2>1
    <2>3. \A j \in 1 .. Len(f) : j <= d <=> f[j] < k
      OBVIOUS
    <2>4. Holding(v) = {j \in Holding(where) : j < k} /\ k \in Nat
      BY <1>1, <1>2
    <2> HIDE DEF k
    <2>5. ValuesCut(v, stack, f, d, k)
      BY <2>2, <2>3, <2>4, CutLeaves
    <2> QED BY <2>5 DEF ValuesCut
  <1> HIDE DEF k, q, g
  <1>7. q \in 0 .. Len(blocks) /\ SubSeq(blocks, 1, q) = blocks /\ p \in 0 .. q
    BY <1>1 DEF q, Framed
  <1>8. \A i \in 1 .. Len(blocks) : Proper(blocks, p, i) => (i <= q <=> At(blocks[i]) < k)
    <2>1. \A i \in 1 .. Len(blocks) : Proper(blocks, p, i) => At(blocks[i]) < k
      BY <1>1, ProperBlocks DEF k
    <2> QED BY <2>1 DEF q
  <1>9. current = Outer(where, k)
    <2>1. \A h \in Opened(where, Handling) : h < k
      BY DEF k
    <2> QED BY <1>1, <2>1, CurrentAt
  <1>10. Framed(v, SubSeq(blocks, 1, q), Outer(where, k), g, IF p <= q THEN p ELSE q)
    BY <1>1, <1>2, <1>6, <1>7, <1>8, FramedBelow
  <1>11. Framed(v, blocks, current, g, p)
    <2>1. p <= q
      BY <1>7
    <2> QED BY <1>7, <1>9, <1>10, <2>1
  <1>12. /\ where' = v /\ ended' = ended /\ blocks' = blocks /\ stack' = SubSeq(stack, 1, d)
         /\ current' = current
    BY <1>1 DEF Goto, Set
  <1> QED BY <1>3, <1>5, <1>6, <1>11, <1>12, GoesOn

\* A stretch of a rising sequence has as many values as it is long.
LEMMA RisesCount ==
  ASSUME NEW f \in Seq(Nat), Rises(f), NEW a \in 1 .. (Len(f) + 1), NEW b \in 0 .. Len(f), a <= b + 1
  PROVE  Cardinality({f[j] : j \in a .. b}) = (b - a) + 1
  <1> DEFINE S == a .. b
             T == {f[j] : j \in a .. b}
             h == [j \in S |-> f[j]]
  <1>1. a \in Int /\ b \in Int /\ Len(f) \in Nat
    OBVIOUS
  <1>2. IsFiniteSet(S) /\ Cardinality(S) = (b - a) + 1
    <2>1. IsFiniteSet(S) /\ Cardinality(S) = IF a > b THEN 0 ELSE b - a + 1
      BY <1>1, FS_Interval
    <2> QED BY <1>1, <2>1
  <1>3. \A j \in S : j \in 1 .. Len(f) /\ f[j] \in Nat
    BY <1>1
  <1>4. \A i, j \in S : i /= j => f[i] /= f[j]
    <2> SUFFICES ASSUME NEW i \in S, NEW j \in S, i /= j PROVE f[i] /= f[j]
      OBVIOUS
    <2>1. i \in Int /\ j \in Int /\ (i < j \/ j < i)
      BY <1>1
    <2>2. f[i] \in Nat /\ f[j] \in Nat /\ i \in 1 .. Len(f) /\ j \in 1 .. Len(f)
      BY <1>3
    <2>3. f[i] < f[j] \/ f[j] < f[i]
      BY <2>1, <2>2 DEF Rises
    <2> QED BY <2>2, <2>3
  <1>5. h \in [S -> T] /\ \A j \in S : h[j] = f[j]
    OBVIOUS
  <1> HIDE DEF h, S
  <1>6. \A i, j \in S : h[i] = h[j] => i = j
    BY <1>4, <1>5
  <1>7. \A t \in T : \E j \in S : h[j] = t
    BY <1>5 DEF S
  <1> HIDE DEF T
  <1>8. h \in Bijection(S, T)
    BY <1>5, <1>6, <1>7 DEF Bijection, Injection, Surjection, IsInjective
  <1>9. ExistsBijection(S, T)
    BY <1>8 DEF ExistsBijection
  <1>10. Cardinality(T) = Cardinality(S)
    BY <1>2, <1>9, FS_Bijection
  <1> QED BY <1>2, <1>10 DEF T

\* How many regions hold a value from m on, and how many up to the one whose value is i.
LEMMA HoldersCount ==
  ASSUME NEW w, NEW st, NEW f, Valued(w, st, f)
  PROVE  /\ \A m \in Nat, d \in 0 .. Len(f) :
               (\A j \in 1 .. Len(f) : j <= d <=> f[j] < m)
                  => Cardinality({k \in Holding(w) : k >= m}) = Len(f) - d
         /\ \A i \in 1 .. Len(f) : Cardinality({k \in Holding(w) : k <= f[i]}) = i
         /\ Cardinality(Holding(w)) = Len(f)
  <1>1. /\ f \in Seq(Nat) /\ Rises(f) /\ Len(f) \in Nat
        /\ \A i \in 1 .. Len(f) : f[i] \in Holding(w) /\ f[i] \in Nat
        /\ \A k \in Holding(w) : \E i \in 1 .. Len(f) : f[i] = k
    BY DEF Valued
  <1>2. ASSUME NEW m \in Nat, NEW d \in 0 .. Len(f), \A j \in 1 .. Len(f) : j <= d <=> f[j] < m
        PROVE  Cardinality({k \in Holding(w) : k >= m}) = Len(f) - d
    <2> DEFINE a == d + 1
               b == Len(f)
    <2>1. a \in 1 .. (Len(f) + 1) /\ b \in 0 .. Len(f) /\ a <= b + 1 /\ (b - a) + 1 = Len(f) - d
      BY <1>1
    <2>2. \A j \in 1 .. Len(f) : j \in a .. b <=> f[j] >= m
      <3>1. \A j \in 1 .. Len(f) : j \in a .. b <=> ~(j <= d)
        BY <1>1
      <3>2. \A j \in 1 .. Len(f) : f[j] >= m <=> ~(f[j] < m)
        BY <1>1
      <3> QED BY <1>2, <3>1, <3>2
    <2>3. \A j \in a .. b : j \in 1 .. Len(f)
      BY <1>1
    <2> HIDE DEF a, b
    <2>4. {f[j] : j \in a .. b} = {k \in Holding(w) : k >= m}
      BY <1>1, <2>2, <2>3
    <2> QED BY <1>1, <2>1, <2>4, RisesCount
  <1>3. ASSUME NEW i \in 1 .. Len(f)
        PROVE  Cardinality({k \in Holding(w) : k <= f[i]}) = i
    <2> DEFINE a == 1
    <2>1. a \in 1 .. (Len(f) + 1) /\ i \in 0 .. Len(f) /\ a <= i + 1 /\ (i - a) + 1 = i
      BY <1>1
    <2>2. \A j \in 1 .. Len(f) : j \in a .. i <=> f[j] <= f[i]
      <3> SUFFICES ASSUME NEW j \in 1 .. Len(f) PROVE j \in a .. i <=> f[j] <= f[i]
        OBVIOUS
      <3>1. (j < i => f[j] < f[i]) /\ (i < j => f[i] < f[j])
        BY <1>1 DEF Rises
      <3>2. f[i] \in Nat /\ f[j] \in Nat
        BY <1>1
      <3> QED BY <1>1, <3>1, <3>2
    <2>3. \A j \in a .. i : j \in 1 .. Len(f)
      BY <1>1
    <2> HIDE DEF a
    <2>4. {f[j] : j \in a .. i} = {k \in Holding(w) : k <= f[i]}
      BY <1>1, <2>2, <2>3
    <2> QED BY <1>1, <2>1, <2>4, RisesCount
  <1>4. Cardinality(Holding(w)) = Len(f)
    <2>1. Cardinality({k \in Holding(w) : k >= 0}) = Len(f) - 0
      <3>1. 0 \in Nat /\ 0 \in 0 .. Len(f) /\ \A j \in 1 .. Len(f) : j <= 0 <=> f[j] < 0
        BY <1>1
      <3> QED BY <1>2, <3>1
    <2>2. {k \in Holding(w) : k >= 0} = Holding(w)
      <3>1. \A k \in Holding(w) : k \in Nat
        BY <1>1
      <3> QED BY <3>1
    <2>3. Len(f) - 0 = Len(f)
      BY <1>1
    <2> QED BY <2>1, <2>2, <2>3
  <1> QED BY <1>2, <1>3, <1>4
\* No construct inside the target is left to do something for.
LEMMA NothingLeft ==
  ASSUME IInv, where /= <<>>, Last(where).kind = "jump", NextContext(Last(where).jump) = 0
  PROVE  /\ ~(LastOr0(Opened(where, Contexts)) > Control!JumpTarget(Last(where).jump))
         /\ \A j \in Opened(where, Contexts) : j <= Control!JumpTarget(Last(where).jump)
         /\ Control!JumpTarget(Last(where).jump) \in 0 .. Len(where) /\ Len(where) \in Nat
  <1> DEFINE g == LastOr0(Opened(where, Contexts))
             t == Control!JumpTarget(Last(where).jump)
  <1>1. where \in Seq(Regions) /\ Shaped(where, Len(owed)) /\ Len(owed) \in Nat /\ Len(where) \in Nat
    BY DEF IInv, Shaped, Accounted
  <1>2. NextContext(Last(where).jump) = IF g > t THEN g ELSE 0
    <2>1. g = LastOr0(Opened(where, Contexts))
      OBVIOUS
    <2> HIDE DEF g
    <2> QED BY <2>1, ContextNext
  <1>3. t \in 0 .. Len(where)
    <2>1. t = IF Last(where).jump = "return" THEN 0 ELSE LastOr0(Opened(where, Loops))
      BY SameRegions DEF Control!JumpTarget
    <2>2. CASE Last(where).jump = "return"
      BY <1>1, <2>1, <2>2
    <2>3. CASE Last(where).jump /= "return"
      <3>1. Last(where).kind \in Leaving
        BY DEF Leaving
      <3>2. PICK u \in 1 .. (Len(where) - 1) : LastOr0(Opened(where, Loops)) = u
        BY <1>1, <2>3, <3>1, JumpGoes
      <3> QED BY <1>1, <2>1, <2>3, <3>2
    <2> QED BY <2>2, <2>3
  <1>4. Opened(where, Contexts) \subseteq 1 .. Len(where)
    BY <1>1, OpenedIn
  <1>5. Opened(where, Contexts) /= {} => g \in 1 .. Len(where) /\ \A j \in Opened(where, Contexts) : j <= g
    BY <1>1, <1>4, Greatest
  <1>6. Opened(where, Contexts) = {} => g = 0
    BY DEF LastOr0
  <1> HIDE DEF g, t
  <1>7. ~(g > t)
    BY <1>1, <1>2, <1>3, <1>5, <1>6
  <1>8. \A j \in Opened(where, Contexts) : j <= t
    BY <1>1, <1>3, <1>4, <1>5, <1>7
  <1> QED BY <1>1, <1>3, <1>7, <1>8 DEF g, t

\* Where LeaveNext of the language arrives.
LEMMA ArrivesSame ==
  ASSUME IInv, ended = Running, where /= <<>>, Last(where).kind = "jump",
         NextContext(Last(where).jump) = 0, owed' = owed
  PROVE  LET j == Last(where)
             t == Control!JumpTarget(j.jump)
         IN  /\ j.jump = "return" /\ Finish("returned", None) => Control!LeaveNext
             /\ j.jump = "break" /\ Goto(SubSeq(where, 1, t - 1)) => Control!LeaveNext
             /\ j.jump = "continue" /\ Goto(SubSeq(where, 1, t)) => Control!LeaveNext
  <1> DEFINE j == Last(where)
             t == Control!JumpTarget(j.jump)
  <1>1. /\ Control!Last(where) = j /\ ended = Control!Running
        /\ Control!LastOr0(Control!Opened(where, Control!Contexts)) = LastOr0(Opened(where, Contexts))
    BY SameRegions
  <1>2. ~(Control!LastOr0(Control!Opened(where, Control!Contexts)) > t)
    BY <1>1, NothingLeft
  <1>3. (\A x : Control!Goto(x) <=> Goto(x)) /\ (Finish("returned", None) => Control!Finish("returned", None))
    BY DEF Control!Goto, Goto, Control!Finish, Finish
  <1>4. UNCHANGED owed
    OBVIOUS
  <1>5. j.jump = "return" /\ Control!Finish("returned", None) => Control!LeaveNext
    BY <1>1, <1>2, <1>4, Zenon DEF Control!LeaveNext
  <1>6. j.jump = "break" /\ Control!Goto(SubSeq(where, 1, t - 1)) => Control!LeaveNext
    BY <1>1, <1>2, <1>4, Zenon DEF Control!LeaveNext
  <1>7. j.jump = "continue" /\ Control!Goto(SubSeq(where, 1, t)) => Control!LeaveNext
    BY <1>1, <1>2, <1>4, Zenon DEF Control!LeaveNext
  <1> QED BY <1>3, <1>5, <1>6, <1>7, Zenon

\* A return arrives: its value is on the stack, and no cleanup is owed.
LEMMA ReturnArrives ==
  ASSUME IInv, ended = Running, where /= <<>>, Last(where).kind = "jump", Last(where).jump = "return", Arrive
  PROVE  IInv' /\ Control!LeaveNext
  <1>1. where \in Seq(Regions) /\ Shaped(where, Len(owed)) /\ Accounted(where, owed) /\ Len(where) \in Nat
        /\ Len(where) \in 1 .. Len(where) /\ Last(where) = where[Len(where)]
    BY DEF IInv, Shaped, Last
  <1>2. NextContext(Last(where).jump) = 0 /\ owed' = owed
    BY DEF Arrive
  <1>3. Opened(where, Contexts) = {}
    <2>1. Control!JumpTarget(Last(where).jump) = 0
      BY DEF Control!JumpTarget
    <2>2. \A j \in Opened(where, Contexts) : j <= 0 /\ j \in 1 .. Len(where)
      BY <1>1, <1>2, <2>1, NothingLeft, OpenedIn
    <2> QED BY <2>2
  <1>4. Cleanups(where) = {}
    <2>1. \A k \in 1 .. Len(where) : where[k].kind \in Brief => k = Len(where)
      BY <1>1 DEF Shaped
    <2>2. \A k \in 1 .. Len(where) : where[k].kind /= "exiting"
      BY <1>1, <2>1 DEF Brief
    <2>3. \A k : k \notin Opened(where, HasCleanup \cup {"exiting"})
      BY <1>1, <1>3, <2>2 DEF Opened, Contexts
    <2> QED BY <2>3 DEF Cleanups
  <1>5. PICK f : Valued(where, stack, f)
    BY DEF IInv, Stacked
  <1>6. Len(stack) >= 1 /\ Len(stack) \in Nat
    <2>1. Len(where) \in Holding(where)
      BY <1>1 DEF Holding, Leaving
    <2>2. PICK i \in 1 .. Len(f) : f[i] = Len(where)
      BY <1>5, <2>1 DEF Valued
    <2>3. Len(f) \in Nat /\ Len(stack) = Len(f)
      BY <1>5 DEF Valued
    <2> QED BY <2>2, <2>3
  <1>7. Finish("returned", None)
    <2>1. Popped(Last(where).jump) = 1
      BY DEF Popped
    <2>2. ~(Len(stack) < Popped(Last(where).jump)) /\ Len(stack) >= Popped(Last(where).jump)
      BY <1>6, <2>1
    <2> QED BY <2>2, Zenon DEF Arrive
  <1>8. Control!LeaveNext
    BY <1>2, <1>7, ArrivesSame
  <1>9. IInv'
    BY <1>1, <1>2, <1>4, <1>7, FinishKeeps
  <1> QED BY <1>8, <1>9
\* What is still open when a break or continue arrives at its loop t lies outside the body of t.
LEMMA LoopReached ==
  ASSUME IInv, ended = Running, where /= <<>>, Last(where).kind = "jump", Last(where).jump /= "return",
         NextContext(Last(where).jump) = 0,
         NEW t \in 1 .. (Len(where) - 1), LoopOf(where, Len(where), t), LastOr0(Opened(where, Loops)) = t
  PROVE  /\ Held(where, t, Len(where)) /\ Held(where, t - 1, Len(where))
         /\ \A j \in Opened(where, Guarding) \cup Opened(where, Handling) : j < t
         /\ \A j \in Opened(where, HasCleanup \cup {"exiting"}) : j < t
         /\ {k \in DOMAIN where : where[k].kind = "leave" /\ where[k].jump = "return"}
               = {k \in Holding(where) : k >= t + 1}
  <1> DEFINE n == Len(where)
  <1>1. where \in Seq(Regions) /\ Shaped(where, Len(owed)) /\ n \in Nat /\ n \in 1 .. n /\ Last(where) = where[n]
    BY DEF IInv, Shaped, Last
  <1>2. /\ where[t].kind \in Loops /\ Held(where, t, n) /\ t \in 1 .. n /\ t \in Nat
        /\ \A i \in (t + 1) .. n : /\ where[i].kind \notin Loops
                                   /\ ~(where[i].kind = "try" /\ Held(where, i, n))
        /\ \A i \in 1 .. t : ~(where[i].kind = "leave" /\ where[i].jump = "return")
    BY <1>1 DEF LoopOf
  <1> HIDE DEF n
  <1>3. Control!JumpTarget(Last(where).jump) = t
    BY SameRegions DEF Control!JumpTarget
  <1>4. \A j \in Opened(where, Contexts) : j <= t
    BY <1>3, NothingLeft
  <1>5. \A j \in 1 .. n : where[j].kind \notin {"clauses", "exiting"}
    <2>1. \A j \in 1 .. n : where[j].kind \in Brief => j = n
      BY <1>1 DEF Shaped, n
    <2> QED BY <1>1, <2>1 DEF Brief
  <1>6. ASSUME NEW j \in 1 .. n, where[j].kind \in Guarding \cup Handling \cup HasCleanup \cup {"exiting"},
               Active(where, j)
        PROVE  j < t
    <2>1. j /= t
      BY <1>2, <1>6 DEF Loops, Guarding, Protected, Handling, HasCleanup
    <2>2. CASE where[j].kind = "try"
      <3>1. Held(where, j, n)
        BY <1>6 DEF Active, Held, n
      <3>2. ~(j \in (t + 1) .. n)
        BY <1>2, <2>2, <3>1
      <3> QED BY <1>1, <1>2, <2>1, <3>2
    <2>3. CASE where[j].kind /= "try"
      <3>1. where[j].kind \in Contexts
        BY <1>5, <1>6, <2>3 DEF Guarding, Protected, Handling, HasCleanup, Contexts
      <3>2. j \in Opened(where, Contexts)
        BY <1>1, <1>6, <3>1 DEF Opened, n
      <3> QED BY <1>1, <1>2, <1>4, <2>1, <3>2
    <2> QED BY <2>2, <2>3
  <1>7. DOMAIN where = 1 .. n
    BY <1>1 DEF n
  <1>8. /\ \A j \in Opened(where, Guarding) \cup Opened(where, Handling) : j < t
        /\ \A j \in Opened(where, HasCleanup \cup {"exiting"}) : j < t
    BY <1>6, <1>7 DEF Opened
  <1>9. Held(where, t - 1, n)
    <2>1. \A i \in (t - 1 + 1) .. n : i = t \/ i \in (t + 1) .. n
      BY <1>1, <1>2
    <2>2. \A i \in (t + 1) .. n : i \in 1 .. n
      BY <1>1, <1>2
    <2>3. \A i \in 1 .. n : where[i].at \in Nat
      BY <1>1, RegionTypes DEF n
    <2>4. where[t].kind \notin Leaving
      BY <1>2 DEF Loops, Leaving
    <2>5. \A i \in (t + 1) .. n : where[i].kind \in Leaving => where[i].at > t - 1
      BY <1>2, <2>2, <2>3 DEF Held
    <2> QED BY <2>1, <2>4, <2>5 DEF Held
  <1>10. \A k \in 1 .. n : where[k].kind = "leave" /\ where[k].jump = "return"
                              <=> k \in Holding(where) /\ k >= t + 1
    <2> SUFFICES ASSUME NEW k \in 1 .. n
                 PROVE  where[k].kind = "leave" /\ where[k].jump = "return"
                           <=> k \in Holding(where) /\ k >= t + 1
      OBVIOUS
    <2>1. ASSUME where[k].kind = "leave", where[k].jump = "return"
          PROVE  k \in Holding(where) /\ k >= t + 1
      <3>1. ~(k \in 1 .. t)
        BY <1>2, <2>1
      <3>2. k >= t + 1
        BY <1>1, <1>2, <3>1
      <3> QED BY <1>7, <2>1, <3>2 DEF Holding, Leaving
    <2>2. ASSUME k \in Holding(where), k >= t + 1
          PROVE  where[k].kind = "leave" /\ where[k].jump = "return"
      <3>1. k \in (t + 1) .. n
        BY <1>1, <1>2, <2>2
      <3>2. where[k].kind /= "for"
        BY <1>2, <3>1 DEF Loops
      <3>3. where[k].kind /= "exiting"
        BY <1>5
      <3>4. ~(where[k].kind = "with" /\ Active(where, k))
        <4>1. where[k].kind = "with" /\ Active(where, k) => k < t
          BY <1>6 DEF HasCleanup
        <4> QED BY <1>2, <2>2, <4>1
      <3>5. where[k].kind \in {"jump", "leave"} /\ where[k].jump = "return"
        BY <2>2, <3>2, <3>3, <3>4 DEF Holding, Leaving
      <3>6. where[k].kind /= "jump"
        <4>1. \A j \in 1 .. n : where[j].kind \in Brief => j = n
          BY <1>1 DEF Shaped, n
        <4> QED BY <1>1, <3>5, <4>1 DEF Brief
      <3> QED BY <3>5, <3>6
    <2> QED BY <2>1, <2>2
  <1>11. \A k : k \in Holding(where) => k \in 1 .. n
    BY <1>7 DEF Holding
  <1>12. {k \in DOMAIN where : where[k].kind = "leave" /\ where[k].jump = "return"}
            = {k \in Holding(where) : k >= t + 1}
    BY <1>7, <1>10, <1>11
  <1> QED BY <1>2, <1>8, <1>9, <1>12 DEF n

\* A break or continue arrives: the values that the compiler has dropped are those of the body of its loop.
LEMMA LoopArrives ==
  ASSUME IInv, ended = Running, where /= <<>>, Last(where).kind = "jump", Last(where).jump /= "return", Arrive
  PROVE  IInv' /\ Control!LeaveNext
  <1> DEFINE n == Len(where)
             jump == Last(where).jump
             s == Len(stack)
             r == PendingReturns(where)
  <1>1. where \in Seq(Regions) /\ Shaped(where, Len(owed)) /\ Len(owed) \in Nat /\ n \in Nat /\ n \in 1 .. n
        /\ Last(where) = where[n] /\ Last(where).kind \in Leaving
    BY DEF IInv, Shaped, Accounted, Last, Leaving
  <1>2. NextContext(Last(where).jump) = 0 /\ owed' = owed
    BY DEF Arrive
  <1>3. PICK t \in 1 .. (Len(where) - 1) :
            /\ LoopOf(where, Len(where), t)
            /\ t \in Opened(where, Loops) /\ LastOr0(Opened(where, Loops)) = t
            /\ LastOr0(LoopsOf(where)) = t
    BY <1>1, JumpGoes
  <1>4. t = Loop /\ Control!JumpTarget(jump) = t /\ t \in 1 .. n /\ t \in Nat /\ t - 1 \in 0 .. n /\ t \in 0 .. n
        /\ (t - 1) + 1 = t
    BY <1>1, <1>3, SameRegions DEF Loop, Control!JumpTarget
  <1>5. /\ Held(where, t, Len(where)) /\ Held(where, t - 1, Len(where))
        /\ \A j \in Opened(where, Guarding) \cup Opened(where, Handling) : j < t
        /\ \A j \in Opened(where, HasCleanup \cup {"exiting"}) : j < t
        /\ {k \in DOMAIN where : where[k].kind = "leave" /\ where[k].jump = "return"}
              = {k \in Holding(where) : k >= t + 1}
    BY <1>2, <1>3, LoopReached
  <1>6. \A j \in Opened(where, Guarding) \cup Opened(where, Handling)
               \cup Opened(where, HasCleanup \cup {"exiting"}) : j < t /\ j < t + 1 /\ j < (t - 1) + 1
    <2>1. \A K : Opened(where, K) \subseteq 1 .. n
      BY <1>1, OpenedIn
    <2>2. \A j \in Opened(where, Guarding) \cup Opened(where, Handling)
                 \cup Opened(where, HasCleanup \cup {"exiting"}) : j < t /\ j \in 1 .. n
      BY <1>5, <2>1
    <2> QED BY <1>4, <2>2
  <1>7. PICK f \in Seq(Nat), p \in Nat : Valued(where, stack, f) /\ Framed(where, blocks, current, f, p)
    <2>1. ~Abandoned(where)
      BY DEF Abandoned
    <2> QED BY <2>1, Standing
  <1>8. /\ Rises(f) /\ Len(f) = s /\ s \in Nat
        /\ \A i \in 1 .. Len(f) : f[i] \in Nat /\ f[i] \in Holding(where)
        /\ \A k \in Holding(where) : \E i \in 1 .. Len(f) : f[i] = k
    BY <1>7 DEF Valued
  <1>9. PICK d \in 0 .. Len(f) : \A j \in 1 .. Len(f) : j <= d <=> f[j] < t + 1
    <2>1. t + 1 \in Nat
      BY <1>4
    <2> QED BY <1>8, <2>1, RisesTo
  <1>10. r = s - d
    <2>1. Cardinality({k \in Holding(where) : k >= t + 1}) = Len(f) - d
      <3>1. t + 1 \in Nat
        BY <1>4
      <3> QED BY <1>7, <1>9, <3>1, HoldersCount
    <2> QED BY <1>5, <1>8, <2>1 DEF PendingReturns
  <1> HIDE DEF n, s, r, jump
  <1>11. CASE jump = "continue"
    <2>1. Popped(Last(where).jump) = s - d
      BY <1>10, <1>11 DEF Popped, jump, r
    <2>2. ~(Len(stack) < Popped(Last(where).jump)) /\ Len(stack) - Popped(Last(where).jump) = d
      BY <1>8, <2>1 DEF s
    <2>3. /\ Goto(SubSeq(where, 1, Loop))
          /\ Set(blocks, SubSeq(stack, 1, Len(stack) - Popped(Last(where).jump)), current)
      BY <1>11, <2>2, Zenon DEF Arrive, jump
    <2>4. Goto(SubSeq(where, 1, t)) /\ Set(blocks, SubSeq(stack, 1, d), current)
      BY <1>4, <2>2, <2>3
    <2>5. Control!LeaveNext
      BY <1>2, <1>4, <1>11, <2>4, ArrivesSame DEF jump
    <2>6. IInv'
      BY <1>2, <1>4, <1>5, <1>6, <1>7, <1>9, <2>4, ArriveAt DEF n
    <2> QED BY <2>5, <2>6
  <1>12. CASE jump = "break"
    <2> DEFINE one == IF where[Loop].kind = "for" THEN 1 ELSE 0
               b == d - one
    <2>1. b \in 0 .. Len(f) /\ one \in Nat /\ \A j \in 1 .. Len(f) : j <= b <=> f[j] < (t - 1) + 1
      <3>1. CASE where[t].kind = "for"
        <4>1. one = 1 /\ t \in Holding(where)
          BY <1>1, <1>4, <3>1 DEF Holding, n
        <4>2. PICK i \in 1 .. Len(f) : f[i] = t
          BY <1>8, <4>1
        <4>3. i <= d
          BY <1>4, <1>9, <4>2
        <4>4. i = d
          <5> SUFFICES ASSUME i < d PROVE FALSE
            BY <1>8, <4>3
          <5>1. d \in 1 .. Len(f) /\ f[d] < t + 1
            BY <1>8, <1>9, <4>2
          <5>2. f[i] < f[d] /\ f[d] \in Nat
            BY <1>8, <4>2, <5>1 DEF Rises
          <5> QED BY <1>4, <4>2, <5>1, <5>2
        <4>5. b = d - 1 /\ d \in 1 .. Len(f) /\ f[d] = t
          BY <4>1, <4>2, <4>4
        <4>6. ASSUME NEW j \in 1 .. Len(f)
              PROVE  j <= b <=> f[j] < (t - 1) + 1
          <5>1. (j < d => f[j] < f[d]) /\ (d < j => f[d] < f[j]) /\ f[j] \in Nat
            BY <1>8, <4>5 DEF Rises
          <5> QED BY <1>4, <1>8, <4>5, <5>1
        <4> QED BY <1>8, <4>1, <4>5, <4>6
      <3>2. CASE where[t].kind /= "for"
        <4>1. one = 0 /\ b = d
          BY <1>4, <1>8, <3>2
        <4>2. t \notin Holding(where)
          <5>1. where[t].kind \in Loops
            BY <1>3 DEF Opened
          <5> QED BY <3>2, <5>1 DEF Holding, Loops, Leaving
        <4>3. ASSUME NEW j \in 1 .. Len(f)
              PROVE  f[j] < t + 1 <=> f[j] < (t - 1) + 1
          <5>1. f[j] \in Nat /\ f[j] /= t
            BY <1>8, <4>2
          <5> QED BY <1>4, <5>1
        <4> QED BY <1>9, <4>1, <4>3
      <3> QED BY <3>1, <3>2
    <2>2. Popped(Last(where).jump) = (s - d) + one
      BY <1>10, <1>12 DEF Popped, jump, r
    <2>3. ~(Len(stack) < Popped(Last(where).jump)) /\ Len(stack) - Popped(Last(where).jump) = b
      <3>1. b \in Nat /\ d \in Nat
        BY <1>8, <2>1
      <3> QED BY <1>8, <2>1, <2>2, <3>1 DEF s
    <2> HIDE DEF b, one
    <2>4. /\ Goto(SubSeq(where, 1, Loop - 1))
          /\ Set(blocks, SubSeq(stack, 1, Len(stack) - Popped(Last(where).jump)), current)
      BY <1>12, <2>3, Zenon DEF Arrive, jump
    <2>5. Goto(SubSeq(where, 1, t - 1)) /\ Set(blocks, SubSeq(stack, 1, b), current)
      BY <1>4, <2>3, <2>4
    <2>6. Control!LeaveNext
      BY <1>2, <1>4, <1>12, <2>5, ArrivesSame DEF jump
    <2>7. PICK m \in 0 .. n : m = t - 1
      BY <1>4
    <2>8. /\ Goto(SubSeq(where, 1, m)) /\ Held(where, m, Len(where))
          /\ \A j \in 1 .. Len(f) : j <= b <=> f[j] < m + 1
          /\ \A j \in Opened(where, Guarding) \cup Opened(where, Handling) : j < m + 1
          /\ \A j \in Opened(where, HasCleanup \cup {"exiting"}) : j < m + 1
      BY <1>5, <1>6, <2>1, <2>5, <2>7
    <2>9. IInv'
      BY <1>2, <1>7, <2>1, <2>5, <2>8, ArriveAt DEF n
    <2> QED BY <2>6, <2>9
  <1>13. jump \in {"break", "continue"}
    <2>1. JumpFits(where, n)
      BY <1>1 DEF Shaped, RegionFits, n
    <2>2. jump \in JumpKinds
      BY <1>1, <2>1 DEF JumpFits, jump
    <2> QED BY <2>2 DEF JumpKinds, jump
  <1> QED BY <1>11, <1>12, <1>13
\* A jump leaves one construct, or arrives.
LEMMA LeaveNextKeeps ==
  ASSUME IInv, LeaveNext
  PROVE  IInv' /\ Control!LeaveNext
  <1>1. ended = Running /\ where /= <<>> /\ Last(where).kind = "jump" /\ (UnwindNext \/ Arrive)
    BY DEF LeaveNext
  <1>2. CASE UnwindNext
    BY <1>1, <1>2, UnwindNextKeeps
  <1>3. CASE Arrive /\ Last(where).jump = "return"
    BY <1>1, <1>3, ReturnArrives
  <1>4. CASE Arrive /\ Last(where).jump /= "return"
    BY <1>1, <1>4, LoopArrives
  <1> QED BY <1>1, <1>2, <1>3, <1>4

\* The frame runs off its end with no cleanup owed.
LEMMA RunOffKeeps ==
  ASSUME IInv, RunOff
  PROVE  IInv' /\ Control!RunOff
  <1>1. Here /\ where = <<>> /\ Finish("returned", None) /\ owed' = owed
    BY DEF RunOff
  <1>2. Accounted(where, owed) /\ Cleanups(where) = {}
    BY <1>1, Nowhere DEF IInv
  <1>3. IInv'
    BY <1>1, <1>2, FinishKeeps
  <1>4. Control!Here
    BY <1>1, SameRegions DEF Here, Control!Here
  <1>5. Control!Finish("returned", None)
    BY <1>1 DEF Finish, Control!Finish
  <1> QED BY <1>1, <1>3, <1>4, <1>5 DEF Control!RunOff

(***************************************************************************)
(* The invariant of every behaviour.                                      *)
(***************************************************************************)
\* A frame begins with nothing open.
LEMMA InitHolds ==
  Init => IInv /\ Control!Init
  <1> SUFFICES ASSUME Init PROVE IInv /\ Control!Init
    OBVIOUS
  <1>1. /\ where = <<>> /\ owed = <<>> /\ ended = Running
        /\ blocks = <<>> /\ stack = <<>> /\ current = None
    BY DEF Init
  <1>2. Accounted(<<>>, <<>>)
    BY Nowhere DEF Accounted
  <1>3. Stacked(<<>>, <<>>, <<>>, None)
    BY Nowhere DEF Stacked
  <1>4. ended \in Endings
    BY <1>1 DEF Endings, Running
  <1>5. Shaped(<<>>, Len(owed))
    <2>1. Len(owed) \in Nat
      BY <1>1
    <2> QED BY <2>1, Nowhere
  <1>6. IInv
    BY <1>1, <1>2, <1>3, <1>4, <1>5 DEF IInv
  <1>7. Control!Init
    BY <1>1, SameRegions DEF Control!Init
  <1> QED BY <1>6, <1>7

\* Every step keeps the invariant, and is a step that the nesting of the constructs allows.
LEMMA StepKeeps ==
  ASSUME Odd = {}, IInv, Next
  PROVE  IInv' /\ Control!Next
  <1>1. CASE \E kind \in Protected : Setup(kind)
    <2>1. PICK kind \in Protected : Setup(kind)
      BY <1>1
    <2>2. IInv' /\ Control!Enter(kind)
      BY <2>1, SetupKeeps
    <2>3. kind \in Control!Protected \cup Control!Loops
      BY SameRegions
    <2> QED BY <2>2, <2>3 DEF Control!Next
  <1>2. CASE \E kind \in Loops : EnterLoop(kind)
    <2>1. PICK kind \in Loops : EnterLoop(kind)
      BY <1>2
    <2>2. IInv' /\ Control!Enter(kind)
      BY <2>1, EnterLoopKeeps
    <2>3. kind \in Control!Protected \cup Control!Loops
      BY SameRegions
    <2> QED BY <2>2, <2>3 DEF Control!Next
  <1>3. CASE Raise
    BY <1>3, RaiseKeeps DEF Control!Next
  <1>4. CASE BodyEnds
    BY <1>4, BodyEndsKeeps DEF Control!Next
  <1>5. CASE MatchClauses
    BY <1>5, MatchClausesKeeps DEF Control!Next
  <1>6. CASE ExitOnException
    BY <1>6, ExitOnExceptionKeeps DEF Control!Next
  <1>7. CASE \E jump \in JumpKinds : Jump(jump)
    <2>1. PICK jump \in JumpKinds : Jump(jump)
      BY <1>7
    <2>2. IInv' /\ Control!Jump(jump)
      BY <2>1, JumpKeeps
    <2>3. jump \in Control!JumpKinds
      BY SameRegions
    <2> QED BY <2>2, <2>3 DEF Control!Next
  <1>8. CASE LeaveNext
    BY <1>8, LeaveNextKeeps DEF Control!Next
  <1>9. CASE RunOff
    BY <1>9, RunOffKeeps DEF Control!Next
  <1> QED BY <1>1, <1>2, <1>3, <1>4, <1>5, <1>6, <1>7, <1>8, <1>9 DEF Next

\* So does a step of nothing.
LEMMA StutterKeeps ==
  ASSUME IInv, UNCHANGED vars
  PROVE  IInv' /\ UNCHANGED Control!vars
  <1>1. /\ where' = where /\ owed' = owed /\ ended' = ended
        /\ blocks' = blocks /\ stack' = stack /\ current' = current
    BY DEF vars
  <1>2. IInv'
    BY <1>1 DEF IInv
  <1>3. UNCHANGED Control!vars
    BY <1>1 DEF Control!vars
  <1> QED BY <1>2, <1>3

\* The inductive invariant holds of every behaviour.
THEOREM Invariant == ASSUME Odd = {} PROVE Spec => []IInv
  <1>1. Init => IInv
    BY InitHolds
  <1>2. IInv /\ [Next]_vars => IInv'
    BY StepKeeps, StutterKeeps
  <1> QED BY <1>1, <1>2, PTL DEF Spec

\* The regions, the blocks, the values and the exceptions have their types in every behaviour.
THEOREM TypeCorrect == ASSUME Odd = {} PROVE Spec => []TypeOK
  <1>1. ASSUME IInv PROVE TypeOK
    <2>1. where \in Seq(Regions) /\ owed \in Seq(Int) /\ ended \in Endings /\ blocks \in Seq(BlockSet)
          /\ current \in Raisable \cup {None}
      BY <1>1 DEF IInv, Shaped, Accounted
    <2>2. stack \in Seq(Values)
      BY <1>1 DEF IInv, Stacked, Valued
    <2> QED BY <2>1, <2>2 DEF TypeOK, Endings, Values
  <1> QED BY <1>1, Invariant, PTL

\* A finally body or a manager's exit begins exactly once, when its construct is left,
\* whatever exceptions and jumps leave it (UnwindFinallies and Unwind together).
THEOREM CleanupsExactCorrect == ASSUME Odd = {} PROVE Spec => []CleanupsExact
  <1>1. ASSUME IInv PROVE CleanupsExact
    <2>1. Opened(where, HasCleanup) \cup Opened(where, {"exiting"}) = Opened(where, HasCleanup \cup {"exiting"})
      BY DEF Opened
    <2>2. OpenCleanups = Cleanups(where)
      BY <2>1 DEF OpenCleanups, Cleanups
    <2> QED BY <1>1, <2>2 DEF IInv, Accounted, CleanupsExact
  <1> QED BY <1>1, Invariant, PTL

\* Each Except, Finally and With block belongs to an open region around the statement, so
\* Unwind can continue an exception only in a construct that is still open.
THEOREM BlocksOpenCorrect == ASSUME Odd = {} PROVE Spec => []BlocksOpen
  <1>1. ASSUME IInv, ~Abandoned(where), NEW i \in DOMAIN blocks, blocks[i].kind /= "Handler"
        PROVE  LET n == Len(blocks[i].home) IN
               \/ n <= Len(where) /\ blocks[i].home = SubSeq(where, 1, n) /\ Active(where, n)
               \/ n <= Len(where) /\ where[n] = [Last(blocks[i].home) EXCEPT !.kind = "exiting", !.exc = current]
    <2> DEFINE b == blocks[i]
               n == Len(b.home)
               r == Region(KindOf(b.kind), where[n].id, None)
               low == SubSeq(where, 1, n - 1)
    <2>1. where \in Seq(Regions) /\ Shaped(where, Len(owed)) /\ Len(owed) \in Nat /\ Len(where) \in Nat
          /\ blocks \in Seq(BlockSet) /\ i \in 1 .. Len(blocks)
      BY <1>1, Standing DEF IInv
    <2>2. PICK f \in Seq(Nat), p \in Nat : Framed(where, blocks, current, f, p)
      BY <1>1, Standing
    <2>3. Guards(where, b, f)
      BY <1>1, <2>1, <2>2 DEF Framed
    <2>4. /\ n \in Opened(where, Guarding)
          /\ where[n].kind = KindOf(b.kind) \/ (where[n].kind = "exiting" /\ b.kind = "With")
          /\ b.home = Append(low, r)
      BY <2>3 DEF Guards, At
    <2>5. n \in 1 .. Len(where) /\ n <= Len(where) /\ n \in Nat /\ Active(where, n)
      BY <2>1, <2>4 DEF Opened
    <2>6. low \in Seq(Regions) /\ Len(low) = n - 1 /\ \A j \in 1 .. (n - 1) : low[j] = where[j]
      BY <2>1, <2>5
    <2>7. RegionFits(where, n, Len(owed)) /\ (where[n].kind \in Brief => n = Len(where))
      BY <2>1, <2>5 DEF Shaped
    <2>8. b.kind \in {"Except", "Finally", "With"}
      <3>1. b \in BlockSet
        BY <2>1
      <3> QED BY <1>1, <3>1 DEF BlockSet, BlockKinds
    <2> HIDE DEF low, n, b
    <2>9. CASE where[n].kind = KindOf(b.kind)
      <3>1. where[n].kind \in Protected
        BY <2>8, <2>9 DEF KindOf, Protected
      <3>2. where[n] = r
        BY <2>7, <2>9, <3>1 DEF RegionFits
      <3>3. SubSeq(where, 1, n) = Append(low, where[n])
        <4>1. /\ SubSeq(where, 1, n) \in Seq(Regions) /\ Len(SubSeq(where, 1, n)) = n
              /\ \A j \in 1 .. n : SubSeq(where, 1, n)[j] = where[j]
          BY <2>1, <2>5
        <4>2. where[n] \in Regions
          BY <2>1, <2>5
        <4>3. Append(low, where[n]) \in Seq(Regions) /\ Len(Append(low, where[n])) = n
              /\ \A j \in 1 .. n : Append(low, where[n])[j] = where[j]
          BY <2>5, <2>6, <4>2
        <4> DEFINE s == SubSeq(where, 1, n)
                   u == Append(low, where[n])
        <4>4. s \in Seq(Regions) /\ u \in Seq(Regions) /\ Len(s) = Len(u)
              /\ \A j \in 1 .. Len(s) : s[j] = u[j]
          BY <4>1, <4>3
        <4> HIDE DEF s, u
        <4>5. s = u
          BY <4>4, SeqEqual
        <4> QED BY <4>5 DEF s, u
      <3>4. b.home = SubSeq(where, 1, n)
        BY <2>4, <3>2, <3>3
      <3> QED BY <2>5, <3>4 DEF n, b
    <2>10. CASE where[n].kind = "exiting" /\ b.kind = "With"
      <3>1. n = Len(where) /\ where /= <<>> /\ Last(where) = where[n]
        BY <2>1, <2>5, <2>7, <2>10 DEF Brief, Last
      <3>2. current = where[n].exc
        <4>1. current = Outer(where, Len(where) + 1)
          BY <2>2 DEF Framed
        <4>2. Last(where).kind \in Handling
          BY <2>10, <3>1 DEF Handling
        <4>3. Outer(where, Len(where) + 1) = Last(where).exc
          BY <2>1, <3>1, <4>2, HandlingNow
        <4> QED BY <3>1, <4>1, <4>3
      <3>3. where[n] = Region("exiting", where[n].id, where[n].exc)
        BY <2>7, <2>10 DEF RegionFits, Handling
      <3>4. Last(b.home) = r
        <4>1. Last(Append(low, r)) = r
          <5>1. r \in Regions
            <6>1. where[n].id \in Nat
              BY <2>1, <2>5, RegionTypes
            <6>2. KindOf(b.kind) \in Kinds
              BY <2>8 DEF KindOf, Kinds, Protected
            <6> QED BY <6>1, <6>2 DEF Region, Regions
          <5> QED BY <2>6, <5>1, FrontOfAppend
        <4> QED BY <2>4, <4>1
      <3>5. r = Region("with", where[n].id, None)
        BY <2>10 DEF KindOf
      <3>6. [r EXCEPT !.kind = "exiting", !.exc = current] = Region("exiting", where[n].id, current)
        <4> DEFINE one == [r EXCEPT !.kind = "exiting"]
        <4>1. one = Region("exiting", where[n].id, None)
          BY <3>5 DEF Region
        <4>2. [one EXCEPT !.exc = current] = Region("exiting", where[n].id, current)
          <5> HIDE DEF one
          <5> QED BY <4>1 DEF Region
        <4>3. [r EXCEPT !.kind = "exiting", !.exc = current] = [one EXCEPT !.exc = current]
          OBVIOUS
        <4> QED BY <4>2, <4>3
      <3>7. where[n] = [Last(b.home) EXCEPT !.kind = "exiting", !.exc = current]
        BY <3>2, <3>3, <3>4, <3>6
      <3> QED BY <2>5, <3>7 DEF n, b
    <2> QED BY <2>4, <2>9, <2>10
  <1>2. IInv => BlocksOpen
    BY <1>1 DEF BlocksOpen
  <1> QED BY <1>2, Invariant, PTL

\* The current exception is that of the innermost running handler, and there is none outside
\* handlers: a bare raise means what the source says (Unwind, EndHandler, ReRaise).
THEOREM CurrentIsHandledCorrect == ASSUME Odd = {} PROVE Spec => []CurrentIsHandled
  <1>1. ASSUME IInv, ~Abandoned(where)
        PROVE  current = LET h == LastOr0(Opened(where, Handling)) IN IF h = 0 THEN None ELSE where[h].exc
    <2>1. current = Control!Handled
      BY <1>1, CurrentHandled
    <2> QED BY <2>1, SameRegions DEF Control!Handled
  <1>2. IInv => CurrentIsHandled
    BY <1>1 DEF CurrentIsHandled
  <1> QED BY <1>2, Invariant, PTL

\* The value stack holds the iterators, the exits and the values to return in the order of the
\* nesting: what the Pops that the compiler lays down rely on.
THEOREM StackIsNestedCorrect == ASSUME Odd = {} PROVE Spec => []StackIsNested
  <1>1. ASSUME IInv PROVE StackIsNested
    <2>1. PICK f : Valued(where, stack, f)
      BY <1>1 DEF IInv, Stacked
    <2>2. /\ \A i \in 1 .. Len(f) : Cardinality({k \in Holding(where) : k <= f[i]}) = i
          /\ Cardinality(Holding(where)) = Len(f)
      BY <2>1, HoldersCount
    <2>3. /\ Len(f) = Len(stack)
          /\ \A i \in 1 .. Len(f) : stack[i] = ValueOf(where[f[i]])
          /\ \A k \in Holding(where) : \E i \in 1 .. Len(f) : f[i] = k
      BY <2>1 DEF Valued
    <2>4. ASSUME NEW k \in Holding(where)
          PROVE  stack[Cardinality({j \in Holding(where) : j <= k})] = ValueOf(where[k])
      <3>1. PICK i \in 1 .. Len(f) : f[i] = k
        BY <2>3
      <3>2. Cardinality({j \in Holding(where) : j <= k}) = i
        BY <2>2, <3>1
      <3> QED BY <2>3, <3>1, <3>2
    <2> QED BY <2>2, <2>3, <2>4 DEF StackIsNested
  <1> QED BY <1>1, Invariant, PTL

\* The block stack and the value stack implement the language: whatever is raised and wherever a
\* jump goes, every step of the frame is one that the nesting of the constructs allows.
THEOREM ImplementsControlCorrect == ASSUME Odd = {} PROVE Spec => ImplementsControl
  <1>1. Init => IInv /\ Control!Init
    BY InitHolds
  <1>2. IInv /\ [Next]_vars => IInv' /\ [Control!Next]_Control!vars
    BY StepKeeps, StutterKeeps
  <1> QED BY <1>1, <1>2, PTL DEF Spec, ImplementsControl, Control!Spec
=============================================================================
