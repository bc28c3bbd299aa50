--------------------------- MODULE PythonCalls_proofs ---------------------------
(***************************************************************************)
(* However the bodies of a program nest on the host's stack, and however   *)
(* they are left, every counter, every object and every module says what   *)
(* is under way: for any limits, any number of objects and any libraries.  *)
(*                                                                         *)
(* The argument: an object is running exactly while one body of the stack  *)
(* runs it, and a name is being resolved exactly while one body builds it. *)
(* So a body that is pushed takes what nobody has, a body that is popped   *)
(* gives back what nobody else has, and what an object was started and     *)
(* told follows from the state that it is in.                              *)
(***************************************************************************)
EXTENDS PythonCalls, FiniteSetTheorems, SequenceTheorems, TLAPS

-----------------------------------------------------------------------------
BodyType == [kind : Frames \cup {"level", "gather"},
             of : {None} \cup Names \cup (1 .. MaxObjects), at : 1 .. 3]
ObjectType == [type : {"generator", "coroutine", "future"},
               state : {"fresh", "running", "suspended", "over", "settled", "failed"},
               parts : Seq(1 .. MaxObjects), finished : BOOLEAN,
               source : 0 .. MaxObjects, inTry : BOOLEAN]

\* The bodies that run an object, and the objects there may be.
Works == {"generator", "coroutine", "gather"}
AllIds == 1 .. MaxObjects

\* What the bodies of some kinds hold, of the things in X; nobody holds what another holds.
Held(st, K, X) == {st[i].of : i \in {j \in DOMAIN st : st[j].kind \in K}} \cap X
Owned(st, K, X) ==
    \A i, j \in DOMAIN st :
        st[i].kind \in K /\ st[j].kind \in K /\ st[i].of \in X /\ st[i].of = st[j].of => i = j

Marks(st, X) == {i \in DOMAIN st : st[i] \in X}
ChargedBodies == {b \in BodyType : Charged(b)}

\* A body is of a kind that suits what it holds.
Fits(b, os) ==
    /\ b.kind = "module" => b.of \in Names \cup {None}
    /\ b.kind \in Works => b.of \in DOMAIN os
    /\ b.kind \in {"generator", "coroutine"} => os[b.of].type = b.kind
    /\ b.kind = "gather" => os[b.of].type = "future" /\ b.at <= Len(os[b.of].parts) + 1

\* A gather that waits for a part has one to wait for.
Waits(b, os) == b.kind = "gather" => b.at <= Len(os[b.of].parts)

Stacked(st, c, os) ==
    /\ st = <<>> <=> c \in {"ending", "over"}
    /\ st /= <<>> => st[1].kind = "module"
    /\ \A i \in DOMAIN st : Fits(st[i], os) /\ (i < Len(st) \/ c /= "run" => Waits(st[i], os))
    /\ Owned(st, Works, AllIds) /\ Owned(st, {"module"}, Names)

Running(st, os) ==
    \A i \in DOMAIN os : os[i].state = "running" <=> i \in Held(st, Works, AllIds)

\* An object among os in a state that objects of its type have.
States(type) ==
    CASE type = "generator" -> {"fresh", "running", "suspended", "over"}
      [] type = "coroutine" -> {"fresh", "running", "over"}
      [] OTHER -> {"fresh", "running", "settled", "failed"}
Sound(o, os) ==
    /\ o.state \in States(o.type)
    /\ Len(o.parts) <= 2 /\ \A j \in 1 .. Len(o.parts) : o.parts[j] \in DOMAIN os
    /\ o.source /= NoSource => o.source \in DOMAIN os /\ os[o.source].type = "generator"

\* What those who awaited an object may have been told.
Outcomes(o) ==
    CASE o.state = "settled" -> {"value"}
      [] o.state = "failed" -> {"failure"}
      [] OTHER -> {}

\* What happened to object i, of which o is left, unless it happened from within itself.
Happened(o, i, h) ==
    /\ h.started[i] <= 1
    /\ o.state = "fresh" => h.started[i] = 0
    /\ i \notin h.reentered => h.told[i] \subseteq Outcomes(o) /\ (o.finished => o.state = "over")
Records(os, h) ==
    /\ \A i \in DOMAIN os : Happened(os[i], i, h)
    /\ \A i \in AllIds \ DOMAIN os : h.started[i] = 0 /\ h.told[i] = {}

Built(st, rs, ms, h) ==
    /\ rs = Held(st, {"module"}, Names) /\ rs \cap ms = {}
    /\ \A n \in Names : h.built[n] = IF n \in ms THEN 1 ELSE 0

Counted(st, d) == d = Cardinality(Marks(st, ChargedBodies)) /\ d <= MaxRecursionDepth

Completed(c, cs, h) ==
    /\ cs.next = h.attempted + 1 /\ cs.next <= cs.due + 1
    /\ c = "over" => cs.next = cs.due + 1

IInv ==
    /\ TypeOK
    /\ Stacked(stack, ctl, objects) /\ Running(stack, objects)
    /\ Len(objects) <= MaxObjects /\ \A i \in Ids : Sound(objects[i], objects)
    /\ Records(objects, history)
    /\ Built(stack, resolving, modules, history)
    /\ Counted(stack, depth)
    /\ Completed(ctl, completions, history)

-----------------------------------------------------------------------------
\* ---- stacks that are pushed, popped or changed in place ----

\* Appending an element leaves the others where they are.
LEMMA Appended ==
  ASSUME NEW S, NEW s \in Seq(S), NEW e \in S
  PROVE  /\ Append(s, e) \in Seq(S) /\ Append(s, e) /= <<>>
         /\ Len(Append(s, e)) = Len(s) + 1
         /\ DOMAIN Append(s, e) = 1 .. Len(s) + 1
         /\ \A j \in 1 .. Len(s) + 1 : Append(s, e)[j] = IF j = Len(s) + 1 THEN e ELSE s[j]
         /\ Len(s) \in Nat /\ DOMAIN s = 1 .. Len(s)
         /\ \A j \in 1 .. Len(s) : s[j] \in S
  <1>1. /\ Append(s, e) \in Seq(S)
        /\ Len(Append(s, e)) = Len(s) + 1
        /\ DOMAIN Append(s, e) = 1 .. Len(s) + 1
        /\ \A j \in 1 .. Len(s) + 1 : Append(s, e)[j] = IF j = Len(s) + 1 THEN e ELSE s[j]
        /\ Len(s) \in Nat /\ DOMAIN s = 1 .. Len(s)
        /\ \A j \in 1 .. Len(s) : s[j] \in S
    BY AppendProperties, LenProperties, ElementOfSeq
  <1>2. Append(s, e) /= <<>>
    BY <1>1, EmptySeq
  <1> QED BY <1>1, <1>2

\* Removing the last element of a sequence leaves the others where they are.
LEMMA Fronted ==
  ASSUME NEW S, NEW s \in Seq(S), s /= <<>>
  PROVE  /\ Front(s) \in Seq(S) /\ Len(Front(s)) = Len(s) - 1
         /\ DOMAIN Front(s) = 1 .. Len(s) - 1 /\ DOMAIN s = 1 .. Len(s)
         /\ \A i \in 1 .. Len(s) - 1 : Front(s)[i] = s[i]
         /\ Len(s) \in Nat \ {0} /\ Len(s) - 1 \in Nat /\ Len(s) \in 1 .. Len(s)
         /\ Last(s) = s[Len(s)] /\ \A i \in 1 .. Len(s) : s[i] \in S
         /\ Front(s) = <<>> <=> Len(s) = 1
  <1> DEFINE n == Len(s) - 1
  <1>1. /\ Len(s) \in Nat \ {0} /\ n \in Nat /\ Len(s) = n + 1 /\ Len(s) \in 1 .. Len(s)
        /\ DOMAIN s = 1 .. Len(s)
    BY EmptySeq, LenProperties
  <1>2. \A i \in 1 .. Len(s) : s[i] \in S
    BY ElementOfSeq
  <1>3. Front(s) = SubSeq(s, 1, n)
    BY DEF Front
  <1> HIDE DEF n
  <1>4. /\ SubSeq(s, 1, n) \in Seq(S)
        /\ Len(SubSeq(s, 1, n)) = IF 1 <= n THEN n - 1 + 1 ELSE 0
        /\ \A i \in 1 .. n - 1 + 1 : SubSeq(s, 1, n)[i] = s[1 + i - 1]
    BY <1>1, <1>2, SubSeqProperties
  <1>5. Len(SubSeq(s, 1, n)) = n /\ \A i \in 1 .. n : SubSeq(s, 1, n)[i] = s[i]
    <2>1. n - 1 + 1 = n /\ \A i \in 1 .. n : 1 + i - 1 = i
      BY <1>1
    <2> QED BY <1>1, <1>4, <2>1
  <1>6. DOMAIN SubSeq(s, 1, n) = 1 .. n
    BY <1>4, <1>5, LenProperties
  <1>7. SubSeq(s, 1, n) = <<>> <=> n = 0
    BY <1>1, <1>4, <1>5, EmptySeq
  <1>8. Last(s) = s[Len(s)]
    BY DEF Last
  <1>9. n = Len(s) - 1 /\ (n = 0 <=> Len(s) = 1)
    BY <1>1
  <1> QED BY <1>1, <1>2, <1>3, <1>4, <1>5, <1>6, <1>7, <1>8, <1>9

\* A body that is pushed holds what it names.
LEMMA HeldPushed ==
  ASSUME NEW s \in Seq(BodyType), NEW b \in BodyType, NEW K, NEW X
  PROVE  /\ b.kind \in K /\ b.of \in X => Held(Append(s, b), K, X) = Held(s, K, X) \cup {b.of}
         /\ ~(b.kind \in K /\ b.of \in X) => Held(Append(s, b), K, X) = Held(s, K, X)
         /\ Owned(s, K, X) /\ (b.kind \in K /\ b.of \in X => b.of \notin Held(s, K, X))
               => Owned(Append(s, b), K, X)
  <1>1. /\ DOMAIN Append(s, b) = 1 .. Len(s) + 1 /\ DOMAIN s = 1 .. Len(s) /\ Len(s) \in Nat
        /\ \A j \in 1 .. Len(s) + 1 : Append(s, b)[j] = IF j = Len(s) + 1 THEN b ELSE s[j]
    BY Appended
  <1>2. b.kind \in K /\ b.of \in X => Held(Append(s, b), K, X) = Held(s, K, X) \cup {b.of}
    BY <1>1 DEF Held
  <1>3. ~(b.kind \in K /\ b.of \in X) => Held(Append(s, b), K, X) = Held(s, K, X)
    BY <1>1 DEF Held
  <1>4. ASSUME Owned(s, K, X), b.kind \in K /\ b.of \in X => b.of \notin Held(s, K, X)
        PROVE  Owned(Append(s, b), K, X)
    <2>1. \A i \in 1 .. Len(s) : s[i].kind \in K /\ s[i].of \in X => s[i].of \in Held(s, K, X)
      BY <1>1 DEF Held
    <2> QED BY <1>1, <1>4, <2>1 DEF Owned
  <1> QED BY <1>2, <1>3, <1>4

\* A body that is popped gives back what it held, which nobody else has.
LEMMA HeldPopped ==
  ASSUME NEW s \in Seq(BodyType), s /= <<>>, NEW K, NEW X, Owned(s, K, X)
  PROVE  /\ Owned(Front(s), K, X)
         /\ Last(s).kind \in K => Held(Front(s), K, X) = Held(s, K, X) \ {Last(s).of}
         /\ Last(s).kind \in K /\ Last(s).of \in X => Last(s).of \in Held(s, K, X)
         /\ Last(s).kind \notin K => Held(Front(s), K, X) = Held(s, K, X)
  <1>1. /\ DOMAIN Front(s) = 1 .. Len(s) - 1 /\ DOMAIN s = 1 .. Len(s) /\ Len(s) \in Nat \ {0}
        /\ \A i \in 1 .. Len(s) - 1 : Front(s)[i] = s[i]
        /\ Last(s) = s[Len(s)] /\ Len(s) \in 1 .. Len(s)
    BY Fronted
  <1>2. Owned(Front(s), K, X)
    BY <1>1 DEF Owned
  <1>3. ASSUME Last(s).kind \in K
        PROVE  Held(Front(s), K, X) = Held(s, K, X) \ {Last(s).of}
    <2>1. \A i \in 1 .. Len(s) - 1 : s[i].kind \in K /\ s[i].of \in X => s[i].of /= Last(s).of
      BY <1>1, <1>3 DEF Owned
    <2> QED BY <1>1, <1>3, <2>1 DEF Held
  <1>4. Last(s).kind \in K /\ Last(s).of \in X => Last(s).of \in Held(s, K, X)
    BY <1>1 DEF Held
  <1>5. Last(s).kind \notin K => Held(Front(s), K, X) = Held(s, K, X)
    BY <1>1 DEF Held
  <1> QED BY <1>2, <1>3, <1>4, <1>5

\* The marked positions of a sequence are finitely many.
LEMMA MarksFinite ==
  ASSUME NEW S, NEW s \in Seq(S), NEW X
  PROVE  IsFiniteSet(Marks(s, X)) /\ Cardinality(Marks(s, X)) \in Nat
  <1>1. Len(s) \in Nat /\ DOMAIN s = 1 .. Len(s)
    BY LenProperties
  <1>2. IsFiniteSet(1 .. Len(s))
    BY <1>1, FS_Interval
  <1>3. Marks(s, X) \subseteq 1 .. Len(s)
    BY <1>1 DEF Marks
  <1>4. IsFiniteSet(Marks(s, X))
    BY <1>2, <1>3, FS_Subset
  <1> QED BY <1>4, FS_CardinalityType

\* One more element is one more mark, if it is in the set.
LEMMA MarksPushed ==
  ASSUME NEW S, NEW s \in Seq(S), NEW e \in S, NEW X
  PROVE  Cardinality(Marks(Append(s, e), X)) = Cardinality(Marks(s, X)) + (IF e \in X THEN 1 ELSE 0)
  <1>1. /\ DOMAIN Append(s, e) = 1 .. Len(s) + 1 /\ DOMAIN s = 1 .. Len(s) /\ Len(s) \in Nat
        /\ \A j \in 1 .. Len(s) + 1 : Append(s, e)[j] = IF j = Len(s) + 1 THEN e ELSE s[j]
    BY Appended
  <1>2. IsFiniteSet(Marks(s, X)) /\ Cardinality(Marks(s, X)) \in Nat
    BY MarksFinite
  <1>3. Marks(Append(s, e), X) = Marks(s, X) \cup (IF e \in X THEN {Len(s) + 1} ELSE {})
    BY <1>1 DEF Marks
  <1>4. Len(s) + 1 \notin Marks(s, X)
    BY <1>1 DEF Marks
  <1>5. CASE e \in X
    BY <1>2, <1>3, <1>4, <1>5, FS_AddElement
  <1>6. CASE e \notin X
    BY <1>2, <1>3, <1>6
  <1> QED BY <1>5, <1>6

\* One element less is one mark less, if it was in the set.
LEMMA MarksPopped ==
  ASSUME NEW S, NEW s \in Seq(S), s /= <<>>, NEW X
  PROVE  /\ Cardinality(Marks(s, X)) \in Nat
         /\ Cardinality(Marks(Front(s), X)) = Cardinality(Marks(s, X)) - (IF Last(s) \in X THEN 1 ELSE 0)
  <1>1. /\ Front(s) \in Seq(S) /\ DOMAIN Front(s) = 1 .. Len(s) - 1 /\ DOMAIN s = 1 .. Len(s)
        /\ Len(s) \in Nat \ {0} /\ \A i \in 1 .. Len(s) - 1 : Front(s)[i] = s[i]
        /\ Last(s) = s[Len(s)]
    BY Fronted
  <1>2. Cardinality(Marks(s, X)) \in Nat
    BY MarksFinite
  <1>3. IsFiniteSet(Marks(Front(s), X)) /\ Cardinality(Marks(Front(s), X)) \in Nat
    BY <1>1, MarksFinite
  <1>4. Marks(s, X) = Marks(Front(s), X) \cup (IF Last(s) \in X THEN {Len(s)} ELSE {})
    BY <1>1 DEF Marks
  <1>5. Len(s) \notin Marks(Front(s), X)
    BY <1>1 DEF Marks
  <1>6. CASE Last(s) \in X
    <2>1. Marks(s, X) = Marks(Front(s), X) \cup {Len(s)}
      BY <1>4, <1>6
    <2>2. Cardinality(Marks(s, X)) = Cardinality(Marks(Front(s), X)) + 1
      BY <1>3, <1>5, <2>1, FS_AddElement
    <2> QED BY <1>3, <1>6, <2>2
  <1>7. CASE Last(s) \notin X
    BY <1>2, <1>3, <1>4, <1>7
  <1> QED BY <1>2, <1>6, <1>7

-----------------------------------------------------------------------------
\* ---- what the state is made of ----

\* The types of the parts of the state, and what is there on the stack.
LEMMA Typed ==
  ASSUME IInv
  PROVE  /\ stack \in Seq(BodyType) /\ DOMAIN stack = 1 .. Len(stack) /\ Len(stack) \in Nat
         /\ \A i \in DOMAIN stack : stack[i] \in BodyType /\ Fits(stack[i], objects)
         /\ objects \in Seq(ObjectType) /\ Ids = 1 .. Len(objects) /\ Len(objects) \in Nat
         /\ Ids \subseteq AllIds
         /\ \A i \in Ids : objects[i] \in ObjectType /\ Sound(objects[i], objects)
         /\ stack /= <<>> => Top \in BodyType /\ Fits(Top, objects) /\ Len(stack) \in DOMAIN stack
                             /\ Top = stack[Len(stack)]
         /\ MaxObjects \in Nat /\ MaxInstructions \in Nat /\ MaxRecursionDepth \in Nat \ {0}
         /\ history \in History /\ completions \in [due : Nat, next : Nat \ {0}]
         /\ modules \subseteq Names /\ resolving \subseteq Names
         /\ depth \in Int /\ recursionLimit \in 1 .. MaxRecursionDepth
         /\ instructions \in 0 .. MaxInstructions
  <1>1. stack \in Seq(BodyType) /\ objects \in Seq(ObjectType)
    BY DEF IInv, TypeOK, BodyType, ObjectType
  <1>2. MaxObjects \in Nat /\ MaxInstructions \in Nat /\ MaxRecursionDepth \in Nat \ {0}
    BY LimitsAreNatural
  <1>3. /\ DOMAIN stack = 1 .. Len(stack) /\ Len(stack) \in Nat
        /\ \A i \in DOMAIN stack : stack[i] \in BodyType
        /\ Ids = 1 .. Len(objects) /\ Len(objects) \in Nat
        /\ \A i \in Ids : objects[i] \in ObjectType
    BY <1>1, LenProperties, ElementOfSeq DEF Ids
  <1>4. \A i \in DOMAIN stack : Fits(stack[i], objects)
    BY DEF IInv, Stacked
  <1>5. Ids \subseteq AllIds
    BY <1>2, <1>3 DEF IInv, AllIds
  <1>6. ASSUME stack /= <<>>
        PROVE  Top = stack[Len(stack)] /\ Len(stack) \in DOMAIN stack
    BY <1>1, <1>6, Fronted DEF Top
  <1>7. \A i \in Ids : Sound(objects[i], objects)
    BY DEF IInv
  <1>8. /\ history \in History /\ completions \in [due : Nat, next : Nat \ {0}]
        /\ modules \subseteq Names /\ resolving \subseteq Names
        /\ depth \in Int /\ recursionLimit \in 1 .. MaxRecursionDepth
        /\ instructions \in 0 .. MaxInstructions
    BY DEF IInv, TypeOK
  <1> QED BY <1>1, <1>2, <1>3, <1>4, <1>5, <1>6, <1>7, <1>8

\* A body suits objects that keep their types and parts.
SameKind(os, os2) ==
  /\ DOMAIN os \subseteq DOMAIN os2
  /\ \A i \in DOMAIN os : os2[i].type = os[i].type /\ os2[i].parts = os[i].parts

\* What a block works on stays what it is while objects only change state.
LEMMA FitsStill ==
  ASSUME NEW b, NEW os, NEW os2, SameKind(os, os2), Fits(b, os)
  PROVE  Fits(b, os2) /\ (Waits(b, os) => Waits(b, os2))
  <1>1. b.kind \in Works => b.of \in DOMAIN os /\ b.of \in DOMAIN os2
    BY DEF Fits, SameKind
  <1>2. b.kind \in {"generator", "coroutine", "gather"} <=> b.kind \in Works
    BY DEF Works
  <1>3. Fits(b, os2)
    BY <1>1, <1>2 DEF Fits, SameKind
  <1>4. Waits(b, os) => Waits(b, os2)
    BY <1>1, <1>2 DEF Waits, SameKind
  <1> QED BY <1>3, <1>4

\* An object that is sound among some objects is sound among more of the same kind.
LEMMA SoundStill ==
  ASSUME NEW o, NEW os, NEW os2, SameKind(os, os2), Sound(o, os)
  PROVE  Sound(o, os2)
  BY DEF Sound, SameKind

\* One object changes in a way that its type allows.
LEMMA ObjectChanged ==
  ASSUME IInv, NEW k \in Ids, NEW o \in ObjectType,
         o.type = objects[k].type, o.parts = objects[k].parts, Sound(o, objects),
         objects' = [objects EXCEPT ![k] = o]
  PROVE  /\ objects' \in Seq(ObjectType) /\ Len(objects') = Len(objects) /\ Ids' = Ids
         /\ \A i \in Ids : objects'[i] = IF i = k THEN o ELSE objects[i]
         /\ SameKind(objects, objects')
         /\ Len(objects') <= MaxObjects /\ \A i \in Ids' : Sound(objects'[i], objects')
  <1>1. objects \in Seq(ObjectType) /\ Ids = 1 .. Len(objects)
    BY Typed
  <1>2. /\ objects' \in Seq(ObjectType) /\ Len(objects') = Len(objects)
        /\ \A i \in Ids : objects'[i] = IF i = k THEN o ELSE objects[i]
    BY <1>1, ExceptSeq
  <1>3. Ids' = Ids
    BY <1>1, <1>2, LenProperties DEF Ids
  <1>4. SameKind(objects, objects')
    BY <1>2, <1>3 DEF SameKind, Ids
  <1>5. Len(objects') <= MaxObjects
    BY <1>2 DEF IInv
  <1>6. \A i \in Ids' : Sound(objects'[i], objects')
    <2> TAKE i \in Ids'
    <2>1. Sound(objects'[i], objects)
      BY <1>2, <1>3, Typed
    <2> QED BY <1>4, <2>1, SoundStill
  <1> QED BY <1>2, <1>3, <1>4, <1>5, <1>6

-----------------------------------------------------------------------------
\* ---- what happens to the objects ----

\* After a step the objects are sound, of the kinds they were, and what happened to them is told.
HeapKept ==
  /\ objects' \in Seq(ObjectType) /\ Len(objects') <= MaxObjects
  /\ \A i \in Ids' : Sound(objects'[i], objects')
  /\ SameKind(objects, objects')
  /\ history' \in History /\ Records(objects', history')

\* Nothing happens to them.
LEMMA HeapStays ==
  ASSUME IInv, objects' = objects, history' \in History,
         history'.started = history.started, history'.told = history.told,
         history'.reentered = history.reentered
  PROVE  HeapKept
  <1>1. /\ objects \in Seq(ObjectType) /\ Len(objects) <= MaxObjects
        /\ \A i \in Ids : Sound(objects[i], objects)
    BY Typed DEF IInv
  <1>2. SameKind(objects, objects)
    BY DEF SameKind
  <1>3. Records(objects, history)
    BY DEF IInv
  <1>4. Records(objects, history')
    BY <1>3 DEF Records, Happened
  <1>5. Ids' = Ids
    BY DEF Ids
  <1> QED BY <1>1, <1>2, <1>4, <1>5 DEF HeapKept

\* Something happens to one of them, and what happened to the others stays.
LEMMA HeapChanges ==
  ASSUME IInv, NEW k \in Ids, NEW o \in ObjectType,
         o.type = objects[k].type, o.parts = objects[k].parts, Sound(o, objects),
         objects' = [objects EXCEPT ![k] = o],
         history' \in History, Happened(o, k, history'),
         \A i \in AllIds \ {k} : /\ history'.started[i] = history.started[i]
                                 /\ history'.told[i] = history.told[i]
                                 /\ i \in history'.reentered <=> i \in history.reentered
  PROVE  /\ HeapKept /\ Ids' = Ids
         /\ \A i \in Ids : objects'[i] = IF i = k THEN o ELSE objects[i]
  <1>1. /\ objects' \in Seq(ObjectType) /\ Ids' = Ids
        /\ \A i \in Ids : objects'[i] = IF i = k THEN o ELSE objects[i]
        /\ SameKind(objects, objects')
        /\ Len(objects') <= MaxObjects /\ \A i \in Ids' : Sound(objects'[i], objects')
    BY ObjectChanged
  <1>2. Records(objects, history) /\ Ids \subseteq AllIds
    BY Typed DEF IInv
  <1>3. \A i \in Ids : Happened(objects'[i], i, history')
    <2> TAKE i \in Ids
    <2>1. CASE i = k
      BY <1>1, <2>1
    <2>2. CASE i /= k
      <3>1. Happened(objects[i], i, history) /\ objects'[i] = objects[i] /\ i \in AllIds \ {k}
        BY <1>1, <1>2, <2>2 DEF Records, Ids
      <3> QED BY <3>1 DEF Happened
    <2> QED BY <2>1, <2>2
  <1>4. \A i \in AllIds \ DOMAIN objects' : history'.started[i] = 0 /\ history'.told[i] = {}
    <2> TAKE i \in AllIds \ DOMAIN objects'
    <2>1. i \in AllIds \ DOMAIN objects /\ i \in AllIds \ {k}
      BY <1>1 DEF Ids
    <2> QED BY <1>2, <2>1 DEF Records
  <1>5. Records(objects', history')
    BY <1>1, <1>3, <1>4 DEF Records, Ids
  <1> QED BY <1>1, <1>5 DEF HeapKept

\* One more is made, fresh or settled, with no body of its own under way.
LEMMA HeapGrows ==
  ASSUME IInv, Len(objects) < MaxObjects, NEW o \in ObjectType,
         o.state \in {"fresh", "settled"}, o.finished = FALSE, Sound(o, objects),
         objects' = Append(objects, o), history' = history
  PROVE  /\ HeapKept
         /\ \A i \in Ids' : objects'[i].state = "running" <=> i \in Ids /\ objects[i].state = "running"
  <1>1. /\ objects \in Seq(ObjectType) /\ Ids = 1 .. Len(objects) /\ Len(objects) \in Nat
        /\ MaxObjects \in Nat /\ \A i \in Ids : Sound(objects[i], objects)
        /\ history \in History
    BY Typed
  <1>2. /\ objects' \in Seq(ObjectType) /\ Len(objects') = Len(objects) + 1
        /\ Ids' = 1 .. Len(objects) + 1
        /\ \A i \in Ids' : objects'[i] = IF i = Len(objects) + 1 THEN o ELSE objects[i]
    BY <1>1, Appended DEF Ids
  <1>3. SameKind(objects, objects')
    BY <1>1, <1>2 DEF SameKind, Ids
  <1>4. \A i \in Ids' : Sound(objects'[i], objects')
    <2> TAKE i \in Ids'
    <2>1. Sound(objects'[i], objects)
      BY <1>1, <1>2
    <2> QED BY <1>3, <2>1, SoundStill
  <1>5. Records(objects', history')
    <2>1. Records(objects, history)
      BY DEF IInv
    <2>2. Happened(o, Len(objects) + 1, history)
      <3>1. Len(objects) + 1 \in AllIds \ DOMAIN objects
        BY <1>1 DEF AllIds, Ids
      <3>2. history.started[Len(objects) + 1] = 0 /\ history.told[Len(objects) + 1] = {}
        BY <2>1, <3>1 DEF Records
      <3> QED BY <3>2 DEF Happened
    <2>3. \A i \in Ids' : Happened(objects'[i], i, history)
      BY <1>1, <1>2, <2>1, <2>2 DEF Records, Ids
    <2>4. \A i \in AllIds \ Ids' : history.started[i] = 0 /\ history.told[i] = {}
      BY <1>1, <1>2, <2>1 DEF Records, Ids
    <2> QED BY <2>3, <2>4 DEF Records, Ids
  <1>6. \A i \in Ids' : objects'[i].state = "running" <=> i \in Ids /\ objects[i].state = "running"
    BY <1>1, <1>2
  <1>7. Len(objects') <= MaxObjects
    BY <1>1, <1>2
  <1> QED BY <1>1, <1>2, <1>3, <1>4, <1>5, <1>6, <1>7 DEF HeapKept

-----------------------------------------------------------------------------
\* ---- the moves on the stack ----

Ended == {"ending", "over"}
Goes == {"run", "value", "exhausted", "raise"}
AllWait == \A i \in DOMAIN stack : Waits(stack[i], objects)

\* The stack stays, and so does what it runs.
LEMMA Stays ==
  ASSUME IInv, HeapKept, stack' = stack, ctl \notin Ended, ctl' \in Goes, ctl' = "run" \/ AllWait,
         \A i \in Ids' : objects'[i].state = "running" <=> i \in Ids /\ objects[i].state = "running"
  PROVE  Stacked(stack', ctl', objects') /\ Running(stack', objects')
  <1>1. Stacked(stack, ctl, objects) /\ Running(stack, objects)
    BY DEF IInv
  <1>2. SameKind(objects, objects')
    BY DEF HeapKept
  <1>3. \A i \in DOMAIN stack :
           Fits(stack[i], objects') /\ (i < Len(stack) \/ ctl' /= "run" => Waits(stack[i], objects'))
    <2> TAKE i \in DOMAIN stack
    <2>1. Fits(stack[i], objects) /\ (i < Len(stack) \/ ctl' /= "run" => Waits(stack[i], objects))
      BY <1>1 DEF Stacked, AllWait
    <2> QED BY <1>2, <2>1, FitsStill
  <1>4. Stacked(stack', ctl', objects')
    BY <1>1, <1>3 DEF Stacked, Ended, Goes
  <1>5. Running(stack', objects')
    <2>1. Held(stack, Works, AllIds) \subseteq Ids
      BY Typed DEF Held, Fits, Ids
    <2>2. \A i \in Ids : objects[i].state = "running" <=> i \in Held(stack, Works, AllIds)
      BY <1>1 DEF Running, Ids
    <2> QED BY <2>1, <2>2 DEF Running, Ids
  <1> QED BY <1>4, <1>5

\* A body is pushed, on one that waits for it.
LEMMA Pushed ==
  ASSUME IInv, HeapKept, NEW b \in BodyType, stack' = Append(stack, b), ctl \notin Ended, ctl' = "run",
         AllWait, Fits(b, objects'),
         b.kind \in Works => b.of \in Ids \ Held(stack, Works, AllIds),
         b.kind = "module" => b.of \in Names \ Held(stack, {"module"}, Names),
         \A i \in Ids' : objects'[i].state = "running"
                            <=> i \in Ids /\ (objects[i].state = "running" \/ (b.kind \in Works /\ i = b.of))
  PROVE  /\ stack' \in Seq(BodyType) /\ Stacked(stack', ctl', objects') /\ Running(stack', objects')
         /\ Held(stack', {"module"}, Names)
               = Held(stack, {"module"}, Names) \cup (IF b.kind = "module" THEN {b.of} ELSE {})
  <1>1. Stacked(stack, ctl, objects) /\ Running(stack, objects)
    BY DEF IInv
  <1>2. SameKind(objects, objects')
    BY DEF HeapKept
  <1>3. /\ stack' \in Seq(BodyType) /\ stack' /= <<>> /\ DOMAIN stack' = 1 .. Len(stack) + 1
        /\ Len(stack') = Len(stack) + 1 /\ Len(stack) \in Nat /\ DOMAIN stack = 1 .. Len(stack)
        /\ \A i \in 1 .. Len(stack) + 1 : stack'[i] = IF i = Len(stack) + 1 THEN b ELSE stack[i]
    BY Typed, Appended
  <1>4. stack'[1].kind = "module"
    <2>1. stack /= <<>> /\ stack[1].kind = "module"
      BY <1>1 DEF Stacked, Ended
    <2>2. Len(stack) /= 0
      BY <2>1, Typed, EmptySeq
    <2>3. 1 \in 1 .. Len(stack) + 1 /\ 1 /= Len(stack) + 1
      BY <1>3, <2>2
    <2> QED BY <1>3, <2>1, <2>3
  <1>5. \A i \in DOMAIN stack' : Fits(stack'[i], objects') /\ (i < Len(stack') => Waits(stack'[i], objects'))
    <2> TAKE i \in DOMAIN stack'
    <2>1. CASE i = Len(stack) + 1
      BY <1>3, <2>1
    <2>2. CASE i /= Len(stack) + 1
      <3>1. i \in DOMAIN stack
        BY <1>3, <2>2
      <3>2. Fits(stack[i], objects) /\ Waits(stack[i], objects)
        BY <1>1, <3>1 DEF Stacked, AllWait
      <3>3. Fits(stack[i], objects') /\ Waits(stack[i], objects')
        BY <1>2, <3>2, FitsStill
      <3> QED BY <1>3, <2>2, <3>3
    <2> QED BY <2>1, <2>2
  <1>6. stack \in Seq(BodyType) /\ Ids \subseteq AllIds
    BY Typed
  <1>7. Owned(stack, Works, AllIds) /\ Owned(stack, {"module"}, Names)
    BY <1>1 DEF Stacked
  <1>8. Owned(stack', Works, AllIds) /\ Owned(stack', {"module"}, Names)
    BY <1>6, <1>7, HeldPushed
  <1>9. Stacked(stack', ctl', objects')
    BY <1>3, <1>4, <1>5, <1>8 DEF Stacked
  <1>10. Held(stack', {"module"}, Names)
               = Held(stack, {"module"}, Names) \cup (IF b.kind = "module" THEN {b.of} ELSE {})
    <2>1. CASE b.kind = "module"
      <3>1. b.kind \in {"module"} /\ b.of \in Names
        BY <2>1
      <3> QED BY <1>6, <2>1, <3>1, HeldPushed
    <2>2. CASE b.kind /= "module"
      <3>1. b.kind \notin {"module"}
        BY <2>2
      <3> QED BY <1>6, <2>2, <3>1, HeldPushed
    <2> QED BY <2>1, <2>2
  <1>11. Running(stack', objects')
    <2>1. Held(stack, Works, AllIds) \subseteq Ids
      BY Typed DEF Held, Fits, Ids
    <2>2. \A i \in Ids : objects[i].state = "running" <=> i \in Held(stack, Works, AllIds)
      BY <1>1 DEF Running, Ids
    <2>3. CASE b.kind \in Works
      <3>1. Held(stack', Works, AllIds) = Held(stack, Works, AllIds) \cup {b.of}
        BY <1>6, <2>3, HeldPushed
      <3>2. b.of \in Ids
        BY <2>3
      <3>3. \A i : i \in Held(stack', Works, AllIds) <=> i \in Held(stack, Works, AllIds) \/ i = b.of
        BY <3>1
      <3>4. \A i : i \in Held(stack', Works, AllIds)
                      <=> i \in Ids /\ (objects[i].state = "running" \/ i = b.of)
        BY <2>1, <2>2, <3>2, <3>3
      <3>5. \A i \in Ids' : objects'[i].state = "running" <=> i \in Held(stack', Works, AllIds)
        BY <2>3, <3>4
      <3> QED BY <3>5 DEF Running, Ids
    <2>4. CASE b.kind \notin Works
      <3>1. Held(stack', Works, AllIds) = Held(stack, Works, AllIds)
        BY <1>6, <2>4, HeldPushed
      <3>2. \A i : i \in Held(stack', Works, AllIds) <=> i \in Ids /\ objects[i].state = "running"
        BY <2>1, <2>2, <3>1
      <3>3. \A i \in Ids' : objects'[i].state = "running" <=> i \in Held(stack', Works, AllIds)
        BY <2>4, <3>2
      <3> QED BY <3>3 DEF Running, Ids
    <2> QED BY <2>3, <2>4
  <1> QED BY <1>3, <1>9, <1>10, <1>11

\* A body is popped, with what it runs.
LEMMA Popped ==
  ASSUME IInv, HeapKept, stack /= <<>>, stack' = Front(stack), NEW how \in Goes,
         ctl' = IF Len(stack) = 1 THEN "ending" ELSE how,
         \A i \in Ids' : objects'[i].state = "running"
                            <=> (i \in Ids /\ objects[i].state = "running" /\ ~(Top.kind \in Works /\ i = Top.of))
  PROVE  /\ stack' \in Seq(BodyType) /\ Stacked(stack', ctl', objects') /\ Running(stack', objects')
         /\ Held(stack', {"module"}, Names)
               = Held(stack, {"module"}, Names) \ (IF Top.kind = "module" THEN {Top.of} ELSE {})
         /\ Top.kind = "module" /\ Top.of \in Names => Top.of \in Held(stack, {"module"}, Names)
  <1>1. Stacked(stack, ctl, objects) /\ Running(stack, objects)
    BY DEF IInv
  <1>2. SameKind(objects, objects')
    BY DEF HeapKept
  <1>3. /\ stack \in Seq(BodyType) /\ stack' \in Seq(BodyType) /\ DOMAIN stack' = 1 .. Len(stack) - 1
        /\ Len(stack') = Len(stack) - 1 /\ Len(stack) \in Nat \ {0} /\ DOMAIN stack = 1 .. Len(stack)
        /\ \A i \in 1 .. Len(stack) - 1 : stack'[i] = stack[i]
        /\ stack' = <<>> <=> Len(stack) = 1
        /\ Top = Last(stack)
    BY Typed, Fronted DEF Top
  <1>4. stack' /= <<>> => stack'[1].kind = "module"
    BY <1>1, <1>3 DEF Stacked
  <1>5. \A i \in DOMAIN stack' : Fits(stack'[i], objects') /\ Waits(stack'[i], objects')
    <2> TAKE i \in DOMAIN stack'
    <2>1. i \in DOMAIN stack /\ i < Len(stack) /\ stack'[i] = stack[i]
      BY <1>3
    <2>2. Fits(stack[i], objects) /\ Waits(stack[i], objects)
      BY <1>1, <2>1 DEF Stacked
    <2> QED BY <1>2, <2>1, <2>2, FitsStill
  <1>6. Owned(stack, Works, AllIds) /\ Owned(stack, {"module"}, Names)
    BY <1>1 DEF Stacked
  <1>7. Owned(stack', Works, AllIds) /\ Owned(stack', {"module"}, Names)
    BY <1>3, <1>6, HeldPopped
  <1>8. stack' = <<>> <=> ctl' \in {"ending", "over"}
    BY <1>3 DEF Goes
  <1>9. Stacked(stack', ctl', objects')
    BY <1>4, <1>5, <1>7, <1>8 DEF Stacked
  <1>10. /\ Held(stack', {"module"}, Names)
               = Held(stack, {"module"}, Names) \ (IF Top.kind = "module" THEN {Top.of} ELSE {})
         /\ Top.kind = "module" /\ Top.of \in Names => Top.of \in Held(stack, {"module"}, Names)
    <2>1. CASE Top.kind = "module"
      <3>1. Last(stack).kind \in {"module"}
        BY <1>3, <2>1
      <3>2. /\ Held(Front(stack), {"module"}, Names) = Held(stack, {"module"}, Names) \ {Last(stack).of}
            /\ Last(stack).of \in Names => Last(stack).of \in Held(stack, {"module"}, Names)
        BY <1>3, <1>6, <3>1, HeldPopped
      <3> QED BY <1>3, <2>1, <3>2
    <2>2. CASE Top.kind /= "module"
      <3>1. Last(stack).kind \notin {"module"}
        BY <1>3, <2>2
      <3>2. Held(Front(stack), {"module"}, Names) = Held(stack, {"module"}, Names)
        BY <1>3, <1>6, <3>1, HeldPopped
      <3> QED BY <2>2, <3>2
    <2> QED BY <2>1, <2>2
  <1>11. Running(stack', objects')
    <2>1. Held(stack, Works, AllIds) \subseteq Ids
      BY Typed DEF Held, Fits, Ids
    <2>2. \A i \in Ids : objects[i].state = "running" <=> i \in Held(stack, Works, AllIds)
      BY <1>1 DEF Running, Ids
    <2>3. CASE Top.kind \in Works
      <3>1. Held(stack', Works, AllIds) = Held(stack, Works, AllIds) \ {Top.of}
        BY <1>3, <1>6, <2>3, HeldPopped
      <3>2. \A i : i \in Held(stack', Works, AllIds) <=> (i \in Held(stack, Works, AllIds) /\ i /= Top.of)
        BY <3>1
      <3>3. \A i : i \in Held(stack', Works, AllIds)
                      <=> (i \in Ids /\ objects[i].state = "running" /\ i /= Top.of)
        BY <2>1, <2>2, <3>2
      <3>4. \A i \in Ids' : objects'[i].state = "running" <=> i \in Held(stack', Works, AllIds)
        BY <2>3, <3>3
      <3> QED BY <3>4 DEF Running, Ids
    <2>4. CASE Top.kind \notin Works
      <3>1. Held(stack', Works, AllIds) = Held(stack, Works, AllIds)
        BY <1>3, <1>6, <2>4, HeldPopped
      <3>2. \A i : i \in Held(stack', Works, AllIds) <=> (i \in Ids /\ objects[i].state = "running")
        BY <2>1, <2>2, <3>1
      <3>3. \A i \in Ids' : objects'[i].state = "running" <=> i \in Held(stack', Works, AllIds)
        BY <2>4, <3>2
      <3> QED BY <3>3 DEF Running, Ids
    <2> QED BY <2>3, <2>4
  <1> QED BY <1>3, <1>9, <1>10, <1>11

-----------------------------------------------------------------------------
\* ---- what keeps the invariant ----

\* The parts make up the whole.
LEMMA Kept ==
  ASSUME HeapKept, stack' \in Seq(BodyType), Stacked(stack', ctl', objects'), Running(stack', objects'),
         ctl' \in Goes \cup Ended,
         Built(stack', resolving', modules', history'), modules' \subseteq Names,
         Counted(stack', depth'),
         recursionLimit' \in 1 .. MaxRecursionDepth, instructions' \in 0 .. MaxInstructions,
         completions' \in [due : Nat, next : Nat \ {0}], Completed(ctl', completions', history')
  PROVE  IInv'
  <1>1. depth' \in Int
    BY MarksFinite DEF Counted
  <1>2. resolving' \subseteq Names
    BY DEF Built, Held
  <1>3. /\ ctl' \in {"run", "value", "exhausted", "raise", "ending", "over"}
        /\ objects' \in Seq(ObjectType) /\ history' \in History
    BY DEF Goes, Ended, HeapKept
  <1>4. TypeOK'
    BY <1>1, <1>2, <1>3 DEF TypeOK, BodyType, ObjectType
  <1> QED BY <1>4 DEF IInv, HeapKept, Ids

\* The step touches neither what is counted nor what is imported.
LEMMA StaysKeeps ==
  ASSUME IInv, HeapKept, stack' = stack, UNCHANGED <<depth, Imports>>,
         ctl \notin Ended, ctl' \in Goes, ctl' = "run" \/ AllWait,
         \A i \in Ids' : objects'[i].state = "running" <=> i \in Ids /\ objects[i].state = "running",
         history'.built = history.built, history'.attempted = history.attempted,
         recursionLimit' \in 1 .. MaxRecursionDepth, instructions' \in 0 .. MaxInstructions,
         completions' \in [due : Nat, next : Nat \ {0}],
         completions'.next = completions.next, completions'.due >= completions.due
  PROVE  IInv'
  <1>1. Stacked(stack', ctl', objects') /\ Running(stack', objects')
    BY Stays
  <1>2. stack' \in Seq(BodyType) /\ modules' \subseteq Names
    BY Typed DEF Imports
  <1>3. Built(stack', resolving', modules', history')
    BY DEF IInv, Built, Imports
  <1>4. Counted(stack', depth')
    BY DEF IInv, Counted
  <1>5. Completed(ctl', completions', history')
    <2>1. /\ completions.next = history.attempted + 1 /\ completions.next <= completions.due + 1
          /\ completions \in [due : Nat, next : Nat \ {0}] /\ history \in History
      BY Typed DEF IInv, Completed
    <2>2. ctl' /= "over"
      BY DEF Goes
    <2> QED BY <2>1, <2>2 DEF Completed, History
  <1> QED BY <1>1, <1>2, <1>3, <1>4, <1>5, Kept

\* A body is pushed, which is counted or imports what nobody imports.
LEMMA PushKeeps ==
  ASSUME IInv, HeapKept, NEW b \in BodyType, Enter(b), ctl \notin Ended, AllWait, Fits(b, objects'),
         b.kind \in Works => b.of \in Ids \ Held(stack, Works, AllIds),
         b.kind = "module" => b.of \in Names \ (resolving \cup modules),
         \A i \in Ids' : objects'[i].state = "running"
                            <=> i \in Ids /\ (objects[i].state = "running" \/ (b.kind \in Works /\ i = b.of)),
         depth' = depth + (IF Charged(b) THEN 1 ELSE 0), depth' <= MaxRecursionDepth,
         resolving' = resolving \cup (IF b.kind = "module" THEN {b.of} ELSE {}), modules' = modules,
         history'.built = history.built, history'.attempted = history.attempted,
         recursionLimit' = recursionLimit, instructions' \in 0 .. MaxInstructions,
         completions' = completions
  PROVE  IInv'
  <1>1. resolving = Held(stack, {"module"}, Names) /\ resolving \cap modules = {}
    BY DEF IInv, Built
  <1>2. stack' = Append(stack, b) /\ ctl' = "run"
    BY DEF Enter
  <1>3. /\ stack' \in Seq(BodyType) /\ Stacked(stack', ctl', objects') /\ Running(stack', objects')
        /\ Held(stack', {"module"}, Names)
               = Held(stack, {"module"}, Names) \cup (IF b.kind = "module" THEN {b.of} ELSE {})
    BY <1>1, <1>2, Pushed
  <1>4. Built(stack', resolving', modules', history')
    <2>1. \A n \in Names : history.built[n] = IF n \in modules THEN 1 ELSE 0
      BY DEF IInv, Built
    <2> QED BY <1>1, <1>3, <2>1 DEF Built
  <1>5. Counted(stack', depth')
    <2>1. depth = Cardinality(Marks(stack, ChargedBodies))
      BY DEF IInv, Counted
    <2>2. Cardinality(Marks(stack', ChargedBodies))
             = Cardinality(Marks(stack, ChargedBodies)) + (IF b \in ChargedBodies THEN 1 ELSE 0)
      BY <1>2, Typed, MarksPushed
    <2>3. b \in ChargedBodies <=> Charged(b)
      BY DEF ChargedBodies
    <2> QED BY <2>1, <2>2, <2>3 DEF Counted
  <1>6. Completed(ctl', completions', history')
    BY <1>2 DEF IInv, Completed
  <1>7. /\ recursionLimit' \in 1 .. MaxRecursionDepth /\ modules' \subseteq Names
        /\ completions' \in [due : Nat, next : Nat \ {0}] /\ ctl' \in Goes \cup Ended
    BY <1>2, Typed DEF Goes
  <1> QED BY <1>3, <1>4, <1>5, <1>6, <1>7, Kept

-----------------------------------------------------------------------------
\* ---- leaving a body ----

\* The object that the innermost body runs is running.
LEMMA TopRuns ==
  ASSUME IInv, stack /= <<>>, Top.kind \in Works
  PROVE  Top.of \in Ids /\ objects[Top.of].state = "running" /\ Top.of \in Held(stack, Works, AllIds)
  <1>1. Top.of \in Ids /\ Len(stack) \in DOMAIN stack /\ Top = stack[Len(stack)] /\ Ids \subseteq AllIds
    BY Typed DEF Fits, Ids
  <1>2. Top.of \in Held(stack, Works, AllIds)
    BY <1>1 DEF Held
  <1> QED BY <1>1, <1>2 DEF IInv, Running, Ids

\* What the state of a running object tells of it.
LEMMA RunningTold ==
  ASSUME IInv, NEW k \in Ids, objects[k].state = "running"
  PROVE  /\ history.started[k] <= 1 /\ k \in AllIds
         /\ k \notin history.reentered => history.told[k] = {} /\ objects[k].finished = FALSE
  <1>1. Happened(objects[k], k, history) /\ k \in AllIds /\ objects[k] \in ObjectType
    BY Typed DEF IInv, Records, Ids
  <1> QED BY <1>1 DEF Happened, Outcomes, ObjectType

\* The body of a generator or a coroutine ends, and the object with it.
LEMMA BodyOver ==
  ASSUME IInv, stack /= <<>>, Top.kind \in {"generator", "coroutine"}, NEW how \in Goes,
         objects' = Settled(Top, how), history' = history
  PROVE  /\ HeapKept
         /\ \A i \in Ids' : objects'[i].state = "running"
                               <=> (i \in Ids /\ objects[i].state = "running" /\ ~(Top.kind \in Works /\ i = Top.of))
  <1> DEFINE k == Top.of
             o == IF Top.kind = "generator"
                  THEN [objects[k] EXCEPT !.state = "over", !.finished = (how = "exhausted")]
                  ELSE [objects[k] EXCEPT !.state = "over"]
  <1>1. Top.kind \in Works
    BY DEF Works
  <1>2. k \in Ids /\ objects[k].state = "running" /\ objects[k] \in ObjectType
        /\ objects[k].type = Top.kind /\ Sound(objects[k], objects)
    BY <1>1, TopRuns, Typed DEF Fits
  <1>3. objects' = [objects EXCEPT ![k] = o]
    <2>1. CASE Top.kind = "generator"
      <3>1. objects' = [objects EXCEPT ![k].state = "over", ![k].finished = (how = "exhausted")]
        BY <2>1 DEF Settled
      <3> QED BY <1>2, <2>1, <3>1, Typed
    <2>2. CASE Top.kind = "coroutine"
      BY <1>2, <2>2 DEF Settled
    <2> QED BY <2>1, <2>2
  <1>4. o \in ObjectType /\ o.type = objects[k].type /\ o.parts = objects[k].parts
        /\ o.source = objects[k].source /\ o.state = "over"
    BY <1>2 DEF ObjectType
  <1>5. Sound(o, objects)
    BY <1>2, <1>4 DEF Sound, States
  <1>6. history \in History
    BY Typed
  <1>7. Happened(o, k, history')
    BY <1>2, <1>4, RunningTold DEF Happened, Outcomes
  <1> HIDE DEF o, k
  <1>8. /\ HeapKept /\ Ids' = Ids
        /\ \A i \in Ids : objects'[i] = IF i = k THEN o ELSE objects[i]
    BY <1>2, <1>3, <1>4, <1>5, <1>6, <1>7, HeapChanges
  <1> USE DEF k
  <1> QED BY <1>1, <1>2, <1>4, <1>8

\* One object is awaited, and the others have heard what they had.
LEMMA OneTold ==
  ASSUME IInv, NEW k \in AllIds, NEW t \in {"value", "failure", "null"}
  PROVE  /\ Told(k, t) \in History /\ Told(k, t).built = history.built
         /\ Told(k, t).attempted = history.attempted
         /\ Told(k, t).started = history.started /\ Told(k, t).reentered = history.reentered
         /\ \A i \in AllIds : Told(k, t).told[i] = IF i = k THEN history.told[k] \cup {t} ELSE history.told[i]
  <1> DEFINE now == [history.told EXCEPT ![k] = @ \cup {t}]
  <1>1. /\ history.told \in [1 .. MaxObjects -> SUBSET {"value", "failure", "null"}]
        /\ history \in History
    BY Typed DEF History
  <1>2. /\ now \in [1 .. MaxObjects -> SUBSET {"value", "failure", "null"}]
        /\ \A i \in AllIds : now[i] = IF i = k THEN history.told[k] \cup {t} ELSE history.told[i]
    BY <1>1 DEF AllIds
  <1>3. Told(k, t) = [history EXCEPT !.told = now]
    BY <1>1 DEF Told, History
  <1> HIDE DEF now
  <1>4. /\ Told(k, t) \in History /\ Told(k, t).built = history.built
        /\ Told(k, t).attempted = history.attempted /\ Told(k, t).told = now
        /\ Told(k, t).started = history.started /\ Told(k, t).reentered = history.reentered
    BY <1>1, <1>2, <1>3 DEF History
  <1> QED BY <1>2, <1>4

\* The work of a future ends, and those who await it hear how.
LEMMA WorkOver ==
  ASSUME IInv, stack /= <<>>, Top.kind = "gather", NEW how \in Goes,
         objects' = Settled(Top, how), history' = Recorded(Top, how)
  PROVE  /\ HeapKept
         /\ \A i \in Ids' : objects'[i].state = "running"
                               <=> (i \in Ids /\ objects[i].state = "running" /\ ~(Top.kind \in Works /\ i = Top.of))
         /\ history'.built = history.built /\ history'.attempted = history.attempted
  <1> DEFINE k == Top.of
             o == [objects[k] EXCEPT !.state = IF how = "value" THEN "settled" ELSE "failed"]
             told == IF how = "value" THEN "value" ELSE "failure"
  <1>1. Top.kind \in Works
    BY DEF Works
  <1>2. k \in Ids /\ k \in AllIds /\ objects[k].state = "running" /\ objects[k] \in ObjectType
        /\ objects[k].type = "future" /\ Sound(objects[k], objects)
    BY <1>1, TopRuns, Typed DEF Fits
  <1>3. objects' = [objects EXCEPT ![k] = o]
    BY <1>2 DEF Settled
  <1>4. o \in ObjectType /\ o.type = objects[k].type /\ o.parts = objects[k].parts
        /\ o.source = objects[k].source /\ o.state \in {"settled", "failed"}
        /\ Outcomes(o) = {told} /\ o.finished = objects[k].finished
    BY <1>2 DEF ObjectType, Outcomes
  <1>5. Sound(o, objects)
    BY <1>2, <1>4 DEF Sound, States
  <1>6. history \in History
    BY Typed
  <1>7. history' = Told(k, told) /\ told \in {"value", "failure", "null"}
    BY DEF Recorded
  <1> HIDE DEF o, k, told
  <1>8. /\ history' \in History /\ history'.built = history.built
        /\ history'.attempted = history.attempted
        /\ history'.started = history.started /\ history'.reentered = history.reentered
        /\ \A i \in AllIds : history'.told[i] = IF i = k THEN history.told[k] \cup {told} ELSE history.told[i]
    <2>1. k \in AllIds /\ told \in {"value", "failure", "null"} /\ history' = Told(k, told)
      BY <1>2, <1>7
    <2>2. /\ Told(k, told) \in History /\ Told(k, told).built = history.built
          /\ Told(k, told).attempted = history.attempted
          /\ Told(k, told).started = history.started /\ Told(k, told).reentered = history.reentered
      BY <2>1, OneTold
    <2>3. \A i \in AllIds : Told(k, told).told[i]
                               = IF i = k THEN history.told[k] \cup {told} ELSE history.told[i]
      BY <2>1, OneTold
    <2> QED BY <2>1, <2>2, <2>3
  <1>9. Happened(o, k, history')
    BY <1>2, <1>4, <1>8, RunningTold DEF Happened
  <1>10. \A i \in AllIds \ {k} : /\ history'.started[i] = history.started[i]
                                 /\ history'.told[i] = history.told[i]
                                 /\ i \in history'.reentered <=> i \in history.reentered
    BY <1>8
  <1>11. /\ HeapKept /\ Ids' = Ids
         /\ \A i \in Ids : objects'[i] = IF i = k THEN o ELSE objects[i]
    BY <1>2, <1>3, <1>4, <1>5, <1>8, <1>9, <1>10, HeapChanges
  <1> USE DEF k
  <1> QED BY <1>1, <1>2, <1>4, <1>8, <1>11

\* However the innermost body is left, it gives back what it took.
LEMMA LeaveKeeps ==
  ASSUME IInv, stack /= <<>>, NEW how \in Goes, Leave(how), instructions' \in 0 .. MaxInstructions,
         ctl \notin Ended
  PROVE  IInv'
  <1>1. /\ stack' = Front(stack) /\ depth' = DepthAfter(Top, how)
        /\ objects' = Settled(Top, how) /\ history' = Recorded(Top, how)
        /\ resolving' = IF Top.kind = "module" THEN resolving \ {Top.of} ELSE resolving
        /\ modules' = IF Top.kind = "module" /\ Top.of /= None /\ how = "value"
                      THEN modules \cup {Top.of} ELSE modules
        /\ ctl' = IF Len(stack) = 1 THEN "ending" ELSE how
        /\ recursionLimit' = recursionLimit /\ completions' = completions
    BY DEF Leave
  <1>2. /\ stack \in Seq(BodyType) /\ Top \in BodyType /\ Fits(Top, objects) /\ history \in History
        /\ modules \subseteq Names
    BY Typed
  <1>3. /\ Top.kind \in {"module", "function", "generator", "coroutine", "level", "gather"}
        /\ Top.kind = "module" => Top.of \in Names \cup {None}
    BY <1>2 DEF BodyType, Frames, Fits
  <1>4. /\ HeapKept /\ history'.attempted = history.attempted
        /\ \A i \in Ids' : objects'[i].state = "running"
                              <=> (i \in Ids /\ objects[i].state = "running" /\ ~(Top.kind \in Works /\ i = Top.of))
        /\ Top.kind /= "module" => history'.built = history.built
    <2>1. CASE Top.kind \in {"generator", "coroutine"}
      <3>1. history' = history
        BY <1>1, <2>1 DEF Recorded
      <3> QED BY <1>1, <2>1, <3>1, BodyOver
    <2>2. CASE Top.kind = "gather"
      BY <1>1, <2>2, WorkOver
    <2>3. CASE Top.kind \in {"function", "level", "module"}
      <3>1. objects' = objects /\ Top.kind \notin Works
        BY <1>1, <2>3 DEF Settled, Works
      <3>2. /\ history' \in History /\ history'.started = history.started /\ history'.told = history.told
            /\ history'.reentered = history.reentered /\ history'.attempted = history.attempted
            /\ Top.kind /= "module" => history'.built = history.built
        <4>1. CASE Top.kind = "module" /\ Top.of /= None /\ how = "value"
          <5>1. history' = [history EXCEPT !.built[Top.of] = @ + 1] /\ Top.of \in Names
            BY <1>1, <1>3, <4>1 DEF Recorded
          <5>2. [history.built EXCEPT ![Top.of] = @ + 1] \in [Names -> Nat]
            BY <1>2, <5>1 DEF History
          <5>3. history' = [history EXCEPT !.built = [history.built EXCEPT ![Top.of] = @ + 1]]
            BY <1>2, <5>1 DEF History
          <5> QED BY <1>2, <4>1, <5>2, <5>3 DEF History
        <4>2. CASE ~(Top.kind = "module" /\ Top.of /= None /\ how = "value")
          <5>1. history' = history
            BY <1>1, <2>3, <4>2 DEF Recorded
          <5> QED BY <1>2, <5>1
        <4> QED BY <4>1, <4>2
      <3>3. HeapKept
        BY <3>1, <3>2, HeapStays
      <3>4. Ids' = Ids
        BY <3>1 DEF Ids
      <3> QED BY <3>1, <3>2, <3>3, <3>4
    <2> QED BY <1>3, <2>1, <2>2, <2>3
  <1>5. /\ stack' \in Seq(BodyType) /\ Stacked(stack', ctl', objects') /\ Running(stack', objects')
        /\ Held(stack', {"module"}, Names)
              = Held(stack, {"module"}, Names) \ (IF Top.kind = "module" THEN {Top.of} ELSE {})
        /\ Top.kind = "module" /\ Top.of \in Names => Top.of \in Held(stack, {"module"}, Names)
    BY <1>1, <1>4, Popped
  <1>6. /\ resolving = Held(stack, {"module"}, Names) /\ resolving \cap modules = {}
        /\ \A n \in Names : history.built[n] = IF n \in modules THEN 1 ELSE 0
    BY DEF IInv, Built
  <1>7. Built(stack', resolving', modules', history')
    <2>1. resolving' = Held(stack', {"module"}, Names)
      BY <1>1, <1>5, <1>6
    <2>2. CASE Top.kind = "module" /\ Top.of /= None /\ how = "value"
      <3>1. Top.of \in Names /\ Top.of \in resolving /\ Top.of \notin modules
        BY <1>3, <1>5, <1>6, <2>2
      <3>2. history' = [history EXCEPT !.built[Top.of] = @ + 1]
        BY <1>1, <2>2 DEF Recorded
      <3>3. \A n \in Names : history'.built[n] = IF n = Top.of THEN history.built[n] + 1 ELSE history.built[n]
        BY <1>2, <3>1, <3>2 DEF History
      <3>4. modules' = modules \cup {Top.of} /\ resolving' = resolving \ {Top.of}
        BY <1>1, <2>2
      <3>5. \A n \in Names : history'.built[n] = IF n \in modules' THEN 1 ELSE 0
        BY <1>6, <3>1, <3>3, <3>4
      <3>6. resolving' \cap modules' = {}
        BY <1>6, <3>4
      <3> QED BY <2>1, <3>5, <3>6 DEF Built
    <2>3. CASE ~(Top.kind = "module" /\ Top.of /= None /\ how = "value")
      <3>1. modules' = modules /\ resolving' \subseteq resolving
        BY <1>1, <2>3
      <3>2. history'.built = history.built
        <4>1. CASE Top.kind = "module"
          BY <1>1, <2>3, <4>1 DEF Recorded
        <4> QED BY <1>4, <4>1
      <3> QED BY <1>6, <2>1, <3>1, <3>2 DEF Built
    <2> QED BY <2>2, <2>3
  <1>8. Counted(stack', depth')
    <2>1. depth = Cardinality(Marks(stack, ChargedBodies)) /\ depth <= MaxRecursionDepth
      BY DEF IInv, Counted
    <2>2. /\ Cardinality(Marks(stack, ChargedBodies)) \in Nat
          /\ Cardinality(Marks(stack', ChargedBodies))
                = Cardinality(Marks(stack, ChargedBodies)) - (IF Top \in ChargedBodies THEN 1 ELSE 0)
      BY <1>1, <1>2, MarksPopped DEF Top
    <2>3. Top \in ChargedBodies <=> Charged(Top)
      BY <1>2 DEF ChargedBodies
    <2>4. depth' = depth - (IF Charged(Top) THEN 1 ELSE 0)
      BY <1>1, <2>1, <2>2 DEF DepthAfter
    <2>5. MaxRecursionDepth \in Nat
      BY Typed
    <2> QED BY <2>1, <2>2, <2>3, <2>4, <2>5 DEF Counted
  <1>9. Completed(ctl', completions', history')
    <2>1. ctl' /= "over"
      BY <1>1 DEF Goes
    <2> QED BY <1>1, <1>4, <2>1 DEF IInv, Completed
  <1>10. /\ recursionLimit' \in 1 .. MaxRecursionDepth /\ modules' \subseteq Names
         /\ completions' \in [due : Nat, next : Nat \ {0}] /\ ctl' \in Goes \cup Ended
    BY <1>1, <1>3, Typed DEF Ended
  <1> QED BY <1>4, <1>5, <1>7, <1>8, <1>9, <1>10, Kept
-----------------------------------------------------------------------------
\* ---- moves of generators, coroutines and futures ----

\* Every body waits properly when the innermost one is not a gather that is done.
LEMMA AllWaiting ==
  ASSUME IInv, stack /= <<>>,
         Top.kind = "gather" => (ctl /= "run" \/ Top.at <= Len(objects[Top.of].parts))
  PROVE  AllWait
  <1>1. Top = stack[Len(stack)] /\ DOMAIN stack = 1 .. Len(stack) /\ Len(stack) \in Nat
    BY Typed
  <1>2. \A i \in DOMAIN stack : i < Len(stack) \/ ctl /= "run" => Waits(stack[i], objects)
    BY DEF IInv, Stacked
  <1>3. \A i \in DOMAIN stack : i < Len(stack) \/ i = Len(stack)
    BY <1>1
  <1> QED BY <1>1, <1>2, <1>3 DEF AllWait, Waits

\* A generator is suspended, and its body leaves the stack.
LEMMA SuspendKeeps ==
  ASSUME IInv, stack /= <<>>, Top.kind = "generator", Suspend, instructions' \in 0 .. MaxInstructions
  PROVE  IInv'
  <1> DEFINE k == Top.of
             o == [objects[k] EXCEPT !.state = "suspended"]
  <1>1. /\ stack' = Front(stack) /\ ctl' = "value" /\ objects' = [objects EXCEPT ![k] = o]
        /\ UNCHANGED <<depth, recursionLimit, Imports, completions, history>>
    BY DEF Suspend
  <1>2. Top.kind \in Works
    BY DEF Works
  <1>3. k \in Ids /\ objects[k].state = "running" /\ objects[k] \in ObjectType
        /\ objects[k].type = "generator" /\ Sound(objects[k], objects)
    BY <1>2, TopRuns, Typed DEF Fits
  <1>4. o \in ObjectType /\ o.type = objects[k].type /\ o.parts = objects[k].parts
        /\ o.source = objects[k].source /\ o.state = "suspended" /\ o.finished = objects[k].finished
    BY <1>3 DEF ObjectType
  <1>5. Sound(o, objects)
    BY <1>3, <1>4 DEF Sound, States
  <1>6. history' \in History /\ history' = history
    BY <1>1, Typed
  <1>7. Happened(o, k, history')
    BY <1>3, <1>4, <1>6, RunningTold DEF Happened, Outcomes
  <1> HIDE DEF o
  <1>8. /\ HeapKept /\ Ids' = Ids
        /\ \A i \in Ids : objects'[i] = IF i = k THEN o ELSE objects[i]
    BY <1>1, <1>3, <1>4, <1>5, <1>6, <1>7, HeapChanges
  <1>9. Len(stack) /= 1
    <2>1. stack[1].kind = "module"
      BY DEF IInv, Stacked
    <2> QED BY <2>1, Typed
  <1>10. \A i \in Ids' : objects'[i].state = "running"
                            <=> (i \in Ids /\ objects[i].state = "running" /\ ~(Top.kind \in Works /\ i = Top.of))
    BY <1>2, <1>4, <1>8
  <1>11. "value" \in Goes /\ ctl' = IF Len(stack) = 1 THEN "ending" ELSE "value"
    BY <1>1, <1>9 DEF Goes
  <1>12. /\ stack' \in Seq(BodyType) /\ Stacked(stack', ctl', objects') /\ Running(stack', objects')
         /\ Held(stack', {"module"}, Names)
               = Held(stack, {"module"}, Names) \ (IF Top.kind = "module" THEN {Top.of} ELSE {})
    BY <1>1, <1>8, <1>10, <1>11, Popped
  <1>13. Built(stack', resolving', modules', history')
    BY <1>1, <1>12 DEF IInv, Built, Imports
  <1>14. Counted(stack', depth')
    <2>1. depth = Cardinality(Marks(stack, ChargedBodies)) /\ depth <= MaxRecursionDepth
      BY DEF IInv, Counted
    <2>2. /\ Cardinality(Marks(stack, ChargedBodies)) \in Nat
          /\ Cardinality(Marks(stack', ChargedBodies))
                = Cardinality(Marks(stack, ChargedBodies)) - (IF Top \in ChargedBodies THEN 1 ELSE 0)
      BY <1>1, Typed, MarksPopped DEF Top
    <2>3. Top \notin ChargedBodies
      BY DEF ChargedBodies, Charged
    <2> QED BY <1>1, <2>1, <2>2, <2>3 DEF Counted
  <1>15. Completed(ctl', completions', history')
    BY <1>1 DEF IInv, Completed
  <1>16. /\ recursionLimit' \in 1 .. MaxRecursionDepth /\ modules' \subseteq Names
         /\ completions' \in [due : Nat, next : Nat \ {0}] /\ ctl' \in Goes \cup Ended
    BY <1>1, Typed DEF Goes, Imports
  <1> QED BY <1>8, <1>12, <1>13, <1>14, <1>15, <1>16, Kept

\* A body whose position alone moves on holds and counts what it did.
LEMMA Moved ==
  ASSUME NEW s \in Seq(BodyType), NEW s2 \in Seq(BodyType), DOMAIN s2 = DOMAIN s,
         \A i \in DOMAIN s : s2[i].kind = s[i].kind /\ s2[i].of = s[i].of
  PROVE  /\ \A K, X : Held(s2, K, X) = Held(s, K, X)
         /\ \A K, X : Owned(s, K, X) => Owned(s2, K, X)
         /\ Marks(s2, ChargedBodies) = Marks(s, ChargedBodies)
  <1>1. ASSUME NEW K, NEW X
        PROVE  Held(s2, K, X) = Held(s, K, X) /\ (Owned(s, K, X) => Owned(s2, K, X))
    <2>1. {j \in DOMAIN s2 : s2[j].kind \in K} = {j \in DOMAIN s : s[j].kind \in K}
      OBVIOUS
    <2>2. {s2[i].of : i \in {j \in DOMAIN s2 : s2[j].kind \in K}}
             = {s[i].of : i \in {j \in DOMAIN s : s[j].kind \in K}}
      BY <2>1
    <2>3. Held(s2, K, X) = Held(s, K, X)
      BY <2>2 DEF Held
    <2>4. Owned(s, K, X) => Owned(s2, K, X)
      BY DEF Owned
    <2> QED BY <2>3, <2>4
  <1>2. \A i \in DOMAIN s : s[i] \in BodyType /\ s2[i] \in BodyType
    BY ElementOfSeq, LenProperties
  <1>3. \A i \in DOMAIN s : s2[i] \in ChargedBodies <=> s[i] \in ChargedBodies
    BY <1>2 DEF ChargedBodies, Charged
  <1>4. Marks(s2, ChargedBodies) = Marks(s, ChargedBodies)
    BY <1>3 DEF Marks
  <1> QED BY <1>1, <1>4

\* A gather that waits for a part goes on to the next one.
LEMMA OnwardKeeps ==
  ASSUME IInv, stack /= <<>>, ctl \notin Ended, Top.kind = "gather",
         Top.at <= Len(objects[Top.of].parts), Onward, ctl' = "run",
         UNCHANGED <<depth, recursionLimit, instructions, Heap, Imports, completions>>
  PROVE  IInv'
  <1>1. /\ stack \in Seq(BodyType) /\ DOMAIN stack = 1 .. Len(stack) /\ Len(stack) \in DOMAIN stack
        /\ Len(stack) \in Nat /\ Top \in BodyType /\ Fits(Top, objects) /\ Top = stack[Len(stack)]
        /\ objects' = objects /\ history' = history
    BY Typed DEF Heap
  <1> DEFINE b == [Top EXCEPT !.at = @ + 1]
  <1>2. b \in BodyType /\ b.kind = Top.kind /\ b.of = Top.of /\ b.at = Top.at + 1 /\ Top.at \in Nat
    <2>1. Top.of \in Ids
      BY <1>1 DEF Fits, Works, Ids
    <2>2. Len(objects[Top.of].parts) <= 2 /\ objects[Top.of].parts \in Seq(AllIds)
      BY <2>1, Typed DEF Sound, ObjectType, AllIds
    <2>3. Len(objects[Top.of].parts) \in Nat
      BY <2>2, LenProperties
    <2>4. Top.at \in 1 .. 3 /\ Top.at + 1 \in 1 .. 3
      BY <1>1, <2>2, <2>3 DEF BodyType
    <2> QED BY <1>1, <2>4 DEF BodyType
  <1>3. stack' = [stack EXCEPT ![Len(stack)] = b]
    BY <1>1 DEF Onward
  <1> HIDE DEF b
  <1>4. /\ stack' \in Seq(BodyType) /\ Len(stack') = Len(stack)
        /\ \A i \in 1 .. Len(stack) : stack'[i] = IF i = Len(stack) THEN b ELSE stack[i]
    BY <1>1, <1>2, <1>3, ExceptSeq
  <1>5. DOMAIN stack' = DOMAIN stack
    BY <1>1, <1>4, LenProperties
  <1>6. \A i \in DOMAIN stack : stack'[i].kind = stack[i].kind /\ stack'[i].of = stack[i].of
    BY <1>1, <1>2, <1>4
  <1>7. /\ \A K, X : Held(stack', K, X) = Held(stack, K, X)
        /\ \A K, X : Owned(stack, K, X) => Owned(stack', K, X)
        /\ Marks(stack', ChargedBodies) = Marks(stack, ChargedBodies)
    BY <1>1, <1>4, <1>5, <1>6, Moved
  <1>8. Stacked(stack, ctl, objects)
    BY DEF IInv
  <1>9. \A i \in DOMAIN stack' : Fits(stack'[i], objects) /\ (i < Len(stack) => Waits(stack'[i], objects))
    <2> TAKE i \in DOMAIN stack'
    <2>0. /\ i \in 1 .. Len(stack) /\ i \in DOMAIN stack /\ Len(stack) \in Nat
          /\ stack'[i] = IF i = Len(stack) THEN b ELSE stack[i]
      BY <1>1, <1>4, <1>5
    <2>1. CASE i = Len(stack)
      <3>1. Fits(b, objects)
        BY <1>1, <1>2 DEF Fits, Works
      <3> QED BY <2>0, <2>1, <3>1
    <2>2. CASE i /= Len(stack)
      <3>1. i \in DOMAIN stack /\ i < Len(stack) /\ stack'[i] = stack[i]
        BY <2>0, <2>2
      <3> QED BY <1>8, <3>1 DEF Stacked
    <2> QED BY <2>1, <2>2
  <1>10. Stacked(stack', ctl', objects')
    <2>1. stack' /= <<>> /\ stack'[1].kind = "module"
      <3>1. stack[1].kind = "module" /\ 1 \in DOMAIN stack /\ Len(stack) /= 0
        BY <1>1, <1>8 DEF Stacked
      <3> QED BY <1>4, <1>6, <3>1, EmptySeq
    <2>2. Owned(stack', Works, AllIds) /\ Owned(stack', {"module"}, Names)
      BY <1>7, <1>8 DEF Stacked
    <2> QED BY <1>1, <1>4, <1>9, <2>1, <2>2 DEF Stacked
  <1>11. Running(stack', objects')
    BY <1>1, <1>7 DEF IInv, Running
  <1>12. HeapKept
    BY <1>1, HeapStays, Typed
  <1>13. Built(stack', resolving', modules', history')
    BY <1>1, <1>7 DEF IInv, Built, Imports
  <1>14. Counted(stack', depth')
    BY <1>7 DEF IInv, Counted
  <1>15. Completed(ctl', completions', history')
    BY <1>1 DEF IInv, Completed
  <1>16. /\ recursionLimit' \in 1 .. MaxRecursionDepth /\ modules' \subseteq Names
         /\ completions' \in [due : Nat, next : Nat \ {0}] /\ ctl' \in Goes \cup Ended
         /\ instructions' \in 0 .. MaxInstructions
    BY Typed DEF Goes, Imports
  <1> QED BY <1>4, <1>10, <1>11, <1>12, <1>13, <1>14, <1>15, <1>16, Kept
\* A body is one of the bodies there may be.
LEMMA BodyTyped ==
  ASSUME IInv, NEW kind \in Frames \cup {"level", "gather"}, NEW of \in {None} \cup Names \cup AllIds
  PROVE  /\ Body(kind, of) \in BodyType /\ Body(kind, of).kind = kind /\ Body(kind, of).of = of
         /\ Body(kind, of).at = 1
  BY DEF Body, BodyType, AllIds

\* The first start of an object is counted, and nothing else.
LEMMA OneStarted ==
  ASSUME IInv, NEW k \in AllIds
  PROVE  /\ Started(k) \in History /\ Started(k).built = history.built
         /\ Started(k).attempted = history.attempted
         /\ Started(k).told = history.told /\ Started(k).reentered = history.reentered
         /\ \A i \in AllIds : Started(k).started[i] = history.started[i] + (IF i = k THEN 1 ELSE 0)
  <1> DEFINE now == [history.started EXCEPT ![k] = @ + 1]
  <1>1. history.started \in [1 .. MaxObjects -> Nat] /\ history \in History
    BY Typed DEF History
  <1>2. /\ now \in [1 .. MaxObjects -> Nat]
        /\ \A i \in AllIds : now[i] = history.started[i] + (IF i = k THEN 1 ELSE 0)
    <2>1. /\ now \in [1 .. MaxObjects -> Nat]
          /\ \A i \in AllIds : now[i] = IF i = k THEN history.started[k] + 1 ELSE history.started[i]
          /\ \A i \in AllIds : history.started[i] \in Nat
      <3>1. \A i \in AllIds : history.started[i] \in Nat
        BY <1>1 DEF AllIds
      <3>2. history.started[k] + 1 \in Nat
        BY <3>1
      <3>3. DOMAIN history.started = AllIds
        BY <1>1 DEF AllIds
      <3> QED BY <1>1, <3>1, <3>2, <3>3 DEF AllIds
    <2>2. \A n \in Nat : n + 0 = n
      OBVIOUS
    <2> HIDE DEF now
    <2> QED BY <2>1, <2>2
  <1>3. Started(k) = [history EXCEPT !.started = now]
    BY <1>1 DEF Started, History
  <1> HIDE DEF now
  <1>4. /\ Started(k) \in History /\ Started(k).built = history.built
        /\ Started(k).attempted = history.attempted /\ Started(k).started = now
        /\ Started(k).told = history.told /\ Started(k).reentered = history.reentered
    BY <1>1, <1>2, <1>3 DEF History
  <1> QED BY <1>2, <1>4

\* What is resumed or awaited from inside itself is remembered, and nothing else.
LEMMA OneReentered ==
  ASSUME IInv, NEW k \in Ids, NEW h \in History
  PROVE  /\ WithinItself(k, h) \in History /\ WithinItself(k, h).built = h.built
         /\ WithinItself(k, h).attempted = h.attempted
         /\ WithinItself(k, h).told = h.told /\ WithinItself(k, h).started = h.started
         /\ \A i \in AllIds \ {k} : i \in WithinItself(k, h).reentered <=> i \in h.reentered
         /\ objects[k].state = "running" /\ objects[k].type /= "coroutine"
               => k \in WithinItself(k, h).reentered
         /\ k \notin WithinItself(k, h).reentered => k \notin h.reentered
  <1>1. k \in 1 .. MaxObjects
    BY Typed DEF AllIds
  <1>2. /\ WithinItself(k, h) \in History /\ WithinItself(k, h).built = h.built
        /\ WithinItself(k, h).attempted = h.attempted
        /\ WithinItself(k, h).told = h.told /\ WithinItself(k, h).started = h.started
        /\ UnderWay(k) => WithinItself(k, h).reentered = h.reentered \cup {k}
        /\ ~UnderWay(k) => WithinItself(k, h).reentered = h.reentered
    <2>1. CASE UnderWay(k)
      <3>1. WithinItself(k, h) = [h EXCEPT !.reentered = h.reentered \cup {k}]
        BY <2>1 DEF WithinItself, History
      <3> QED BY <1>1, <2>1, <3>1 DEF History
    <2>2. CASE ~UnderWay(k)
      BY <2>2 DEF WithinItself
    <2> QED BY <2>1, <2>2
  <1>3. ASSUME objects[k].state = "running", objects[k].type /= "coroutine"
        PROVE  UnderWay(k)
    <2>1. k \in Held(stack, Works, AllIds)
      BY <1>3 DEF IInv, Running, Ids
    <2>2. PICK j \in DOMAIN stack : stack[j].kind \in Works /\ stack[j].of = k
      BY <2>1 DEF Held
    <2>3. stack[j].kind /= "coroutine"
      BY <1>3, <2>2, Typed DEF Fits
    <2> QED BY <2>2, <2>3 DEF UnderWay, Works
  <1> QED BY <1>2, <1>3

\* An object that nobody runs is run by a body of its own.
LEMMA WorkStarts ==
  ASSUME IInv, stack /= <<>>, ctl \notin Ended, AllWait, instructions' \in 0 .. MaxInstructions,
         UNCHANGED <<depth, recursionLimit, Imports, completions>>,
         NEW k \in Ids, NEW kind \in Works, Enter(Body(kind, k)),
         objects[k].type = IF kind = "gather" THEN "future" ELSE kind,
         objects[k].state \in {"fresh", "suspended"},
         objects' = [objects EXCEPT ![k].state = "running"],
         \/ history' = history
         \/ objects[k].state = "fresh" /\ history' = Started(k)
  PROVE  IInv'
  <1> DEFINE o == [objects[k] EXCEPT !.state = "running"]
             b == Body(kind, k)
  <1>1. objects[k] \in ObjectType /\ Sound(objects[k], objects) /\ k \in AllIds /\ history \in History
    BY Typed
  <1>2. o \in ObjectType /\ o.type = objects[k].type /\ o.parts = objects[k].parts
        /\ o.source = objects[k].source /\ o.state = "running" /\ o.finished = objects[k].finished
        /\ objects' = [objects EXCEPT ![k] = o]
    BY <1>1 DEF ObjectType
  <1>3. Sound(o, objects)
    BY <1>1, <1>2 DEF Sound, States, Works
  <1>4. /\ history' \in History /\ history'.built = history.built /\ history'.attempted = history.attempted
        /\ history'.told = history.told /\ history'.reentered = history.reentered
        /\ \A i \in AllIds \ {k} : history'.started[i] = history.started[i]
        /\ history'.started[k] = history.started[k]
              \/ (objects[k].state = "fresh" /\ history'.started[k] = history.started[k] + 1)
    <2>1. CASE history' = history
      BY <1>1, <2>1
    <2>2. CASE objects[k].state = "fresh" /\ history' = Started(k)
      <3>1. \A i \in AllIds : history.started[i] \in Nat
        BY <1>1 DEF History, AllIds
      <3> QED BY <1>1, <2>2, <3>1, OneStarted
    <2> QED BY <2>1, <2>2
  <1>5. Happened(o, k, history')
    <2>1. Happened(objects[k], k, history)
      BY DEF IInv, Records, Ids
    <2>2. history'.started[k] <= 1
      BY <1>4, <2>1 DEF Happened
    <2>3. k \notin history.reentered => history.told[k] = {} /\ objects[k].finished = FALSE
      BY <1>1, <2>1 DEF Happened, Outcomes, ObjectType
    <2> QED BY <1>2, <1>4, <2>2, <2>3 DEF Happened
  <1>6. b \in BodyType /\ b.kind = kind /\ b.of = k /\ b.at = 1
    BY <1>1, BodyTyped DEF Works, Frames
  <1>7. Enter(b)
    OBVIOUS
  <1> HIDE DEF o, b
  <1>8. /\ HeapKept /\ Ids' = Ids
        /\ \A i \in Ids : objects'[i] = IF i = k THEN o ELSE objects[i]
    BY <1>1, <1>2, <1>3, <1>4, <1>5, HeapChanges
  <1>9. Fits(b, objects')
    <2>1. objects'[k].parts \in Seq(1 .. MaxObjects) /\ objects'[k].type = objects[k].type
      BY <1>2, <1>8 DEF ObjectType
    <2>2. Len(objects'[k].parts) \in Nat
      BY <2>1, LenProperties
    <2> QED BY <1>6, <1>8, <2>1, <2>2 DEF Fits, Works, Ids
  <1>10. k \notin Held(stack, Works, AllIds)
    BY DEF IInv, Running, Ids
  <1>11. \A i \in Ids' : objects'[i].state = "running"
                            <=> i \in Ids /\ (objects[i].state = "running" \/ (b.kind \in Works /\ i = b.of))
    BY <1>2, <1>6, <1>8
  <1>12. ~Charged(b) /\ b.kind /= "module"
    BY <1>6 DEF Charged, Works
  <1>13. depth' = depth /\ depth' <= MaxRecursionDepth /\ depth \in Int
         /\ resolving' = resolving /\ modules' = modules
    BY Typed DEF IInv, Counted, Imports
  <1>14. /\ b.kind \in Works => b.of \in Ids \ Held(stack, Works, AllIds)
         /\ b.kind = "module" => b.of \in Names \ (resolving \cup modules)
         /\ depth' = depth + (IF Charged(b) THEN 1 ELSE 0)
         /\ resolving' = resolving \cup (IF b.kind = "module" THEN {b.of} ELSE {})
    BY <1>6, <1>10, <1>12, <1>13
  <1> QED BY <1>4, <1>6, <1>7, <1>8, <1>9, <1>11, <1>13, <1>14, PushKeeps
\* The innermost body receives something, whatever it raises or is answered.
LEMMA AnswerKeeps ==
  ASSUME IInv, stack /= <<>>, ctl \notin Ended, AllWait, instructions' \in 0 .. MaxInstructions,
         UNCHANGED <<depth, recursionLimit, Imports, completions>>,
         stack' = stack, ctl' \in Goes, objects' = objects, history' = history
  PROVE  IInv'
  <1>1. HeapKept
    BY HeapStays, Typed
  <1>2. \A i \in Ids' : objects'[i].state = "running" <=> i \in Ids /\ objects[i].state = "running"
    BY DEF Ids
  <1>3. /\ recursionLimit' \in 1 .. MaxRecursionDepth /\ completions' \in [due : Nat, next : Nat \ {0}]
        /\ completions'.next = completions.next /\ completions'.due >= completions.due
    BY Typed
  <1> QED BY <1>1, <1>2, <1>3, StaysKeeps

\* It is answered, and the object asked changes but goes on or not as before.
LEMMA ChangeKeeps ==
  ASSUME IInv, stack /= <<>>, ctl \notin Ended, AllWait, instructions' \in 0 .. MaxInstructions,
         UNCHANGED <<depth, recursionLimit, Imports, completions>>,
         stack' = stack, ctl' \in Goes, NEW k \in Ids, NEW o \in ObjectType,
         o.type = objects[k].type, o.parts = objects[k].parts, Sound(o, objects),
         o.state = "running" <=> objects[k].state = "running",
         objects' = [objects EXCEPT ![k] = o],
         history' \in History, Happened(o, k, history'),
         history'.built = history.built, history'.attempted = history.attempted,
         \A i \in AllIds \ {k} : /\ history'.started[i] = history.started[i]
                                 /\ history'.told[i] = history.told[i]
                                 /\ i \in history'.reentered <=> i \in history.reentered
  PROVE  IInv'
  <1>1. /\ HeapKept /\ Ids' = Ids
        /\ \A i \in Ids : objects'[i] = IF i = k THEN o ELSE objects[i]
    BY HeapChanges
  <1>2. \A i \in Ids' : objects'[i].state = "running" <=> i \in Ids /\ objects[i].state = "running"
    BY <1>1
  <1>3. /\ recursionLimit' \in 1 .. MaxRecursionDepth /\ completions' \in [due : Nat, next : Nat \ {0}]
        /\ completions'.next = completions.next /\ completions'.due >= completions.due
    BY Typed
  <1> QED BY <1>1, <1>2, <1>3, StaysKeeps

\* A generator is asked for its next value.
LEMMA NextOnKeeps ==
  ASSUME IInv, stack /= <<>>, ctl \notin Ended, AllWait, instructions' \in 0 .. MaxInstructions,
         UNCHANGED <<depth, recursionLimit, Imports, completions>>,
         NEW g \in Ids, objects[g].type = "generator", NextOn(g)
  PROVE  IInv'
  <1>1. objects[g] \in ObjectType /\ Sound(objects[g], objects) /\ history \in History
        /\ Happened(objects[g], g, history) /\ g \in AllIds
    BY Typed DEF IInv, Records, Ids
  <1>2. CASE objects[g].finished
    <2>1. Answer("exhausted") /\ UNCHANGED Heap
      BY <1>2 DEF NextOn
    <2> QED BY <2>1, AnswerKeeps DEF Answer, Heap, Goes
  <1>3. CASE ~objects[g].finished /\ objects[g].state \in {"fresh", "suspended"}
    <2>1. /\ Enter(Body("generator", g)) /\ history' = history
          /\ objects' = [objects EXCEPT ![g].state = "running"]
      BY <1>3 DEF NextOn
    <2>2. "generator" \in Works
      BY DEF Works
    <2> QED BY <1>3, <2>1, <2>2, WorkStarts
  <1>4. CASE ~objects[g].finished /\ ~(objects[g].state \in {"fresh", "suspended"})
    <2> DEFINE o == [objects[g] EXCEPT !.finished = TRUE]
    <2>1. /\ Answer("exhausted") /\ objects' = [objects EXCEPT ![g].finished = TRUE]
          /\ history' = WithinItself(g, history)
      BY <1>4 DEF NextOn
    <2>2. objects' = [objects EXCEPT ![g] = o]
      BY <2>1
    <2>3. o \in ObjectType /\ o.type = objects[g].type /\ o.parts = objects[g].parts
          /\ o.source = objects[g].source /\ o.state = objects[g].state
      BY <1>1 DEF ObjectType
    <2>4. Sound(o, objects)
      BY <1>1, <2>3 DEF Sound
    <2>5. objects[g].state \in {"running", "over"}
      BY <1>1, <1>4 DEF Sound, States
    <2>6. /\ history' \in History /\ history'.built = history.built
          /\ history'.attempted = history.attempted
          /\ history'.told = history.told /\ history'.started = history.started
          /\ \A i \in AllIds \ {g} : i \in history'.reentered <=> i \in history.reentered
          /\ objects[g].state = "running" => g \in history'.reentered
          /\ g \notin history'.reentered => g \notin history.reentered
      BY <1>1, <2>1, OneReentered
    <2>7. Happened(o, g, history')
      BY <1>1, <2>3, <2>5, <2>6 DEF Happened, Outcomes
    <2>8. stack' = stack /\ ctl' \in Goes
      BY <2>1 DEF Answer, Goes
    <2> HIDE DEF o
    <2>9. /\ o.state = "running" <=> objects[g].state = "running"
          /\ \A i \in AllIds \ {g} : /\ history'.started[i] = history.started[i]
                                     /\ history'.told[i] = history.told[i]
                                     /\ i \in history'.reentered <=> i \in history.reentered
      BY <2>3, <2>6
    <2> QED BY <2>2, <2>3, <2>4, <2>6, <2>7, <2>8, <2>9, ChangeKeeps
  <1> QED BY <1>2, <1>3, <1>4

\* The running of a body that raises leaves everything as it is.
LEMMA RaiseKeeps ==
  ASSUME IInv, stack /= <<>>, ctl \notin Ended, AllWait, instructions' \in 0 .. MaxInstructions,
         UNCHANGED <<depth, recursionLimit, Imports, completions>>, Raise
  PROVE  IInv'
  BY AnswerKeeps DEF Raise, Goes

\* A coroutine is awaited.
LEMMA ResolveCoroutineKeeps ==
  ASSUME IInv, stack /= <<>>, ctl \notin Ended, AllWait, instructions' \in 0 .. MaxInstructions,
         UNCHANGED <<depth, recursionLimit, Imports, completions>>,
         NEW c \in Ids, objects[c].type = "coroutine", ResolveCoroutine(c)
  PROVE  IInv'
  <1>1. CASE objects[c].state /= "fresh"
    BY <1>1, RaiseKeeps DEF ResolveCoroutine
  <1>2. CASE objects[c].state = "fresh"
    <2>1. /\ Enter(Body("coroutine", c)) /\ history' = Started(c)
          /\ objects' = [objects EXCEPT ![c].state = "running"]
      BY <1>2 DEF ResolveCoroutine
    <2>2. "coroutine" \in Works
      BY DEF Works
    <2> QED BY <1>2, <2>1, <2>2, WorkStarts
  <1> QED BY <1>1, <1>2

\* A future that tells its outcome once more tells the one it told before, and one whose
\* work is under way is awaited from inside itself.
LEMMA TellsKeeps ==
  ASSUME IInv, stack /= <<>>, ctl \notin Ended, AllWait, instructions' \in 0 .. MaxInstructions,
         UNCHANGED <<depth, recursionLimit, Imports, completions>>,
         stack' = stack, ctl' \in Goes, NEW f \in Ids, objects[f].type = "future", objects' = objects,
         NEW t \in {"value", "failure", "null"},
         \/ t \in Outcomes(objects[f]) /\ history' = Told(f, t)
         \/ objects[f].state = "running" /\ history' = WithinItself(f, Told(f, t))
  PROVE  IInv'
  <1>1. objects[f] \in ObjectType /\ Sound(objects[f], objects) /\ f \in AllIds
        /\ Happened(objects[f], f, history) /\ objects \in Seq(ObjectType)
    BY Typed DEF IInv, Records, Ids
  <1>2. /\ Told(f, t) \in History /\ Told(f, t).built = history.built
        /\ Told(f, t).attempted = history.attempted
        /\ Told(f, t).started = history.started /\ Told(f, t).reentered = history.reentered
        /\ \A i \in AllIds : Told(f, t).told[i] = IF i = f THEN history.told[f] \cup {t} ELSE history.told[i]
    BY <1>1, OneTold
  <1>3. objects' = [objects EXCEPT ![f] = objects[f]]
    BY <1>1 DEF Ids
  <1>4. CASE t \in Outcomes(objects[f]) /\ history' = Told(f, t)
    <2>1. Happened(objects[f], f, history')
      BY <1>1, <1>2, <1>4 DEF Happened
    <2>2. \A i \in AllIds \ {f} : /\ history'.started[i] = history.started[i]
                                  /\ history'.told[i] = history.told[i]
                                  /\ i \in history'.reentered <=> i \in history.reentered
      BY <1>2, <1>4
    <2> QED BY <1>1, <1>2, <1>3, <1>4, <2>1, <2>2, ChangeKeeps
  <1>5. CASE objects[f].state = "running" /\ history' = WithinItself(f, Told(f, t))
    <2> DEFINE h == Told(f, t)
    <2>1. h \in History
      BY <1>2
    <2> HIDE DEF h
    <2>2. /\ WithinItself(f, h) \in History /\ WithinItself(f, h).built = h.built
          /\ WithinItself(f, h).attempted = h.attempted
          /\ WithinItself(f, h).told = h.told /\ WithinItself(f, h).started = h.started
          /\ \A i \in AllIds \ {f} : i \in WithinItself(f, h).reentered <=> i \in h.reentered
          /\ f \in WithinItself(f, h).reentered
      BY <1>5, <2>1, OneReentered
    <2>3. history' = WithinItself(f, h)
      BY <1>5 DEF h
    <2>4. /\ h.built = history.built /\ h.attempted = history.attempted
          /\ h.started = history.started /\ h.reentered = history.reentered
          /\ \A i \in AllIds \ {f} : h.told[i] = history.told[i]
      BY <1>2 DEF h
    <2>5. Happened(objects[f], f, history')
      BY <1>1, <2>2, <2>3, <2>4 DEF Happened
    <2>6. \A i \in AllIds \ {f} : /\ history'.started[i] = history.started[i]
                                  /\ history'.told[i] = history.told[i]
                                  /\ i \in history'.reentered <=> i \in history.reentered
      BY <2>2, <2>3, <2>4
    <2>7. history' \in History /\ history'.built = history.built /\ history'.attempted = history.attempted
      BY <2>2, <2>3, <2>4
    <2> QED BY <1>1, <1>3, <2>5, <2>6, <2>7, ChangeKeeps
  <1> QED BY <1>4, <1>5

\* A future is awaited.
LEMMA ResolveFutureKeeps ==
  ASSUME IInv, stack /= <<>>, ctl \notin Ended, AllWait, instructions' \in 0 .. MaxInstructions,
         UNCHANGED <<depth, recursionLimit, Imports, completions>>,
         NEW f \in Ids, objects[f].type = "future", ResolveFuture(f)
  PROVE  IInv'
  <1>1. objects[f].state \in {"fresh", "running", "settled", "failed"}
    BY Typed DEF Sound, States
  <1>2. CASE objects[f].state = "failed"
    <2>1. /\ ctl' \in Goes /\ stack' = stack /\ objects' = objects /\ history' = Told(f, "failure")
          /\ "failure" \in Outcomes(objects[f]) /\ "failure" \in {"value", "failure", "null"}
      BY <1>2 DEF ResolveFuture, Goes, Outcomes
    <2> QED BY <2>1, TellsKeeps
  <1>3. CASE objects[f].state = "settled"
    <2>1. /\ ctl' \in Goes /\ stack' = stack /\ objects' = objects /\ history' = Told(f, "value")
          /\ "value" \in Outcomes(objects[f]) /\ "value" \in {"value", "failure", "null"}
      BY <1>3 DEF ResolveFuture, Goes, Outcomes, Answer
    <2> QED BY <2>1, TellsKeeps
  <1>4. CASE objects[f].state = "fresh"
    <2>1. /\ Enter(Body("gather", f)) /\ history' = Started(f)
          /\ objects' = [objects EXCEPT ![f].state = "running"]
      BY <1>4 DEF ResolveFuture
    <2>2. "gather" \in Works
      BY DEF Works
    <2> QED BY <1>4, <2>1, <2>2, WorkStarts
  <1>5. CASE objects[f].state = "running"
    <2>1. /\ ctl' \in Goes /\ stack' = stack /\ objects' = objects
          /\ history' = WithinItself(f, Told(f, "null")) /\ "null" \in {"value", "failure", "null"}
      BY <1>5 DEF ResolveFuture, Goes, Answer
    <2> QED BY <1>5, <2>1, TellsKeeps
  <1> QED BY <1>1, <1>2, <1>3, <1>4, <1>5

\* Something is awaited.
LEMMA AwaitOnKeeps ==
  ASSUME IInv, stack /= <<>>, ctl \notin Ended, AllWait, instructions' \in 0 .. MaxInstructions,
         UNCHANGED <<depth, recursionLimit, Imports, completions>>,
         NEW i \in Ids, AwaitOn(i)
  PROVE  IInv'
  <1>1. CASE objects[i].type = "coroutine"
    BY <1>1, ResolveCoroutineKeeps DEF AwaitOn
  <1>2. CASE objects[i].type = "future"
    BY <1>2, ResolveFutureKeeps DEF AwaitOn
  <1>3. CASE objects[i].type \notin {"coroutine", "future"}
    BY <1>3, RaiseKeeps DEF AwaitOn
  <1> QED BY <1>1, <1>2, <1>3
-----------------------------------------------------------------------------
\* ---- the actions ----

\* A running body that takes an operation has its turn, and everybody below it waits.
LEMMA OperatesGives ==
  ASSUME IInv, Operates
  PROVE  /\ stack /= <<>> /\ ctl = "run" /\ ctl \notin Ended /\ AllWait /\ Top.kind \in Frames
         /\ instructions' \in 0 .. MaxInstructions
  <1>1. stack /= <<>> /\ ctl = "run" /\ Top.kind \in Frames /\ ctl \notin Ended
    BY DEF Operates, InBody, Ended
  <1>2. Top.kind /= "gather"
    BY <1>1 DEF Frames
  <1>3. AllWait
    BY <1>1, <1>2, AllWaiting
  <1>4. instructions' \in 0 .. MaxInstructions
    BY Typed DEF Operates
  <1> QED BY <1>1, <1>3, <1>4

\* A generator, a coroutine or a future is made.
LEMMA MakeKeeps ==
  ASSUME IInv, stack /= <<>>, ctl \notin Ended, instructions' \in 0 .. MaxInstructions,
         UNCHANGED <<depth, recursionLimit, Imports, completions>>,
         NEW type \in {"generator", "coroutine", "future"}, NEW state \in {"fresh", "settled"},
         NEW parts \in Seq(AllIds), state = "fresh" \/ type = "future",
         Len(parts) <= 2, \A j \in 1 .. Len(parts) : parts[j] \in Ids,
         Make(type, state, parts)
  PROVE  IInv'
  <1> DEFINE o == Object(type, state, parts)
  <1>1. /\ Len(objects) < MaxObjects /\ objects' = Append(objects, o)
        /\ ctl' = "run" /\ stack' = stack /\ history' = history
    BY DEF Make, CanMake
  <1>2. o \in ObjectType /\ o.type = type /\ o.state = state /\ o.parts = parts
        /\ o.finished = FALSE /\ o.source = NoSource
    <2>1. NoSource \in 0 .. MaxObjects
      BY Typed DEF NoSource
    <2> QED BY <2>1 DEF Object, ObjectType, AllIds
  <1>3. Sound(o, objects)
    BY <1>2 DEF Sound, States, Ids
  <1> HIDE DEF o
  <1>4. /\ HeapKept
        /\ \A i \in Ids' : objects'[i].state = "running" <=> i \in Ids /\ objects[i].state = "running"
    BY <1>1, <1>2, <1>3, HeapGrows
  <1>5. /\ recursionLimit' \in 1 .. MaxRecursionDepth /\ completions' \in [due : Nat, next : Nat \ {0}]
        /\ completions'.next = completions.next /\ completions'.due >= completions.due
    BY Typed
  <1>6. ctl' \in Goes
    BY <1>1 DEF Goes
  <1> QED BY <1>1, <1>4, <1>5, <1>6, StaysKeeps

\* A call or a host recursion is entered, within the limit.
LEMMA LevelKeeps ==
  ASSUME IInv, stack /= <<>>, ctl \notin Ended, AllWait, instructions' \in 0 .. MaxInstructions,
         UNCHANGED <<recursionLimit, Imports, completions>>,
         NEW kind \in {"function", "level"}, ~TooDeep, Enter(Body(kind, None)), depth' = depth + 1,
         UNCHANGED Heap
  PROVE  IInv'
  <1> DEFINE b == Body(kind, None)
  <1>1. b \in BodyType /\ b.kind = kind
    BY BodyTyped DEF Frames
  <1>2. Charged(b) /\ b.kind \notin Works /\ b.kind /= "module" /\ b.kind /= "gather" /\ Enter(b)
    BY <1>1 DEF Charged, Works
  <1> HIDE DEF b
  <1>3. HeapKept /\ objects' = objects /\ history' = history
    BY HeapStays, Typed DEF Heap
  <1>4. Fits(b, objects')
    BY <1>2 DEF Fits, Works
  <1>5. \A i \in Ids' : objects'[i].state = "running"
                           <=> i \in Ids /\ (objects[i].state = "running" \/ (b.kind \in Works /\ i = b.of))
    BY <1>2, <1>3 DEF Ids
  <1>6. depth' <= MaxRecursionDepth
    BY Typed DEF TooDeep
  <1>7. /\ b.kind \in Works => b.of \in Ids \ Held(stack, Works, AllIds)
        /\ b.kind = "module" => b.of \in Names \ (resolving \cup modules)
        /\ depth' = depth + (IF Charged(b) THEN 1 ELSE 0)
        /\ resolving' = resolving \cup (IF b.kind = "module" THEN {b.of} ELSE {})
        /\ modules' = modules
    BY <1>2 DEF Imports
  <1> QED BY <1>1, <1>2, <1>3, <1>4, <1>5, <1>6, <1>7, PushKeeps

\* The instruction limit cuts through the innermost body.
LEMMA LimitReachedKeeps == ASSUME IInv, LimitReached PROVE IInv'
  <1>1. /\ stack /= <<>> /\ ctl \notin Ended /\ Leave("raise") /\ "raise" \in Goes
        /\ instructions' = instructions
    BY DEF LimitReached, InBody, Ended, Goes
  <1> QED BY <1>1, LeaveKeeps, Typed

\* The innermost body comes to its end.
LEMMA ReturnsKeeps == ASSUME IInv, Returns PROVE IInv'
  <1>1. /\ stack /= <<>> /\ ctl \notin Ended /\ instructions' \in 0 .. MaxInstructions
        /\ Leave("exhausted") \/ Leave("value")
    BY Typed DEF Returns, InBody, Ended
  <1>2. "exhausted" \in Goes /\ "value" \in Goes
    BY DEF Goes
  <1> QED BY <1>1, <1>2, LeaveKeeps

\* A body raises an error of its own.
LEMMA RaisesErrorKeeps == ASSUME IInv, RaisesError PROVE IInv'
  <1>1. Operates /\ Raise /\ UNCHANGED <<depth, recursionLimit, Imports, completions>>
    BY DEF RaisesError
  <1> QED BY <1>1, OperatesGives, RaiseKeeps

\* A function is called, or makes a generator or a coroutine.
LEMMA CallFunctionKeeps == ASSUME IInv, CallFunction PROVE IInv'
  <1>1. Operates /\ UNCHANGED <<recursionLimit, Imports, completions>>
    BY DEF CallFunction
  <1>2. CASE Raise /\ UNCHANGED depth
    BY <1>1, <1>2, OperatesGives, RaiseKeeps
  <1>3. CASE ~TooDeep /\ Enter(Body("function", None)) /\ depth' = depth + 1 /\ UNCHANGED Heap
    <2>1. "function" \in {"function", "level"}
      OBVIOUS
    <2> QED BY <1>1, <1>3, <2>1, OperatesGives, LevelKeeps
  <1>4. ASSUME NEW type \in {"generator", "coroutine"}, Make(type, "fresh", <<>>), UNCHANGED depth
        PROVE  IInv'
    <2>1. <<>> \in Seq(AllIds) /\ Len(<<>>) = 0
      BY EmptySeq
    <2>2. Len(<<>>) <= 2 /\ \A j \in 1 .. Len(<<>>) : (<<>>)[j] \in Ids
      BY <2>1
    <2>3. type \in {"generator", "coroutine", "future"} /\ "fresh" \in {"fresh", "settled"}
      OBVIOUS
    <2> QED BY <1>1, <1>4, <2>1, <2>2, <2>3, OperatesGives, MakeKeeps
  <1> QED BY <1>2, <1>3, <1>4 DEF CallFunction

\* The host calls back into Python.
LEMMA EnterRecursionKeeps == ASSUME IInv, EnterRecursion PROVE IInv'
  <1>1. Operates /\ UNCHANGED <<recursionLimit, Imports, completions>>
    BY DEF EnterRecursion
  <1>2. CASE Raise /\ UNCHANGED depth
    BY <1>1, <1>2, OperatesGives, RaiseKeeps
  <1>3. CASE ~TooDeep /\ Enter(Body("level", None)) /\ depth' = depth + 1 /\ UNCHANGED Heap
    <2>1. "level" \in {"function", "level"}
      OBVIOUS
    <2> QED BY <1>1, <1>3, <2>1, OperatesGives, LevelKeeps
  <1> QED BY <1>2, <1>3 DEF EnterRecursion

\* What the host called back calls further.
LEMMA CallsFromLevelKeeps == ASSUME IInv, CallsFromLevel PROVE IInv'
  <1>1. /\ stack /= <<>> /\ ctl \notin Ended /\ Top.kind = "level"
        /\ UNCHANGED <<recursionLimit, instructions, Imports, completions>>
    BY DEF CallsFromLevel, Ended
  <1>2. AllWait /\ instructions' \in 0 .. MaxInstructions
    BY <1>1, AllWaiting, Typed
  <1>3. CASE Raise /\ UNCHANGED depth
    BY <1>1, <1>2, <1>3, RaiseKeeps
  <1>4. ASSUME NEW kind \in {"function", "level"}, ~TooDeep, Enter(Body(kind, None)),
               depth' = depth + 1, UNCHANGED Heap
        PROVE  IInv'
    BY <1>1, <1>2, <1>4, LevelKeeps
  <1> QED BY <1>3, <1>4 DEF CallsFromLevel

\* The program sets its recursion limit.
LEMMA SetRecursionLimitKeeps == ASSUME IInv, SetRecursionLimit PROVE IInv'
  <1>1. /\ Operates /\ recursionLimit' \in 1 .. MaxRecursionDepth
        /\ UNCHANGED <<stack, ctl, depth, Heap, Imports, completions>>
    BY DEF SetRecursionLimit
  <1>2. objects' = objects /\ history' = history /\ ctl' = "run"
    BY <1>1, OperatesGives DEF Heap
  <1>3. HeapKept
    BY <1>2, HeapStays, Typed
  <1>4. \A i \in Ids' : objects'[i].state = "running" <=> i \in Ids /\ objects[i].state = "running"
    BY <1>2 DEF Ids
  <1>5. /\ completions' \in [due : Nat, next : Nat \ {0}] /\ ctl' \in Goes
        /\ completions'.next = completions.next /\ completions'.due >= completions.due
    BY <1>1, <1>2, Typed DEF Goes
  <1> QED BY <1>1, <1>2, <1>3, <1>4, <1>5, OperatesGives, StaysKeeps

\* A future is made, settled or of parts that exist.
LEMMA MakeFutureKeeps == ASSUME IInv, MakeFuture PROVE IInv'
  <1>1. Operates /\ UNCHANGED <<depth, recursionLimit, Imports, completions>>
    BY DEF MakeFuture
  <1>2. ASSUME Make("future", "settled", <<>>)
        PROVE  IInv'
    <2>1. <<>> \in Seq(AllIds) /\ Len(<<>>) = 0
      BY EmptySeq
    <2>2. Len(<<>>) <= 2 /\ \A j \in 1 .. Len(<<>>) : (<<>>)[j] \in Ids
      BY <2>1
    <2>3. "future" \in {"generator", "coroutine", "future"} /\ "settled" \in {"fresh", "settled"}
      OBVIOUS
    <2> QED BY <1>1, <1>2, <2>1, <2>2, <2>3, OperatesGives, MakeKeeps
  <1>3. ASSUME NEW n \in 0 .. 2, NEW parts \in [1 .. n -> Ids], Make("future", "fresh", parts)
        PROVE  IInv'
    <2>1. n \in Nat /\ n <= 2 /\ Ids \subseteq AllIds
      BY Typed
    <2>2. parts \in Seq(AllIds) /\ Len(parts) = n
      <3>1. parts \in [1 .. n -> AllIds]
        BY <2>1
      <3>2. parts \in Seq(AllIds)
        BY <2>1, <3>1, SeqDef
      <3> QED BY <2>1, <3>1, <3>2, LenProperties
    <2>3. Len(parts) <= 2 /\ \A j \in 1 .. Len(parts) : parts[j] \in Ids
      BY <2>1, <2>2
    <2>4. "future" \in {"generator", "coroutine", "future"} /\ "fresh" \in {"fresh", "settled"}
      OBVIOUS
    <2> QED BY <1>1, <1>3, <2>2, <2>3, <2>4, OperatesGives, MakeKeeps
  <1>4. \/ Make("future", "settled", <<>>)
        \/ \E n \in 0 .. 2 : \E parts \in [1 .. n -> Ids] : Make("future", "fresh", parts)
    BY DEF MakeFuture
  <1> QED BY <1>2, <1>3, <1>4

\* A body awaits an object.
LEMMA AwaitsOneKeeps == ASSUME IInv, AwaitsOne PROVE IInv'
  <1>1. Operates /\ UNCHANGED <<depth, recursionLimit, Imports, completions>>
    BY DEF AwaitsOne
  <1>2. PICK i \in Ids : AwaitOn(i)
    BY DEF AwaitsOne
  <1> QED BY <1>1, <1>2, OperatesGives, AwaitOnKeeps

\* A body asks a generator for a value.
LEMMA NextOfGeneratorKeeps == ASSUME IInv, NextOfGenerator PROVE IInv'
  <1>1. Operates /\ UNCHANGED <<depth, recursionLimit, Imports, completions>>
    BY DEF NextOfGenerator
  <1>2. PICK g \in Ids : objects[g].type = "generator" /\ NextOn(g)
    BY DEF NextOfGenerator
  <1> QED BY <1>1, <1>2, OperatesGives, NextOnKeeps

\* A generator yields a value of its own.
LEMMA YieldsKeeps == ASSUME IInv, Yields PROVE IInv'
  <1>1. Operates /\ Top.kind = "generator" /\ Suspend
    BY DEF Yields
  <1> QED BY <1>1, OperatesGives, SuspendKeeps
\* A generator hands over to another.
LEMMA YieldsFromKeeps == ASSUME IInv, YieldsFrom PROVE IInv'
  <1>1. /\ Operates /\ Top.kind = "generator" /\ stack' = stack /\ ctl' = ctl /\ history' = history
        /\ UNCHANGED <<depth, recursionLimit, Imports, completions>>
    BY DEF YieldsFrom
  <1> DEFINE k == Top.of
  <1>2. PICK g \in Ids, inTry \in BOOLEAN :
           /\ objects[g].type = "generator"
           /\ objects' = [objects EXCEPT ![k].source = g, ![k].inTry = inTry]
    BY DEF YieldsFrom
  <1> DEFINE o == [objects[k] EXCEPT !.source = g, !.inTry = inTry]
  <1>3. Top.kind \in Works /\ stack /= <<>> /\ ctl' \in Goes
    BY <1>1, OperatesGives DEF Works, Goes
  <1>4. k \in Ids /\ objects[k] \in ObjectType /\ Sound(objects[k], objects) /\ g \in AllIds
        /\ objects \in Seq(ObjectType) /\ history \in History
    BY <1>3, TopRuns, Typed
  <1>5. objects' = [objects EXCEPT ![k] = o]
    BY <1>2, <1>4
  <1>6. o \in ObjectType /\ o.type = objects[k].type /\ o.parts = objects[k].parts
        /\ o.source = g /\ o.state = objects[k].state /\ o.finished = objects[k].finished
    <2>1. g \in 0 .. MaxObjects
      BY <1>4, Typed DEF AllIds
    <2> QED BY <1>4, <2>1 DEF ObjectType
  <1>7. Sound(o, objects)
    BY <1>2, <1>4, <1>6 DEF Sound, Ids
  <1>8. Happened(o, k, history')
    BY <1>1, <1>4, <1>6 DEF IInv, Records, Happened, Outcomes, Ids
  <1> HIDE DEF o, k
  <1>9. /\ history' \in History /\ history'.built = history.built /\ history'.attempted = history.attempted
        /\ \A i \in AllIds \ {k} : /\ history'.started[i] = history.started[i]
                                   /\ history'.told[i] = history.told[i]
                                   /\ i \in history'.reentered <=> i \in history.reentered
    BY <1>1, <1>4
  <1> QED BY <1>1, <1>3, <1>4, <1>5, <1>6, <1>7, <1>8, <1>9, OperatesGives, ChangeKeeps

\* What a generator that yields from another is made of.
LEMMA YieldingFromGives ==
  ASSUME IInv, stack /= <<>>, YieldingFrom
  PROVE  /\ Top.kind = "generator" /\ Top.kind \in Works /\ Top.of \in Ids
         /\ objects[Top.of].source \in Ids /\ objects[objects[Top.of].source].type = "generator"
  <1>1. Top.kind = "generator" /\ objects[Top.of].source /= NoSource
    BY DEF YieldingFrom
  <1>2. Top.kind \in Works
    BY <1>1 DEF Works
  <1>3. Top.of \in Ids /\ Sound(objects[Top.of], objects)
    BY <1>2, TopRuns, Typed
  <1> QED BY <1>1, <1>2, <1>3 DEF Sound, Ids

\* A generator that yields from another asks it for a value.
LEMMA PullsSourceKeeps == ASSUME IInv, PullsSource PROVE IInv'
  <1>1. /\ stack /= <<>> /\ ctl \notin Ended /\ YieldingFrom /\ NextOn(objects[Top.of].source)
        /\ UNCHANGED <<depth, recursionLimit, Imports, completions>> /\ instructions' = instructions
    BY DEF PullsSource, InBody, Ended, Limits
  <1>2. /\ Top.kind = "generator" /\ objects[Top.of].source \in Ids
        /\ objects[objects[Top.of].source].type = "generator"
    BY <1>1, YieldingFromGives
  <1>3. AllWait /\ instructions' \in 0 .. MaxInstructions
    BY <1>1, <1>2, AllWaiting, Typed
  <1> QED BY <1>1, <1>2, <1>3, NextOnKeeps

\* A body imports a library, which is there, being built or built now.
LEMMA ImportsModuleKeeps == ASSUME IInv, ImportsModule PROVE IInv'
  <1>1. Operates /\ UNCHANGED <<depth, recursionLimit, modules, completions>>
    BY DEF ImportsModule
  <1>2. PICK n \in Names : ImportName(n)
    BY DEF ImportsModule
  <1>3. CASE n \in modules
    <2>1. /\ stack' = stack /\ ctl' \in Goes /\ objects' = objects /\ history' = history
          /\ UNCHANGED Imports
      BY <1>1, <1>2, <1>3, OperatesGives DEF ImportName, Heap, Imports, Goes
    <2> QED BY <1>1, <2>1, OperatesGives, AnswerKeeps
  <1>4. CASE n \notin modules /\ n \in resolving
    <2>1. Raise /\ UNCHANGED Imports
      BY <1>1, <1>2, <1>4 DEF ImportName, Resolve, Imports
    <2> QED BY <1>1, <2>1, OperatesGives, RaiseKeeps
  <1>5. CASE n \notin modules /\ n \notin resolving
    <2> DEFINE b == Body("module", n)
    <2>1. /\ Enter(b) /\ resolving' = resolving \cup {n} /\ objects' = objects /\ history' = history
          /\ modules' = modules
      BY <1>1, <1>2, <1>5 DEF ImportName, Resolve, Heap
    <2>2. b \in BodyType /\ b.kind = "module" /\ b.of = n
      BY BodyTyped DEF Frames
    <2> HIDE DEF b
    <2>3. HeapKept
      BY <2>1, HeapStays, Typed
    <2>4. b.kind \notin Works /\ ~Charged(b) /\ Fits(b, objects')
      BY <2>2 DEF Works, Charged, Fits
    <2>5. \A i \in Ids' : objects'[i].state = "running"
                             <=> i \in Ids /\ (objects[i].state = "running" \/ (b.kind \in Works /\ i = b.of))
      BY <2>1, <2>4 DEF Ids
    <2>6. depth' <= MaxRecursionDepth /\ depth' = depth + (IF Charged(b) THEN 1 ELSE 0)
      BY <1>1, <2>4, Typed DEF IInv, Counted
    <2>7. /\ b.kind \in Works => b.of \in Ids \ Held(stack, Works, AllIds)
          /\ b.kind = "module" => b.of \in Names \ (resolving \cup modules)
          /\ resolving' = resolving \cup (IF b.kind = "module" THEN {b.of} ELSE {})
          /\ history'.built = history.built /\ history'.attempted = history.attempted
      BY <1>5, <2>1, <2>2, <2>4
    <2> QED BY <1>1, <2>1, <2>2, <2>3, <2>4, <2>5, <2>6, <2>7, OperatesGives, PushKeeps
  <1> QED BY <1>3, <1>4, <1>5

\* A library being built registers a completion.
LEMMA WhenRunCompletedKeeps == ASSUME IInv, WhenRunCompleted PROVE IInv'
  <1>1. /\ Operates /\ completions' = [completions EXCEPT !.due = @ + 1]
        /\ UNCHANGED <<stack, ctl, depth, recursionLimit, Heap, Imports>>
    BY DEF WhenRunCompleted
  <1>2. objects' = objects /\ history' = history /\ ctl' = "run"
    BY <1>1, OperatesGives DEF Heap
  <1>3. HeapKept
    BY <1>2, HeapStays, Typed
  <1>4. \A i \in Ids' : objects'[i].state = "running" <=> i \in Ids /\ objects[i].state = "running"
    BY <1>2 DEF Ids
  <1>5. /\ completions' \in [due : Nat, next : Nat \ {0}] /\ ctl' \in Goes
        /\ completions'.next = completions.next /\ completions'.due >= completions.due
        /\ recursionLimit' \in 1 .. MaxRecursionDepth
    BY <1>1, <1>2, Typed DEF Goes
  <1> QED BY <1>1, <1>2, <1>3, <1>4, <1>5, OperatesGives, StaysKeeps

\* Something comes back to the innermost body, which is there to receive it.
LEMMA ReceiveKeeps ==
  ASSUME IInv, ctl \in Goes, ctl /= "run", ctl' \in Goes, UNCHANGED <<stack, Limits, Heap, Imports, completions>>
  PROVE  IInv'
  <1>1. ctl \notin Ended /\ stack /= <<>>
    BY DEF Ended, Goes, IInv, Stacked
  <1>2. AllWait /\ instructions' \in 0 .. MaxInstructions
    BY <1>1, AllWaiting, Typed DEF Limits
  <1>3. /\ UNCHANGED <<depth, recursionLimit, Imports, completions>> /\ stack' = stack
        /\ objects' = objects /\ history' = history
    BY DEF Limits, Heap
  <1> QED BY <1>1, <1>2, <1>3, AnswerKeeps

\* A value comes back to a body.
LEMMA ReceivesValueKeeps == ASSUME IInv, ReceivesValue PROVE IInv'
  BY ReceiveKeeps DEF ReceivesValue, Goes

\* The end of a generator comes back to a body.
LEMMA ReceivesEndKeeps == ASSUME IInv, ReceivesEnd PROVE IInv'
  BY ReceiveKeeps DEF ReceivesEnd, Goes

\* A body catches an error.
LEMMA CatchesKeeps == ASSUME IInv, Catches PROVE IInv'
  BY ReceiveKeeps DEF Catches, Goes

\* An error leaves the innermost body.
LEMMA PropagatesKeeps == ASSUME IInv, Propagates PROVE IInv'
  <1>1. /\ stack /= <<>> /\ ctl \notin Ended /\ Leave("raise") /\ "raise" \in Goes
        /\ instructions' \in 0 .. MaxInstructions
    BY Typed DEF Propagates, Ended, Goes
  <1> QED BY <1>1, LeaveKeeps

\* A value of its source passes a generator on the way up.
LEMMA PassesOnKeeps == ASSUME IInv, PassesOn PROVE IInv'
  <1>1. stack /= <<>> /\ YieldingFrom /\ Suspend /\ instructions' \in 0 .. MaxInstructions
    BY Typed DEF PassesOn
  <1> QED BY <1>1, YieldingFromGives, SuspendKeeps

\* The source of a generator has ended, and the generator goes on.
LEMMA SourceEndsKeeps == ASSUME IInv, SourceEnds PROVE IInv'
  <1> DEFINE k == Top.of
             o == [objects[k] EXCEPT !.source = NoSource]
  <1>1. /\ stack /= <<>> /\ ctl = "exhausted" /\ ctl \notin Ended /\ YieldingFrom /\ ctl' \in Goes
        /\ objects' = [objects EXCEPT ![k] = o] /\ instructions' = instructions
        /\ UNCHANGED <<stack, depth, recursionLimit, Imports, completions, history>>
    BY DEF SourceEnds, Ended, Goes, Limits
  <1>2. k \in Ids
    BY <1>1, YieldingFromGives
  <1>3. objects[k] \in ObjectType /\ Sound(objects[k], objects) /\ MaxObjects \in Nat
        /\ history \in History /\ instructions' \in 0 .. MaxInstructions
    BY <1>1, <1>2, Typed
  <1>4. o \in ObjectType /\ o.type = objects[k].type /\ o.parts = objects[k].parts
        /\ o.source = NoSource /\ o.state = objects[k].state /\ o.finished = objects[k].finished
    BY <1>3 DEF ObjectType, NoSource
  <1>5. Sound(o, objects)
    BY <1>3, <1>4 DEF Sound
  <1>6. Happened(o, k, history')
    BY <1>1, <1>2, <1>4 DEF IInv, Records, Happened, Outcomes, Ids
  <1>7. AllWait
    BY <1>1, AllWaiting
  <1> HIDE DEF o, k
  <1>8. /\ history' \in History /\ history'.built = history.built /\ history'.attempted = history.attempted
        /\ \A i \in AllIds \ {k} : /\ history'.started[i] = history.started[i]
                                   /\ history'.told[i] = history.told[i]
                                   /\ i \in history'.reentered <=> i \in history.reentered
    BY <1>1, <1>3
  <1> QED BY <1>1, <1>2, <1>3, <1>4, <1>5, <1>6, <1>7, <1>8, ChangeKeeps

\* What the host called back returns.
LEMMA LevelReceivesKeeps == ASSUME IInv, LevelReceives PROVE IInv'
  <1>1. /\ ctl \notin Ended /\ instructions' \in 0 .. MaxInstructions
        /\ \E how \in {"value", "raise"} : Leave(how)
    BY Typed DEF LevelReceives, Ended
  <1>2. stack /= <<>>
    BY <1>1 DEF IInv, Stacked, Ended
  <1>3. PICK how \in Goes : Leave(how)
    BY <1>1 DEF Goes
  <1> QED BY <1>1, <1>2, <1>3, LeaveKeeps

\* A part of a future has its value.
LEMMA GatherReceivesKeeps == ASSUME IInv, GatherReceives PROVE IInv'
  <1>1. /\ ctl = "value" /\ ctl \notin Ended /\ Top.kind = "gather" /\ Onward /\ ctl' = "run"
        /\ UNCHANGED <<depth, recursionLimit, instructions, Heap, Imports, completions>>
    BY DEF GatherReceives, Ended, Limits
  <1>2. stack /= <<>>
    BY <1>1 DEF IInv, Stacked, Ended
  <1>3. AllWait /\ Len(stack) \in DOMAIN stack /\ Top = stack[Len(stack)]
    BY <1>1, <1>2, AllWaiting, Typed
  <1>4. Top.at <= Len(objects[Top.of].parts)
    BY <1>1, <1>3 DEF AllWait, Waits
  <1> QED BY <1>1, <1>2, <1>4, OnwardKeeps

\* A future awaits its next part.
LEMMA GatherAwaitsKeeps == ASSUME IInv, GatherAwaits PROVE IInv'
  <1>1. /\ ctl = "run" /\ ctl \notin Ended /\ stack /= <<>> /\ Top.kind = "gather"
        /\ Top.at <= Len(objects[Top.of].parts)
        /\ UNCHANGED <<depth, recursionLimit, instructions, Imports, completions>>
    BY DEF GatherAwaits, Ended, Limits
  <1>2. CASE Onward /\ UNCHANGED <<ctl, Heap>>
    <2>1. UNCHANGED <<depth, recursionLimit, instructions, Heap, Imports, completions>>
      BY <1>1, <1>2 DEF Heap
    <2> QED BY <1>1, <1>2, <2>1, OnwardKeeps
  <1>3. CASE AwaitOn(Part)
    <2>1. AllWait /\ instructions' \in 0 .. MaxInstructions
      BY <1>1, AllWaiting, Typed
    <2>2. Part \in Ids
      <3>1. Top.of \in Ids /\ Top \in BodyType /\ Sound(objects[Top.of], objects)
            /\ objects[Top.of] \in ObjectType
        BY <1>1, Typed DEF Fits, Works, Ids
      <3>2. Top.at \in 1 .. Len(objects[Top.of].parts)
        <4>1. objects[Top.of].parts \in Seq(1 .. MaxObjects) /\ Top.at \in 1 .. 3
          BY <3>1 DEF ObjectType, BodyType
        <4>2. Len(objects[Top.of].parts) \in Nat
          BY <4>1, LenProperties
        <4> QED BY <1>1, <4>1, <4>2
      <3> QED BY <3>1, <3>2 DEF Part, Sound, Ids
    <2>3. UNCHANGED <<depth, recursionLimit, Imports, completions>>
      BY <1>1
    <2> QED BY <1>1, <1>3, <2>1, <2>2, <2>3, AwaitOnKeeps
  <1> QED BY <1>2, <1>3 DEF GatherAwaits

\* All parts of a future have their values.
LEMMA GatherEndsKeeps == ASSUME IInv, GatherEnds PROVE IInv'
  <1>1. /\ stack /= <<>> /\ ctl \notin Ended /\ Leave("value") /\ "value" \in Goes
        /\ instructions' \in 0 .. MaxInstructions
    BY Typed DEF GatherEnds, Ended, Goes
  <1> QED BY <1>1, LeaveKeeps

\* The completions of a run are attempted, one after the other.
LEMMA CompleteRunKeeps == ASSUME IInv, CompleteRun PROVE IInv'
  <1>1. /\ ctl = "ending" /\ stack' = stack /\ objects' = objects
        /\ UNCHANGED <<depth, recursionLimit, instructions, Imports>>
    BY DEF CompleteRun, Limits
  <1>2. stack = <<>>
    BY <1>1 DEF IInv, Stacked
  <1>3. /\ completions \in [due : Nat, next : Nat \ {0}] /\ history \in History
        /\ completions.next = history.attempted + 1 /\ completions.next <= completions.due + 1
    BY Typed DEF IInv, Completed
  <1>4. /\ ctl' \in Ended /\ history' \in History /\ completions' \in [due : Nat, next : Nat \ {0}]
        /\ history'.started = history.started /\ history'.told = history.told
        /\ history'.reentered = history.reentered /\ history'.built = history.built
        /\ Completed(ctl', completions', history')
    <2>1. CASE completions.next <= completions.due
      <3>1. /\ ctl' = "ending" /\ history' = [history EXCEPT !.attempted = @ + 1]
            /\ completions' = [completions EXCEPT !.next = @ + 1]
        BY <1>1, <2>1 DEF CompleteRun, CompleteOne
      <3>2. history.attempted \in Nat
        BY <1>3 DEF History
      <3>3. /\ history' \in History /\ history'.started = history.started /\ history'.told = history.told
            /\ history'.reentered = history.reentered /\ history'.built = history.built
            /\ history'.attempted = history.attempted + 1
        BY <1>3, <3>1, <3>2 DEF History
      <3>4. /\ completions' \in [due : Nat, next : Nat \ {0}]
            /\ completions'.next = completions.next + 1 /\ completions'.due = completions.due
        BY <1>3, <3>1
      <3> QED BY <1>3, <2>1, <3>1, <3>2, <3>3, <3>4 DEF Ended, Completed
    <2>2. CASE ~(completions.next <= completions.due)
      <3>1. ctl' = "over" /\ completions' = completions /\ history' = history
        BY <2>2 DEF CompleteRun
      <3>2. completions.next = completions.due + 1
        BY <1>3, <2>2
      <3> QED BY <1>3, <3>1, <3>2 DEF Ended, Completed
    <2> QED BY <2>1, <2>2
  <1>5. HeapKept
    BY <1>1, <1>4, HeapStays
  <1>6. Stacked(stack', ctl', objects')
    <2>1. DOMAIN stack = {}
      BY <1>2, EmptySeq, Typed
    <2> QED BY <1>1, <1>2, <1>4, <2>1 DEF Stacked, Ended, Owned
  <1>7. Running(stack', objects') /\ stack' \in Seq(BodyType)
    BY <1>1, Typed DEF IInv
  <1>8. Built(stack', resolving', modules', history') /\ Counted(stack', depth')
    BY <1>1, <1>4 DEF IInv, Built, Counted, Imports
  <1>9. /\ recursionLimit' \in 1 .. MaxRecursionDepth /\ modules' \subseteq Names
        /\ instructions' \in 0 .. MaxInstructions
    BY <1>1, Typed DEF Imports
  <1> QED BY <1>4, <1>5, <1>6, <1>7, <1>8, <1>9, Kept

-----------------------------------------------------------------------------
\* ---- the invariant and what it gives ----

\* A step that changes nothing keeps the invariant.
LEMMA StutterKeeps == ASSUME IInv, UNCHANGED vars PROVE IInv'
  <1>1. /\ stack' = stack /\ ctl' = ctl /\ objects' = objects /\ depth' = depth
        /\ recursionLimit' = recursionLimit /\ instructions' = instructions /\ modules' = modules
        /\ resolving' = resolving /\ completions' = completions /\ history' = history
    BY DEF vars
  <1>2. TypeOK'
    BY <1>1 DEF IInv, TypeOK
  <1> QED BY <1>1, <1>2 DEF IInv, Ids

\* A program starts with nothing called, made or imported.
LEMMA InitHolds == Init => IInv
  <1> SUFFICES ASSUME Init PROVE IInv
    OBVIOUS
  <1> DEFINE b == Body("module", None)
  <1>1. /\ stack = <<b>> /\ ctl = "run" /\ objects = <<>> /\ depth = 0
        /\ recursionLimit = MaxRecursionDepth /\ instructions = 0 /\ modules = {} /\ resolving = {}
        /\ completions = [due |-> 0, next |-> 1]
        /\ history = [started |-> [i \in 1 .. MaxObjects |-> 0],
                      told |-> [i \in 1 .. MaxObjects |-> {}],
                      reentered |-> {}, built |-> [n \in Names |-> 0], attempted |-> 0]
    BY DEF Init
  <1>2. b \in BodyType /\ b.kind = "module" /\ b.of = None
    BY DEF Body, BodyType, Frames
  <1> HIDE DEF b
  <1>3. /\ stack \in Seq(BodyType) /\ Len(stack) = 1 /\ DOMAIN stack = 1 .. 1 /\ stack[1] = b
        /\ stack /= <<>>
    BY <1>1, <1>2, EmptySeq
  <1>4. objects \in Seq(ObjectType) /\ Len(objects) = 0 /\ DOMAIN objects = {} /\ Ids = {}
    BY <1>1, EmptySeq DEF Ids
  <1>5. MaxRecursionDepth \in Nat \ {0} /\ MaxInstructions \in Nat /\ MaxObjects \in Nat
    BY LimitsAreNatural
  <1>6. history \in History
    BY <1>1 DEF History
  <1>7. TypeOK
    BY <1>1, <1>3, <1>4, <1>5, <1>6 DEF TypeOK, BodyType, ObjectType
  <1>8. Held(stack, {"module"}, Names) = {} /\ Held(stack, Works, AllIds) = {}
    BY <1>2, <1>3, NoneIsNoName DEF Held, Works
  <1>9. Stacked(stack, ctl, objects)
    BY <1>1, <1>2, <1>3 DEF Stacked, Fits, Waits, Owned, Works
  <1>10. Running(stack, objects)
    BY <1>4 DEF Running
  <1>11. Records(objects, history)
    BY <1>1, <1>4 DEF Records, AllIds
  <1>12. Built(stack, resolving, modules, history)
    BY <1>1, <1>8 DEF Built
  <1>13. Counted(stack, depth)
    <2>1. Marks(stack, ChargedBodies) = {}
      <3>1. b \notin ChargedBodies
        BY <1>2 DEF ChargedBodies, Charged
      <3>2. \A i \in DOMAIN stack : stack[i] = b
        BY <1>3
      <3> QED BY <3>1, <3>2 DEF Marks
    <2>2. Cardinality(Marks(stack, ChargedBodies)) = 0
      BY <2>1, FS_EmptySet
    <2>3. depth = 0 /\ 0 <= MaxRecursionDepth
      BY <1>1, <1>5
    <2> QED BY <2>2, <2>3 DEF Counted
  <1>14. Completed(ctl, completions, history)
    BY <1>1 DEF Completed
  <1> QED BY <1>4, <1>5, <1>7, <1>9, <1>10, <1>11, <1>12, <1>13, <1>14 DEF IInv

\* The inductive invariant holds in every reachable state.
THEOREM Invariant == Spec => []IInv
  <1>1. ASSUME IInv, [Next]_vars
        PROVE  IInv'
    <2>1. CASE Next
      BY <1>1, <2>1, LimitReachedKeeps, ReturnsKeeps, RaisesErrorKeeps, CallFunctionKeeps,
         EnterRecursionKeeps, CallsFromLevelKeeps, SetRecursionLimitKeeps, MakeFutureKeeps,
         AwaitsOneKeeps, NextOfGeneratorKeeps, YieldsKeeps, YieldsFromKeeps, PullsSourceKeeps,
         ImportsModuleKeeps, WhenRunCompletedKeeps, ReceivesValueKeeps, ReceivesEndKeeps,
         CatchesKeeps, PropagatesKeeps, PassesOnKeeps, SourceEndsKeeps, LevelReceivesKeeps,
         GatherReceivesKeeps, GatherAwaitsKeeps, GatherEndsKeeps, CompleteRunKeeps DEF Next
    <2> QED BY <1>1, <2>1, StutterKeeps
  <1> QED BY <1>1, InitHolds, PTL DEF Spec

\* Every body, object and counter has its type.
THEOREM TypeCorrect == Spec => []TypeOK
  <1>1. IInv => TypeOK
    BY DEF IInv
  <1> QED BY <1>1, Invariant, PTL

\* The depth counts the calls and host recursions under way, within the limit, and the names
\* being resolved are those of the libraries being built, however each was left.
THEOREM CountersExactCorrect == Spec => []CountersExact
  <1>1. ASSUME IInv
        PROVE  CountersExact
    <2>1. {i \in DOMAIN stack : Charged(stack[i])} = Marks(stack, ChargedBodies)
      BY <1>1, Typed DEF Marks, ChargedBodies
    <2>2. depth = Count(Charged) /\ depth <= MaxRecursionDepth
      BY <1>1, <2>1 DEF IInv, Counted, Count
    <2>3. resolving = Held(stack, {"module"}, Names)
      BY <1>1 DEF IInv, Built
    <2>4. \A i \in DOMAIN stack : stack[i].kind = "module" => stack[i].of \in Names \cup {None}
      BY <1>1, Typed DEF Fits
    <2>5. resolving = {stack[i].of : i \in {j \in DOMAIN stack : stack[j].kind = "module"}} \ {None}
      BY <2>3, <2>4, NoneIsNoName DEF Held
    <2> QED BY <2>2, <2>5 DEF CountersExact
  <1> QED BY <1>1, Invariant, PTL

\* No coroutine and no work of a future starts twice.
THEOREM WorkOnceCorrect == Spec => []WorkOnce
  <1>1. ASSUME IInv
        PROVE  WorkOnce
    <2>1. Records(objects, history)
      BY <1>1 DEF IInv
    <2> QED BY <2>1 DEF WorkOnce, Records, Happened, AllIds
  <1> QED BY <1>1, Invariant, PTL

\* All who await a future that is not awaited from within hear one outcome.
THEOREM AwaitersAgreeCorrect == Spec => []AwaitersAgree
  <1>1. ASSUME IInv
        PROVE  AwaitersAgree
    <2> SUFFICES ASSUME NEW i \in (1 .. MaxObjects) \ history.reentered
                 PROVE  Cardinality(history.told[i]) <= 1
      BY DEF AwaitersAgree
    <2>1. PICK t : history.told[i] \subseteq {t}
      <3>1. CASE i \in Ids
        BY <1>1, <3>1 DEF IInv, Records, Happened, Outcomes, Ids
      <3>2. CASE i \notin Ids
        BY <1>1, <3>2 DEF IInv, Records, AllIds, Ids
      <3> QED BY <3>1, <3>2
    <2>2. history.told[i] = {} \/ history.told[i] = {t}
      BY <2>1
    <2> QED BY <2>2, FS_EmptySet, FS_Singleton
  <1> QED BY <1>1, Invariant, PTL

\* A generator that was reported exhausted has ended, unless it was resumed from within.
THEOREM ExhaustedIsFinalCorrect == Spec => []ExhaustedIsFinal
  <1>1. ASSUME IInv
        PROVE  ExhaustedIsFinal
    <2>1. \A i \in Ids : Happened(objects[i], i, history)
      BY <1>1 DEF IInv, Records, Ids
    <2> QED BY <2>1 DEF ExhaustedIsFinal, Happened
  <1> QED BY <1>1, Invariant, PTL

\* One module is built for every library that was imported, and none for another.
THEOREM ModuleOnceCorrect == Spec => []ModuleOnce
  <1>1. IInv => ModuleOnce
    BY DEF IInv, Built, ModuleOnce
  <1> QED BY <1>1, Invariant, PTL

\* When the run is over, every completion was attempted once.
THEOREM CompletionsAttemptedCorrect == Spec => []CompletionsAttempted
  <1>1. ASSUME IInv
        PROVE  CompletionsAttempted
    <2>1. completions \in [due : Nat, next : Nat \ {0}] /\ history.attempted \in Nat
      BY <1>1, Typed DEF History
    <2> QED BY <1>1, <2>1 DEF IInv, Completed, CompletionsAttempted
  <1> QED BY <1>1, Invariant, PTL
=============================================================================
