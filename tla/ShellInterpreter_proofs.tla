----------------------- MODULE ShellInterpreter_proofs -----------------------
(***************************************************************************)
(* However a command of a script is left - by a result, a limit, an error  *)
(* or a cancellation, through any nesting of calls - the interpreter puts  *)
(* back what it took: depth counters, shells, scopes and flags.            *)
(*                                                                         *)
(* The argument is about four moves on the stack: a frame changes in       *)
(* place, is pushed, is pushed with a shell of its own, is popped.  A      *)
(* lemma for each says what the move keeps balanced; every action is one   *)
(* of them or two in a row.  The same moves carry the status a call        *)
(* reports past the EXIT handler that runs meanwhile.                      *)
(***************************************************************************)
EXTENDS ShellInterpreter, FiniteSetTheorems, SequenceTheorems, TLAPS

-----------------------------------------------------------------------------
\* ---- sequences, and the positions of the elements that are in a set ----

Marks(st, X) == {i \in DOMAIN st : st[i] \in X}

\* Replacing the last element of a sequence leaves the others where they are.
LEMMA Replaced ==
  ASSUME NEW S, NEW st \in Seq(S), st # <<>>, NEW f \in S
  PROVE  /\ [st EXCEPT ![Len(st)] = f] \in Seq(S)
         /\ Len([st EXCEPT ![Len(st)] = f]) = Len(st)
         /\ [st EXCEPT ![Len(st)] = f][Len(st)] = f
         /\ \A i \in 1..(Len(st) - 1) : [st EXCEPT ![Len(st)] = f][i] = st[i]
         /\ [st EXCEPT ![Len(st)] = f] # <<>>
  BY ExceptSeq, LenProperties, EmptySeq, Len(st) \in 1..Len(st)

\* Removing the last element of a sequence leaves the others where they are.
LEMMA Fronted ==
  ASSUME NEW S, NEW st \in Seq(S), st # <<>>
  PROVE  /\ Front(st) \in Seq(S)
         /\ Len(Front(st)) = Len(st) - 1
         /\ \A i \in 1..(Len(st) - 1) : Front(st)[i] = st[i]
         /\ Len(st) \in Nat \ {0}
  <1> DEFINE n == Len(st) - 1
  <1>1. Len(st) \in Nat \ {0} /\ n \in Int /\ n >= 0 /\ Len(st) = n + 1
    BY EmptySeq
  <1>2. \A i \in 1..n : st[i] \in S
    BY <1>1, ElementOfSeq
  <1>3. Front(st) = SubSeq(st, 1, n)
    BY DEF Front
  <1> HIDE DEF n
  <1> DEFINE F == SubSeq(st, 1, n)
  <1>4. /\ F \in Seq(S)
        /\ Len(F) = IF 1 <= n THEN n - 1 + 1 ELSE 0
        /\ \A i \in 1..(n - 1 + 1) : F[i] = st[1 + i - 1]
    BY <1>1, <1>2, SubSeqProperties
  <1> HIDE DEF F
  <1>5. Len(F) = n
    BY <1>1, <1>4
  <1>6. \A i \in 1..n : F[i] = st[i]
    <2> TAKE i \in 1..n
    <2>1. i \in 1..(n - 1 + 1) /\ 1 + i - 1 = i
      BY <1>1
    <2> QED BY <1>4, <2>1
  <1>7. Front(st) = F
    BY <1>3 DEF F
  <1> QED BY <1>1, <1>4, <1>5, <1>6, <1>7, Zenon DEF n

\* A sequence has finitely many positions to mark.
LEMMA MarksFinite ==
  ASSUME NEW S, NEW st \in Seq(S), NEW X
  PROVE  IsFiniteSet(Marks(st, X)) /\ Cardinality(Marks(st, X)) \in Nat
  <1>1. Len(st) \in Nat /\ DOMAIN st = 1..Len(st)
    BY LenProperties
  <1>2. IsFiniteSet(1..Len(st))
    BY <1>1, FS_Interval
  <1>3. Marks(st, X) \subseteq 1..Len(st)
    BY <1>1 DEF Marks
  <1>4. IsFiniteSet(Marks(st, X))
    BY <1>2, <1>3, FS_Subset
  <1> QED BY <1>4, FS_CardinalityType

\* Pushing an element marks its position if it is in the set.
LEMMA MarksPushed ==
  ASSUME NEW S, NEW st \in Seq(S), NEW f \in S, NEW X
  PROVE  /\ IsFiniteSet(Marks(st, X))
         /\ Cardinality(Marks(st, X)) \in Nat
         /\ Cardinality(Marks(Append(st, f), X)) = Cardinality(Marks(st, X)) + (IF f \in X THEN 1 ELSE 0)
  <1>1. Len(st) \in Nat /\ DOMAIN st = 1..Len(st)
    BY LenProperties
  <1>2. IsFiniteSet(Marks(st, X)) /\ Cardinality(Marks(st, X)) \in Nat
    BY <1>1, MarksFinite
  <1>3. /\ DOMAIN Append(st, f) = 1..(Len(st) + 1)
        /\ \A i \in 1..Len(st) : Append(st, f)[i] = st[i]
        /\ Append(st, f)[Len(st) + 1] = f
    BY AppendProperties, LenProperties
  <1>4. Marks(Append(st, f), X) = Marks(st, X) \cup (IF f \in X THEN {Len(st) + 1} ELSE {})
    BY <1>1, <1>3 DEF Marks
  <1>5. Len(st) + 1 \notin Marks(st, X)
    BY <1>1 DEF Marks
  <1>6. CASE f \in X
    BY <1>2, <1>4, <1>5, <1>6, FS_AddElement
  <1>7. CASE f \notin X
    BY <1>2, <1>4, <1>7
  <1> QED BY <1>2, <1>6, <1>7

\* Popping the last element unmarks its position if it was in the set.
LEMMA MarksPopped ==
  ASSUME NEW S, NEW st \in Seq(S), st # <<>>, NEW X
  PROVE  /\ Cardinality(Marks(st, X)) \in Nat
         /\ Cardinality(Marks(Front(st), X)) = Cardinality(Marks(st, X)) - (IF st[Len(st)] \in X THEN 1 ELSE 0)
         /\ Cardinality(Marks(Front(st), X)) \in Nat
  <1>1. /\ Len(st) \in Nat \ {0} /\ DOMAIN st = 1..Len(st)
        /\ DOMAIN Front(st) = 1..(Len(st) - 1) /\ Front(st) \in Seq(S)
        /\ \A i \in 1..(Len(st) - 1) : Front(st)[i] = st[i]
    BY Fronted, LenProperties
  <1>2. IsFiniteSet(Marks(st, X)) /\ Cardinality(Marks(st, X)) \in Nat
    BY <1>1, MarksFinite
  <1>3. IsFiniteSet(Marks(Front(st), X)) /\ Cardinality(Marks(Front(st), X)) \in Nat
    BY <1>1, MarksFinite
  <1>4. Marks(st, X) = Marks(Front(st), X) \cup (IF st[Len(st)] \in X THEN {Len(st)} ELSE {})
    BY <1>1 DEF Marks
  <1>5. Len(st) \notin Marks(Front(st), X)
    BY <1>1 DEF Marks
  <1>6. CASE st[Len(st)] \in X
    BY <1>2, <1>3, <1>4, <1>5, <1>6, FS_AddElement
  <1>7. CASE st[Len(st)] \notin X
    BY <1>2, <1>3, <1>4, <1>7
  <1> QED BY <1>2, <1>3, <1>6, <1>7

-----------------------------------------------------------------------------
\* ---- what a stack and its shells owe each other ----

Of(kinds)        == {f \in FrameType : f.kind \in kinds}
OfIn(kinds, s)   == {f \in FrameType : f.kind \in kinds /\ f.shell = s}
ExpandingIn(s)   == {f \in FrameType : f.kind = "simple" /\ f.shell = s /\ f.phase = "alias"}
Count(st, X)     == Cardinality(Marks(st, X))
One(b)           == IF b THEN 1 ELSE 0

\* Only the bottom frame is a call; a frame belongs to the shell of the frame
\* below it, or to the next one if it forked; the top frame to the last shell.
Ordered(st, sh) ==
  /\ Len(sh) >= 1
  /\ st = <<>> => Len(sh) = 1
  /\ st # <<>> => st[1].shell = 1 /\ st[Len(st)].shell = Len(sh)
  /\ \A i \in 1..Len(st) : (st[i].kind = "call") = (i = 1)
  /\ \A i \in 1..(Len(st) - 1) : st[i + 1].shell = st[i].shell + One(st[i + 1].kind \in Forks)
  /\ \A i, j \in 1..Len(st) : i < j => st[i].shell + One(st[j].kind \in Forks) <= st[j].shell

Deep(st, b) ==
  /\ b.functions = Count(st, Of({"func"})) /\ b.functions <= MaxFunctionDepth
  /\ b.nesting = Count(st, Of(Nests)) /\ b.nesting <= MaxNestingDepth

Scoped(st, sh) ==
  /\ Len(sh) = 1 + Count(st, Of(Forks))
  /\ sh[1].scopes = 1 + Count(st, OfIn({"func"}, 1))
  /\ \A i \in 1..Len(st) : st[i].kind \in Forks =>
       sh[st[i].shell].scopes =
         (IF st[i].kind = "isolated" THEN 1 ELSE sh[st[i].shell - 1].scopes)
         + Count(st, OfIn({"func"}, st[i].shell))

Flagged(st, sh) ==
  \A s \in 1..Len(sh) : /\ Count(st, OfIn({"trap"}, s)) = One(sh[s].inTrap)
                        /\ Count(st, ExpandingIn(s)) = One(sh[s].expanding)

Balanced(st, sh, b) == Ordered(st, sh) /\ Deep(st, b) /\ Scoped(st, sh) /\ Flagged(st, sh)

IInv == TypeOK /\ (ctl.at = "idle" <=> stack = <<>>) /\ Balanced(stack, shells, budget)

\* Two frames, shells or budgets that no balance tells apart.
Alike(f, g) ==
  /\ f.kind = g.kind /\ f.shell = g.shell
  /\ f.kind = "simple" => (f.phase = "alias" <=> g.phase = "alias")
AlikeShells(sh, sh2) ==
  /\ Len(sh2) = Len(sh)
  /\ \A s \in 1..Len(sh) : /\ sh2[s].scopes = sh[s].scopes /\ sh2[s].inTrap = sh[s].inTrap
                            /\ sh2[s].expanding = sh[s].expanding
AlikeBudgets(b, b2) == b2.functions = b.functions /\ b2.nesting = b.nesting

\* Every frame belongs to a shell there is, and so does the parent of a fork.
LEMMA ShellsThere ==
  ASSUME NEW st \in Seq(FrameType), NEW sh \in Seq(ShellType), Ordered(st, sh)
  PROVE  \A i \in 1..Len(st) :
           /\ st[i].shell \in 1..Len(sh)
           /\ st[i].kind \in Forks => st[i].shell - 1 \in 1..Len(sh)
  <1>1. /\ Len(st) \in Nat /\ Len(sh) \in Nat
        /\ \A i \in 1..Len(st) : st[i] \in FrameType /\ st[i].shell \in Nat \ {0}
        /\ (st = <<>> <=> Len(st) = 0)
    BY LenProperties, ElementOfSeq, EmptySeq DEF FrameType
  <1> SUFFICES ASSUME NEW i \in 1..Len(st)
               PROVE  /\ st[i].shell \in 1..Len(sh)
                      /\ st[i].kind \in Forks => st[i].shell - 1 \in 1..Len(sh)
    OBVIOUS
  <1>2. st[1].shell = 1 /\ st[Len(st)].shell = Len(sh) /\ st[1].kind = "call"
    BY <1>1 DEF Ordered
  <1>3. \A j, k \in 1..Len(st) : j < k => st[j].shell + One(st[k].kind \in Forks) <= st[k].shell
    BY DEF Ordered
  <1>4. st[i].shell <= Len(sh)
    BY <1>1, <1>2, <1>3 DEF One
  <1>5. ASSUME st[i].kind \in Forks
        PROVE  st[i].shell - 1 \in 1..Len(sh)
    <2>1. i # 1
      BY <1>2, <1>5 DEF Forks
    <2>2. st[1].shell + 1 <= st[i].shell
      BY <1>1, <1>3, <1>5, <2>1 DEF One
    <2> QED BY <1>1, <1>2, <1>4, <2>2
  <1> QED BY <1>1, <1>4, <1>5

\* The balances say what the invariants of the model say.
LEMMA BalancedMeans ==
  ASSUME TypeOK, Balanced(stack, shells, budget)
  PROVE  DepthsBalanced /\ ScopesBalanced /\ FlagsHonest
  <1>1. /\ DOMAIN stack = 1..Len(stack) /\ \A i \in 1..Len(stack) : stack[i] \in FrameType
        /\ DOMAIN shells = 1..Len(shells) /\ Len(stack) \in Nat /\ Len(shells) \in Nat
    BY LenProperties, ElementOfSeq DEF TypeOK
  <1>2. \A K : FramesOf(K) = Marks(stack, Of(K))
    BY <1>1 DEF FramesOf, Marks, Of
  <1>3. \A K, s : {i \in FramesOf(K) : stack[i].shell = s} = Marks(stack, OfIn(K, s))
    BY <1>1 DEF FramesOf, Marks, OfIn
  <1>4. \A s : {i \in FramesOf({"simple"}) : stack[i].shell = s /\ stack[i].phase = "alias"}
               = Marks(stack, ExpandingIn(s))
    BY <1>1 DEF FramesOf, Marks, ExpandingIn
  <1>5. DepthsBalanced
    BY <1>2 DEF Balanced, Deep, DepthsBalanced, Count
  <1>6. ScopesBalanced
    <2>1. \A i \in FramesOf(Forks) : i \in 1..Len(stack) /\ stack[i].kind \in Forks
      BY <1>1 DEF FramesOf
    <2>2. \A s : FunctionsIn(s) = Count(stack, OfIn({"func"}, s))
      BY <1>3 DEF FunctionsIn, Count
    <2>3. Cardinality(FramesOf(Forks)) = Count(stack, Of(Forks))
      BY <1>2 DEF Count
    <2>4. Scoped(stack, shells)
      BY DEF Balanced
    <2>5. /\ Len(shells) = 1 + Cardinality(FramesOf(Forks))
          /\ shells[1].scopes = 1 + FunctionsIn(1)
      BY <2>2, <2>3, <2>4 DEF Scoped
    <2>6. \A i \in FramesOf(Forks) :
            shells[stack[i].shell].scopes = BornWith(stack[i]) + FunctionsIn(stack[i].shell)
      BY <2>1, <2>2, <2>4, Zenon DEF Scoped, BornWith
    <2> QED BY <2>5, <2>6, Zenon DEF ScopesBalanced
  <1>7. FlagsHonest
    <2>1. \A s \in 1..Len(shells) :
            /\ Cardinality(Marks(stack, OfIn({"trap"}, s))) = (IF shells[s].inTrap THEN 1 ELSE 0)
            /\ Cardinality(Marks(stack, ExpandingIn(s))) = (IF shells[s].expanding THEN 1 ELSE 0)
      BY DEF Balanced, Flagged, Count, One
    <2>2. \A s : {i \in FramesOf({"trap"}) : stack[i].shell = s} = Marks(stack, OfIn({"trap"}, s))
      BY <1>3
    <2>3. SUFFICES ASSUME NEW s \in 1..Len(shells)
                   PROVE  /\ Cardinality({i \in FramesOf({"trap"}) : stack[i].shell = s})
                             = (IF shells[s].inTrap THEN 1 ELSE 0)
                          /\ Cardinality({i \in FramesOf({"simple"}) : stack[i].shell = s /\ stack[i].phase = "alias"})
                             = (IF shells[s].expanding THEN 1 ELSE 0)
      BY <1>1, Zenon DEF FlagsHonest
    <2>4. /\ {i \in FramesOf({"trap"}) : stack[i].shell = s} = Marks(stack, OfIn({"trap"}, s))
          /\ {i \in FramesOf({"simple"}) : stack[i].shell = s /\ stack[i].phase = "alias"}
             = Marks(stack, ExpandingIn(s))
      BY <1>4, <2>2
    <2> QED BY <2>1, <2>4
  <1> QED BY <1>5, <1>6, <1>7

\* A frame that changes in place changes no balance.
LEMMA Changed ==
  ASSUME NEW st \in Seq(FrameType), NEW t \in Seq(FrameType),
         NEW sh \in Seq(ShellType), NEW sh2 \in Seq(ShellType), NEW b, NEW b2,
         Balanced(st, sh, b), Len(t) = Len(st), \A i \in 1..Len(st) : Alike(st[i], t[i]),
         AlikeShells(sh, sh2), AlikeBudgets(b, b2)
  PROVE  Balanced(t, sh2, b2)
  <1>1. /\ DOMAIN st = 1..Len(st) /\ DOMAIN t = 1..Len(st) /\ Len(st) \in Nat /\ Len(sh) \in Nat
        /\ \A i \in 1..Len(st) : st[i] \in FrameType /\ t[i] \in FrameType
        /\ (st = <<>> <=> Len(st) = 0) /\ (t = <<>> <=> Len(t) = 0)
    BY LenProperties, ElementOfSeq, EmptySeq
  <1>2. \A K : Marks(t, Of(K)) = Marks(st, Of(K))
    BY <1>1 DEF Marks, Of, Alike
  <1>3. \A K, s : Marks(t, OfIn(K, s)) = Marks(st, OfIn(K, s))
    BY <1>1 DEF Marks, OfIn, Alike
  <1>4. \A s : Marks(t, ExpandingIn(s)) = Marks(st, ExpandingIn(s))
    BY <1>1 DEF Marks, ExpandingIn, Alike
  <1>5. \A i \in 1..Len(st) : t[i].kind = st[i].kind /\ t[i].shell = st[i].shell
    BY <1>1 DEF Alike
  <1>6. Ordered(t, sh2)
    <2>1. Ordered(st, sh) /\ Len(sh2) = Len(sh)
      BY DEF Balanced, AlikeShells
    <2>2. \A i \in 1..(Len(st) - 1) : t[i + 1].shell = t[i].shell + One(t[i + 1].kind \in Forks)
      <3> TAKE i \in 1..(Len(st) - 1)
      <3>1. i \in 1..Len(st) /\ i + 1 \in 1..Len(st)
        BY <1>1
      <3> QED BY <1>5, <2>1, <3>1 DEF Ordered
    <2>3. /\ \A i \in 1..Len(st) : (t[i].kind = "call") = (i = 1)
          /\ \A i, j \in 1..Len(st) : i < j => t[i].shell + One(t[j].kind \in Forks) <= t[j].shell
      BY <1>5, <2>1 DEF Ordered
    <2>4. t # <<>> => t[1].shell = 1 /\ t[Len(t)].shell = Len(sh2)
      BY <1>1, <1>5, <2>1 DEF Ordered
    <2> QED BY <1>1, <2>1, <2>2, <2>3, <2>4 DEF Ordered
  <1>7. Deep(t, b2)
    BY <1>2 DEF Balanced, Deep, AlikeBudgets, Count
  <1>8. Scoped(t, sh2)
    <2>1. \A i \in 1..Len(st) : /\ st[i].shell \in 1..Len(sh)
                                /\ st[i].kind \in Forks => st[i].shell - 1 \in 1..Len(sh)
      BY ShellsThere DEF Balanced
    <2>2. Scoped(st, sh) /\ 1 \in 1..Len(sh)
      BY <1>1 DEF Balanced, Ordered
    <2>3. \A K : Count(t, Of(K)) = Count(st, Of(K))
      BY <1>2 DEF Count
    <2>4. \A K, s : Count(t, OfIn(K, s)) = Count(st, OfIn(K, s))
      BY <1>3 DEF Count
    <2>5. \A i \in 1..Len(st) : t[i].kind \in Forks =>
            /\ sh2[t[i].shell].scopes = sh[st[i].shell].scopes
            /\ sh2[t[i].shell - 1].scopes = sh[st[i].shell - 1].scopes
      BY <1>5, <2>1 DEF AlikeShells
    <2>6. \A i \in 1..Len(t) : t[i].kind \in Forks =>
            sh2[t[i].shell].scopes =
              (IF t[i].kind = "isolated" THEN 1 ELSE sh2[t[i].shell - 1].scopes)
              + Count(t, OfIn({"func"}, t[i].shell))
      BY <1>5, <2>2, <2>4, <2>5 DEF Scoped
    <2> QED BY <2>2, <2>3, <2>4, <2>6 DEF Scoped, AlikeShells
  <1>9. Flagged(t, sh2)
    BY <1>3, <1>4 DEF Balanced, Flagged, AlikeShells, Count
  <1> QED BY <1>6, <1>7, <1>8, <1>9 DEF Balanced

\* What a frame takes as it is pushed, and gives back as it is popped.
Functions(f, s) == One(f.kind = "func" /\ f.shell = s)
Handlers(f, s)  == One(f.kind = "trap" /\ f.shell = s)
Expands(f, s)   == One(f.kind = "simple" /\ f.phase = "alias" /\ f.shell = s)

Taken(sh, sh2, b, b2, f) ==
  /\ \A s \in 1..Len(sh) :
       /\ sh2[s].scopes = sh[s].scopes + Functions(f, s)
       /\ One(sh2[s].inTrap) = One(sh[s].inTrap) + Handlers(f, s)
       /\ One(sh2[s].expanding) = One(sh[s].expanding) + Expands(f, s)
  /\ b2.functions = b.functions + One(f.kind = "func") /\ b2.functions <= MaxFunctionDepth
  /\ b2.nesting = b.nesting + One(f.kind \in Nests) /\ b2.nesting <= MaxNestingDepth

\* A fork starts with no handler and no alias open.
Forked(sh, sh2, f) ==
  /\ Len(sh2) = Len(sh) + One(f.kind \in Forks)
  /\ f.kind \in Forks =>
       /\ sh2[Len(sh2)].scopes = (IF f.kind = "isolated" THEN 1 ELSE sh[Len(sh)].scopes)
       /\ ~ sh2[Len(sh2)].inTrap /\ ~ sh2[Len(sh2)].expanding

\* A pushed frame keeps the balance if it takes what it owes.
LEMMA Pushed ==
  ASSUME NEW st \in Seq(FrameType), NEW f \in FrameType,
         NEW sh \in Seq(ShellType), NEW sh2 \in Seq(ShellType), NEW b, NEW b2,
         Balanced(st, sh, b), (f.kind = "call") = (st = <<>>), f.shell = Len(sh2),
         Taken(sh, sh2, b, b2, f), Forked(sh, sh2, f)
  PROVE  Balanced(Append(st, f), sh2, b2)
  <1> DEFINE t == Append(st, f)
  <1>1. /\ Len(st) \in Nat /\ Len(sh) \in Nat /\ Len(sh2) \in Nat /\ (st = <<>> <=> Len(st) = 0)
        /\ \A i \in 1..Len(st) : st[i] \in FrameType
        /\ t \in Seq(FrameType) /\ t # <<>> /\ Len(t) = Len(st) + 1 /\ t[Len(st) + 1] = f
        /\ \A i \in 1..Len(st) : t[i] = st[i]
    BY LenProperties, ElementOfSeq, EmptySeq, AppendProperties
  <1>2. \A X : Count(st, X) \in Nat /\ Count(t, X) = Count(st, X) + (IF f \in X THEN 1 ELSE 0)
    BY MarksPushed DEF Count
  <1>3. /\ \A K : (f \in Of(K)) = (f.kind \in K)
        /\ \A s : (f \in OfIn({"func"}, s)) = (f.kind = "func" /\ f.shell = s)
        /\ \A s : (f \in OfIn({"trap"}, s)) = (f.kind = "trap" /\ f.shell = s)
        /\ \A s : (f \in ExpandingIn(s)) = (f.kind = "simple" /\ f.phase = "alias" /\ f.shell = s)
    BY DEF Of, OfIn, ExpandingIn
  <1>4. Ordered(st, sh) /\ Deep(st, b) /\ Scoped(st, sh) /\ Flagged(st, sh)
    BY DEF Balanced
  <1>5. \A i \in 1..Len(st) :
          /\ st[i].shell \in 1..Len(sh)
          /\ st[i].kind \in Forks => st[i].shell - 1 \in 1..Len(sh)
    BY <1>4, ShellsThere
  <1>6. \A s \in Nat : s > Len(sh) => \A K : Count(st, OfIn(K, s)) = 0 /\ Count(st, ExpandingIn(s)) = 0
    <2> TAKE s \in Nat
    <2> HAVE s > Len(sh)
    <2> TAKE K
    <2>1. DOMAIN st = 1..Len(st)
      BY LenProperties
    <2>2. \A i \in 1..Len(st) : st[i].shell # s
      BY <1>1, <1>5
    <2>3. Marks(st, OfIn(K, s)) = {} /\ Marks(st, ExpandingIn(s)) = {}
      BY <2>1, <2>2 DEF Marks, OfIn, ExpandingIn
    <2> QED BY <2>3, FS_EmptySet DEF Count
  <1>7. f.kind \in Forks => f.kind # "func" /\ f.kind # "trap" /\ f.kind # "simple" /\ f.kind # "call"
    BY DEF Forks
  <1> HIDE DEF t
  <1>8. Ordered(t, sh2)
    <2>1. /\ Len(sh2) >= 1 /\ t[1].shell = 1 /\ t[Len(t)].shell = Len(sh2)
      BY <1>1, <1>4, <1>7 DEF Ordered, Forked, One
    <2>2. \A i \in 1..Len(t) : (t[i].kind = "call") = (i = 1)
      BY <1>1, <1>4 DEF Ordered
    <2>3. \A i \in 1..(Len(t) - 1) : t[i + 1].shell = t[i].shell + One(t[i + 1].kind \in Forks)
      <3> TAKE i \in 1..(Len(t) - 1)
      <3>1. CASE i = Len(st)
        BY <1>1, <1>4, <3>1 DEF Ordered, Forked
      <3>2. CASE i # Len(st)
        BY <1>1, <1>4, <3>2 DEF Ordered
      <3> QED BY <3>1, <3>2
    <2>4. \A i, j \in 1..Len(t) : i < j => t[i].shell + One(t[j].kind \in Forks) <= t[j].shell
      <3> TAKE i, j \in 1..Len(t)
      <3> HAVE i < j
      <3>1. CASE j = Len(st) + 1
        <4>1. i \in 1..Len(st) /\ t[i] = st[i] /\ t[j] = f
          BY <1>1, <3>1
        <4>2. st[i].shell \in 1..Len(sh)
          BY <1>5, <4>1
        <4>3. f.shell = Len(sh) + One(f.kind \in Forks) /\ One(f.kind \in Forks) \in Nat
          BY DEF Forked, One
        <4> HIDE DEF One
        <4> QED BY <1>1, <4>1, <4>2, <4>3
      <3>2. CASE j # Len(st) + 1
        BY <1>1, <1>4, <3>2 DEF Ordered
      <3> QED BY <3>1, <3>2
    <2> QED BY <1>1, <2>1, <2>2, <2>3, <2>4 DEF Ordered
  <1>9. Deep(t, b2)
    <2>1. Count(t, Of({"func"})) = Count(st, Of({"func"})) + One(f.kind = "func")
      BY <1>2, <1>3 DEF One
    <2>2. Count(t, Of(Nests)) = Count(st, Of(Nests)) + One(f.kind \in Nests)
      BY <1>2, <1>3 DEF One
    <2> QED BY <1>4, <2>1, <2>2 DEF Deep, Taken
  <1>10. Scoped(t, sh2)
    <2>1. /\ Count(t, Of(Forks)) = Count(st, Of(Forks)) + One(f.kind \in Forks)
          /\ \A s : Count(t, OfIn({"func"}, s)) = Count(st, OfIn({"func"}, s)) + Functions(f, s)
      BY <1>2, <1>3 DEF Functions, One
    <2>2. Len(sh2) = 1 + Count(t, Of(Forks))
      BY <1>1, <1>2, <1>4, <2>1 DEF Scoped, Forked, One
    <2>3. sh2[1].scopes = 1 + Count(t, OfIn({"func"}, 1))
      BY <1>1, <1>2, <1>4, <2>1 DEF Scoped, Ordered, Taken, Functions, One
    <2>4. ASSUME NEW i \in 1..Len(t), t[i].kind \in Forks
          PROVE  sh2[t[i].shell].scopes =
                   (IF t[i].kind = "isolated" THEN 1 ELSE sh2[t[i].shell - 1].scopes)
                   + Count(t, OfIn({"func"}, t[i].shell))
      <3>1. CASE i = Len(st) + 1
        <4>1. t[i] = f /\ f.kind \in Forks /\ f.shell = Len(sh) + 1
          BY <1>1, <2>4, <3>1 DEF Forked, One
        <4>2. Count(t, OfIn({"func"}, f.shell)) = 0
          <5>1. Count(st, OfIn({"func"}, f.shell)) = 0
            BY <1>1, <1>6, <4>1
          <5>2. Functions(f, f.shell) = 0
            BY <1>7, <4>1 DEF Functions, One
          <5> QED BY <2>1, <5>1, <5>2
        <4>4. Len(sh) \in 1..Len(sh) /\ sh[Len(sh)] \in ShellType
          BY <1>1, <1>4, ElementOfSeq DEF Ordered
        <4>3. sh2[Len(sh)].scopes = sh[Len(sh)].scopes
          <5>1. sh2[Len(sh)].scopes = sh[Len(sh)].scopes + Functions(f, Len(sh))
            BY <4>4 DEF Taken
          <5>2. Functions(f, Len(sh)) = 0
            BY <1>7, <4>1 DEF Functions, One
          <5> QED BY <4>4, <5>1, <5>2 DEF ShellType
        <4>5. sh2[f.shell].scopes = (IF f.kind = "isolated" THEN 1 ELSE sh[Len(sh)].scopes)
          BY <4>1 DEF Forked
        <4>6. f.shell - 1 = Len(sh)
          BY <1>1, <4>1
        <4>7. sh[Len(sh)].scopes \in Int
          BY <4>4 DEF ShellType
        <4>8. sh2[f.shell].scopes = (IF f.kind = "isolated" THEN 1 ELSE sh2[f.shell - 1].scopes)
                                    + Count(t, OfIn({"func"}, f.shell))
          BY <4>2, <4>3, <4>5, <4>6, <4>7
        <4> QED BY <4>1, <4>8
      <3>2. CASE i # Len(st) + 1
        <4>1. i \in 1..Len(st) /\ t[i] = st[i] /\ st[i].kind \in Forks
          BY <1>1, <2>4, <3>2
        <4> DEFINE s == st[i].shell
        <4>2. s \in 1..Len(sh) /\ s - 1 \in 1..Len(sh)
          BY <1>5, <4>1, Zenon
        <4>3. sh2[s].scopes = sh[s].scopes + Functions(f, s)
          BY <4>2 DEF Taken
        <4>4. sh2[s - 1].scopes = sh[s - 1].scopes
          <5>1. sh2[s - 1].scopes = sh[s - 1].scopes + Functions(f, s - 1)
            BY <4>2 DEF Taken
          <5>2. f.shell # s - 1 /\ sh[s - 1] \in ShellType
            BY <1>1, <4>2, ElementOfSeq DEF Forked, One
          <5> QED BY <5>1, <5>2 DEF Functions, One, ShellType
        <4>5. sh[s].scopes = (IF st[i].kind = "isolated" THEN 1 ELSE sh[s - 1].scopes)
                             + Count(st, OfIn({"func"}, s))
          BY <1>4, <4>1 DEF Scoped
        <4>6. sh[s - 1].scopes \in Int /\ Functions(f, s) \in Nat /\ Count(st, OfIn({"func"}, s)) \in Nat
          <5>1. sh[s - 1] \in ShellType
            BY <4>2, ElementOfSeq
          <5> QED BY <1>2, <5>1 DEF Functions, One, ShellType
        <4>7. Count(t, OfIn({"func"}, s)) = Count(st, OfIn({"func"}, s)) + Functions(f, s)
          BY <2>1
        <4> HIDE DEF s
        <4>8. sh2[s].scopes = (IF st[i].kind = "isolated" THEN 1 ELSE sh2[s - 1].scopes)
                              + Count(t, OfIn({"func"}, s))
          BY <4>3, <4>4, <4>5, <4>6, <4>7
        <4> QED BY <4>1, <4>8 DEF s
      <3> QED BY <3>1, <3>2
    <2> QED BY <2>2, <2>3, <2>4 DEF Scoped
  <1>11. Flagged(t, sh2)
    <2> SUFFICES ASSUME NEW s \in 1..Len(sh2)
                 PROVE  /\ Count(t, OfIn({"trap"}, s)) = One(sh2[s].inTrap)
                        /\ Count(t, ExpandingIn(s)) = One(sh2[s].expanding)
      BY DEF Flagged
    <2>1. /\ Count(t, OfIn({"trap"}, s)) = Count(st, OfIn({"trap"}, s)) + Handlers(f, s)
          /\ Count(t, ExpandingIn(s)) = Count(st, ExpandingIn(s)) + Expands(f, s)
      BY <1>2, <1>3 DEF Handlers, Expands, One
    <2>2. CASE s \in 1..Len(sh)
      BY <1>4, <2>1, <2>2 DEF Flagged, Taken
    <2>3. CASE s \notin 1..Len(sh)
      <3>1. s > Len(sh) /\ s = Len(sh2) /\ f.kind \in Forks
        BY <1>1, <2>3 DEF Forked, One
      <3>2. Handlers(f, s) = 0 /\ Expands(f, s) = 0 /\ One(sh2[s].inTrap) = 0 /\ One(sh2[s].expanding) = 0
        BY <1>7, <3>1 DEF Forked, Handlers, Expands, One
      <3> QED BY <1>6, <2>1, <3>1, <3>2
    <2> QED BY <2>2, <2>3
  <1> QED BY <1>8, <1>9, <1>10, <1>11 DEF Balanced, t

\* What a popped frame gives back.
Given(sh, sh2, b, b2, f) ==
  /\ Len(sh2) = Len(sh) - One(f.kind \in Forks)
  /\ \A s \in 1..Len(sh2) :
       /\ sh2[s].scopes = sh[s].scopes - Functions(f, s)
       /\ sh2[s].inTrap = (sh[s].inTrap /\ ~ (f.kind = "trap" /\ f.shell = s))
       /\ sh2[s].expanding = (sh[s].expanding /\ ~ (f.kind = "simple" /\ f.phase = "alias" /\ f.shell = s))
  /\ b2.functions = b.functions - One(f.kind = "func")
  /\ b2.nesting = b.nesting - One(f.kind \in Nests)

\* A popped frame keeps the balance if it gives back what it took.
LEMMA Popped ==
  ASSUME NEW st \in Seq(FrameType), st # <<>>,
         NEW sh \in Seq(ShellType), NEW sh2 \in Seq(ShellType), NEW b, NEW b2,
         Balanced(st, sh, b), Given(sh, sh2, b, b2, st[Len(st)])
  PROVE  Balanced(Front(st), sh2, b2)
  <1> DEFINE t == Front(st)
  <1> DEFINE f == st[Len(st)]
  <1>1. /\ Len(st) \in Nat \ {0} /\ Len(sh) \in Nat /\ Len(sh2) \in Nat
        /\ \A i \in 1..Len(st) : st[i] \in FrameType
        /\ t \in Seq(FrameType) /\ Len(t) = Len(st) - 1 /\ (t = <<>> <=> Len(t) = 0)
        /\ \A i \in 1..Len(t) : t[i] = st[i]
        /\ f \in FrameType
    BY LenProperties, ElementOfSeq, EmptySeq, Fronted
  <1>2. \A X : /\ Count(st, X) \in Nat /\ Count(t, X) \in Nat
               /\ Count(t, X) = Count(st, X) - (IF f \in X THEN 1 ELSE 0)
    BY MarksPopped DEF Count
  <1>3. /\ \A K : (f \in Of(K)) = (f.kind \in K)
        /\ \A s : (f \in OfIn({"func"}, s)) = (f.kind = "func" /\ f.shell = s)
        /\ \A s : (f \in OfIn({"trap"}, s)) = (f.kind = "trap" /\ f.shell = s)
        /\ \A s : (f \in ExpandingIn(s)) = (f.kind = "simple" /\ f.phase = "alias" /\ f.shell = s)
    BY <1>1 DEF Of, OfIn, ExpandingIn
  <1>4. Ordered(st, sh) /\ Deep(st, b) /\ Scoped(st, sh) /\ Flagged(st, sh)
    BY DEF Balanced
  <1>5. \A i \in 1..Len(st) :
          /\ st[i].shell \in 1..Len(sh)
          /\ st[i].kind \in Forks => st[i].shell - 1 \in 1..Len(sh)
    BY <1>4, ShellsThere
  <1>6. /\ f.shell = Len(sh) /\ Given(sh, sh2, b, b2, f)
        /\ st[1].shell = 1 /\ st[1].kind = "call"
    BY <1>1, <1>4 DEF Ordered
  <1> HIDE DEF t, f
  <1>7. Ordered(t, sh2)
    <2>1. \A i \in 1..Len(t) : (t[i].kind = "call") = (i = 1)
      BY <1>1, <1>4 DEF Ordered
    <2>2. \A i \in 1..(Len(t) - 1) : t[i + 1].shell = t[i].shell + One(t[i + 1].kind \in Forks)
      BY <1>1, <1>4 DEF Ordered
    <2>3. \A i, j \in 1..Len(t) : i < j => t[i].shell + One(t[j].kind \in Forks) <= t[j].shell
      BY <1>1, <1>4 DEF Ordered
    <2>4. CASE t = <<>>
      <3>1. Len(st) = 1 /\ f.kind \notin Forks /\ Len(sh) = 1
        <4>1. Len(st) = 1
          BY <1>1, <2>4
        <4>2. f = st[1] /\ f.kind = "call"
          BY <1>6, <4>1 DEF f
        <4> QED BY <1>6, <4>1, <4>2 DEF Forks
      <3> QED BY <1>1, <1>6, <2>1, <2>2, <2>3, <2>4, <3>1 DEF Ordered, Given, One
    <2>5. CASE t # <<>>
      <3> DEFINE m == Len(t)
      <3>1. m \in 1..(Len(st) - 1) /\ 1 \in 1..m /\ m + 1 = Len(st)
        BY <1>1, <2>5
      <3>2. f.shell = st[m].shell + One(f.kind \in Forks)
        BY <1>4, <3>1 DEF Ordered, f
      <3>3. t[1].shell = 1 /\ t[m].shell = st[m].shell /\ st[m].shell \in 1..Len(sh)
        BY <1>1, <1>5, <1>6, <3>1
      <3>4. t[m].shell = Len(sh2) /\ Len(sh2) >= 1
        BY <1>1, <1>6, <3>2, <3>3 DEF Given, One
      <3> QED BY <1>1, <2>1, <2>2, <2>3, <2>5, <3>3, <3>4 DEF Ordered
    <2> QED BY <2>4, <2>5
  <1>8. Deep(t, b2)
    <2>1. /\ Count(t, Of({"func"})) = Count(st, Of({"func"})) - One(f.kind = "func")
          /\ Count(t, Of(Nests)) = Count(st, Of(Nests)) - One(f.kind \in Nests)
      BY <1>2, <1>3 DEF One
    <2>2. MaxFunctionDepth \in Nat /\ MaxNestingDepth \in Nat
      BY InterpreterAssumption
    <2> QED BY <1>2, <1>4, <1>6, <2>1, <2>2 DEF Deep, Given, One
  <1>9. Scoped(t, sh2)
    <2>1. /\ Count(t, Of(Forks)) = Count(st, Of(Forks)) - One(f.kind \in Forks)
          /\ \A s : Count(t, OfIn({"func"}, s)) = Count(st, OfIn({"func"}, s)) - Functions(f, s)
      BY <1>2, <1>3 DEF Functions, One
    <2>2. Len(sh2) = 1 + Count(t, Of(Forks))
      BY <1>1, <1>2, <1>4, <1>6, <2>1 DEF Scoped, Given, One
    <2>3. sh2[1].scopes = 1 + Count(t, OfIn({"func"}, 1))
      <3>1. 1 \in 1..Len(sh2) /\ 1 \in 1..Len(sh)
        BY <1>1, <1>4, <1>7 DEF Ordered
      <3>2. sh2[1].scopes = sh[1].scopes - Functions(f, 1)
        BY <1>6, <3>1 DEF Given
      <3>3. sh[1].scopes = 1 + Count(st, OfIn({"func"}, 1))
        BY <1>4 DEF Scoped
      <3>4. Functions(f, 1) \in Nat /\ Count(st, OfIn({"func"}, 1)) \in Nat
        BY <1>2 DEF Functions, One
      <3> QED BY <2>1, <3>2, <3>3, <3>4
    <2>4. ASSUME NEW i \in 1..Len(t), t[i].kind \in Forks
          PROVE  sh2[t[i].shell].scopes =
                   (IF t[i].kind = "isolated" THEN 1 ELSE sh2[t[i].shell - 1].scopes)
                   + Count(t, OfIn({"func"}, t[i].shell))
      <3> DEFINE s == st[i].shell
      <3>1. i \in 1..Len(st) /\ i < Len(st) /\ t[i] = st[i] /\ st[i].kind \in Forks
        BY <1>1, <2>4
      <3>2. s \in 1..Len(sh) /\ s - 1 \in 1..Len(sh)
        BY <1>5, <3>1
      <3>3. s + One(f.kind \in Forks) <= Len(sh)
        BY <1>1, <1>4, <1>6, <3>1 DEF Ordered, f
      <3>4. sh[s] \in ShellType /\ sh[s - 1] \in ShellType
        BY <3>2, ElementOfSeq
      <3>5. sh[s].scopes = (IF st[i].kind = "isolated" THEN 1 ELSE sh[s - 1].scopes)
                           + Count(st, OfIn({"func"}, s))
        BY <1>4, <3>1 DEF Scoped
      <3>6. Count(t, OfIn({"func"}, s)) = Count(st, OfIn({"func"}, s)) - Functions(f, s)
        BY <2>1
      <3>7. Count(st, OfIn({"func"}, s)) \in Nat
        BY <1>2
      <3> HIDE DEF s
      <3>8. s \in 1..Len(sh2) /\ s - 1 \in 1..Len(sh2)
        BY <1>1, <1>6, <3>2, <3>3 DEF Given, One
      <3>9. /\ sh2[s].scopes = sh[s].scopes - Functions(f, s)
            /\ sh2[s - 1].scopes = sh[s - 1].scopes - Functions(f, s - 1)
        BY <1>6, <3>8 DEF Given
      <3>10. Functions(f, s - 1) = 0 /\ Functions(f, s) \in Nat
        BY <1>1, <1>6, <3>2 DEF Functions, One
      <3>11. sh[s].scopes \in Int /\ sh[s - 1].scopes \in Int
        BY <3>4 DEF ShellType
      <3>12. sh2[s].scopes = (IF st[i].kind = "isolated" THEN 1 ELSE sh2[s - 1].scopes)
                             + Count(t, OfIn({"func"}, s))
        BY <3>5, <3>6, <3>7, <3>9, <3>10, <3>11
      <3> QED BY <3>1, <3>12 DEF s
    <2> QED BY <2>2, <2>3, <2>4 DEF Scoped
  <1>10. Flagged(t, sh2)
    <2> SUFFICES ASSUME NEW s \in 1..Len(sh2)
                 PROVE  /\ Count(t, OfIn({"trap"}, s)) = One(sh2[s].inTrap)
                        /\ Count(t, ExpandingIn(s)) = One(sh2[s].expanding)
      BY DEF Flagged
    <2>1. /\ Count(t, OfIn({"trap"}, s)) = Count(st, OfIn({"trap"}, s)) - Handlers(f, s)
          /\ Count(t, ExpandingIn(s)) = Count(st, ExpandingIn(s)) - Expands(f, s)
          /\ Count(t, OfIn({"trap"}, s)) \in Nat /\ Count(t, ExpandingIn(s)) \in Nat
      BY <1>2, <1>3 DEF Handlers, Expands, One
    <2>2. s \in 1..Len(sh)
      BY <1>1, <1>6 DEF Given, One
    <2>3. /\ Count(st, OfIn({"trap"}, s)) = One(sh[s].inTrap)
          /\ Count(st, ExpandingIn(s)) = One(sh[s].expanding)
      BY <1>4, <2>2 DEF Flagged
    <2>4. /\ sh2[s].inTrap = (sh[s].inTrap /\ ~ (f.kind = "trap" /\ f.shell = s))
          /\ sh2[s].expanding = (sh[s].expanding /\ ~ (f.kind = "simple" /\ f.phase = "alias" /\ f.shell = s))
      BY <1>6 DEF Given
    <2>7. sh[s] \in ShellType
      BY <2>2, ElementOfSeq
    <2>5. Count(t, OfIn({"trap"}, s)) = One(sh2[s].inTrap)
      <3>1. CASE f.kind = "trap" /\ f.shell = s
        <4>1. Count(t, OfIn({"trap"}, s)) = Count(st, OfIn({"trap"}, s)) - 1
          BY <2>1, <3>1 DEF Handlers, One
        <4>2. ~ sh2[s].inTrap
          BY <2>4, <3>1
        <4> QED BY <2>1, <2>3, <4>1, <4>2 DEF One
      <3>2. CASE ~ (f.kind = "trap" /\ f.shell = s)
        <4>1. Count(t, OfIn({"trap"}, s)) = One(sh[s].inTrap) - 0
          BY <2>1, <2>3, <3>2 DEF Handlers, One
        <4>2. sh2[s].inTrap = sh[s].inTrap
          <5>1. sh[s].inTrap \in BOOLEAN
            BY <2>7 DEF ShellType
          <5> QED BY <2>4, <3>2, <5>1
        <4> QED BY <4>1, <4>2 DEF One
      <3> QED BY <3>1, <3>2
    <2>6. Count(t, ExpandingIn(s)) = One(sh2[s].expanding)
      <3>1. CASE f.kind = "simple" /\ f.phase = "alias" /\ f.shell = s
        <4>1. Count(t, ExpandingIn(s)) = Count(st, ExpandingIn(s)) - 1
          BY <2>1, <3>1 DEF Expands, One
        <4>2. ~ sh2[s].expanding
          BY <2>4, <3>1
        <4> QED BY <2>1, <2>3, <4>1, <4>2 DEF One
      <3>2. CASE ~ (f.kind = "simple" /\ f.phase = "alias" /\ f.shell = s)
        <4>1. Count(t, ExpandingIn(s)) = One(sh[s].expanding) - 0
          BY <2>1, <2>3, <3>2 DEF Expands, One
        <4>2. sh2[s].expanding = sh[s].expanding
          <5>1. sh[s].expanding \in BOOLEAN
            BY <2>7 DEF ShellType
          <5> QED BY <2>4, <3>2, <5>1
        <4> QED BY <4>1, <4>2 DEF One
      <3> QED BY <3>1, <3>2
    <2> QED BY <2>5, <2>6
  <1> QED BY <1>7, <1>8, <1>9, <1>10 DEF Balanced, t

-----------------------------------------------------------------------------
\* ---- the moves as steps of the interpreter ----

BudgetType  == [commands : Nat, loops : Nat, functions : Nat, nesting : Nat]
LooseBudget == [commands : Nat, loops : Nat, functions : Int, nesting : Int]

\* The top frame and the shell it runs in.
LEMMA TopIs ==
  ASSUME IInv
  PROVE  /\ Len(shells) \in Nat \ {0} /\ Shell = shells[Len(shells)] /\ Shell \in ShellType
         /\ stack # <<>> => /\ Len(stack) \in Nat \ {0} /\ Top = stack[Len(stack)] /\ Top \in FrameType
                            /\ Top.shell = Len(shells) /\ (Top.kind = "call") = (Len(stack) = 1)
  <1>1. stack \in Seq(FrameType) /\ shells \in Seq(ShellType) /\ Ordered(stack, shells)
    BY DEF IInv, TypeOK, Balanced
  <1>2. Len(shells) \in Nat \ {0} /\ shells[Len(shells)] \in ShellType
    BY <1>1, LenProperties, ElementOfSeq DEF Ordered
  <1>3. ASSUME stack # <<>>
        PROVE  /\ Len(stack) \in Nat \ {0} /\ stack[Len(stack)] \in FrameType
               /\ stack[Len(stack)].shell = Len(shells)
               /\ (stack[Len(stack)].kind = "call") = (Len(stack) = 1)
    <2>1. Len(stack) \in Nat \ {0}
      BY <1>1, <1>3, EmptySeq
    <2>2. Len(stack) \in 1..Len(stack)
      BY <2>1
    <2>3. (stack[Len(stack)].kind = "call") = (Len(stack) = 1) /\ stack[Len(stack)].shell = Len(shells)
      BY <1>1, <1>3, <2>2 DEF Ordered
    <2> QED BY <1>1, <2>1, <2>2, <2>3, ElementOfSeq
  <1> QED BY <1>2, <1>3 DEF Top, Shell, Last

\* A balanced budget has no negative depth.
LEMMA DepthsNatural ==
  ASSUME NEW st \in Seq(FrameType), NEW sh, NEW b \in LooseBudget, Balanced(st, sh, b)
  PROVE  b \in BudgetType
  <1>1. b.functions \in Nat /\ b.nesting \in Nat
    BY MarksFinite DEF Balanced, Deep, Count
  <1> QED BY <1>1 DEF LooseBudget, BudgetType

\* What a step has to show, once its move is known to keep the balance.
LEMMA StepKeeps ==
  ASSUME IInv, Quiet, stack' \in Seq(FrameType), shells' \in Seq(ShellType), budget' \in LooseBudget,
         Balanced(stack', shells', budget'), ctl' \in CtlType, ctl'.at # "idle", stack' # <<>>
  PROVE  IInv'
  <1>1. budget' \in BudgetType
    BY DepthsNatural
  <1>2. TypeOK'
    BY <1>1 DEF IInv, TypeOK, Quiet, BudgetType
  <1> QED BY <1>2 DEF IInv

\* A step that leaves the stack alone.
LEMMA Stays ==
  ASSUME IInv, ctl.at # "idle", Quiet, UNCHANGED stack,
         shells' \in Seq(ShellType), AlikeShells(shells, shells'),
         budget' \in LooseBudget, AlikeBudgets(budget, budget'),
         ctl' \in CtlType, ctl'.at # "idle"
  PROVE  IInv'
  <1>1. stack \in Seq(FrameType) /\ shells \in Seq(ShellType) /\ Balanced(stack, shells, budget) /\ stack # <<>>
    BY DEF IInv, TypeOK
  <1>2. Balanced(stack, shells', budget')
    BY <1>1, Changed DEF Alike
  <1> QED BY <1>1, <1>2, StepKeeps

\* A step that changes the top frame in place.
LEMMA Becomes ==
  ASSUME IInv, stack # <<>>, Quiet, NEW f \in FrameType, Alike(Top, f), Become(f),
         shells' \in Seq(ShellType), AlikeShells(shells, shells'),
         budget' \in LooseBudget, AlikeBudgets(budget, budget'),
         ctl' \in CtlType, ctl'.at # "idle"
  PROVE  IInv'
  <1>1. stack \in Seq(FrameType) /\ shells \in Seq(ShellType) /\ Balanced(stack, shells, budget)
    BY DEF IInv, TypeOK
  <1>2. /\ stack' \in Seq(FrameType) /\ Len(stack') = Len(stack) /\ stack'[Len(stack)] = f
        /\ \A i \in 1..(Len(stack) - 1) : stack'[i] = stack[i]
        /\ stack' # <<>>
    BY <1>1, Replaced DEF Become
  <1>3. \A i \in 1..Len(stack) : Alike(stack[i], stack'[i])
    BY <1>2, TopIs DEF Alike
  <1>4. Balanced(stack', shells', budget')
    BY <1>1, <1>2, <1>3, Changed
  <1> QED BY <1>2, <1>4, StepKeeps

\* A step that pushes a frame on a top frame that changes in place.
LEMMA PushesOn ==
  ASSUME IInv, stack # <<>>, Quiet, NEW f \in FrameType, Alike(Top, f), NEW g \in FrameType,
         g.kind # "call", g.shell = Len(shells'), PushOn(f, g),
         shells' \in Seq(ShellType), budget' \in LooseBudget,
         Taken(shells, shells', budget, budget', g), Forked(shells, shells', g),
         ctl' \in CtlType, ctl'.at # "idle"
  PROVE  IInv'
  <1> DEFINE t == [stack EXCEPT ![Len(stack)] = f]
  <1>1. stack \in Seq(FrameType) /\ shells \in Seq(ShellType) /\ Balanced(stack, shells, budget)
    BY DEF IInv, TypeOK
  <1>2. /\ t \in Seq(FrameType) /\ Len(t) = Len(stack) /\ t[Len(stack)] = f /\ t # <<>>
        /\ \A i \in 1..(Len(stack) - 1) : t[i] = stack[i]
    BY <1>1, Replaced
  <1>3. stack' = Append(t, g)
    BY DEF PushOn
  <1> HIDE DEF t
  <1>4. \A i \in 1..Len(stack) : Alike(stack[i], t[i])
    BY <1>2, TopIs DEF Alike
  <1>5. Balanced(t, shells, budget)
    BY <1>1, <1>2, <1>4, Changed DEF AlikeShells, AlikeBudgets
  <1>6. Balanced(stack', shells', budget')
    BY <1>1, <1>2, <1>3, <1>5, Pushed
  <1>7. stack' \in Seq(FrameType) /\ stack' # <<>>
    BY <1>2, <1>3, AppendProperties
  <1> QED BY <1>6, <1>7, StepKeeps

\* A step that pushes a frame.
LEMMA Pushes ==
  ASSUME IInv, ctl.at # "idle", Quiet, NEW g \in FrameType,
         g.kind # "call", g.shell = Len(shells'), Push(g),
         shells' \in Seq(ShellType), budget' \in LooseBudget,
         Taken(shells, shells', budget, budget', g), Forked(shells, shells', g),
         ctl' \in CtlType, ctl'.at # "idle"
  PROVE  IInv'
  <1>1. /\ stack \in Seq(FrameType) /\ shells \in Seq(ShellType) /\ Balanced(stack, shells, budget)
        /\ stack # <<>>
    BY DEF IInv, TypeOK
  <1>2. Balanced(stack', shells', budget')
    BY <1>1, Pushed DEF Push
  <1>3. stack' \in Seq(FrameType) /\ stack' # <<>>
    BY <1>1, AppendProperties DEF Push
  <1> QED BY <1>2, <1>3, StepKeeps

\* A step that pops a frame that is not the host's call.
LEMMA Pops ==
  ASSUME IInv, stack # <<>>, Quiet, Top.kind # "call", stack' = Front(stack),
         shells' \in Seq(ShellType), budget' \in LooseBudget, Given(shells, shells', budget, budget', Top),
         ctl' \in CtlType, ctl'.at # "idle"
  PROVE  IInv'
  <1>1. stack \in Seq(FrameType) /\ shells \in Seq(ShellType) /\ Balanced(stack, shells, budget)
    BY DEF IInv, TypeOK
  <1>2. Balanced(stack', shells', budget')
    BY <1>1, TopIs, Popped
  <1>3. stack' \in Seq(FrameType) /\ Len(stack') = Len(stack) - 1 /\ Len(stack) \in Nat \ {0}
    BY <1>1, Fronted
  <1>4. stack' # <<>>
    BY <1>3, TopIs, EmptySeq
  <1> QED BY <1>2, <1>3, <1>4, StepKeeps

\* What the frames of the model are made of.
Kinds  == Runs \cup Forks \cup Lists \cup Loops \cup {"trap", "pipe", "if", "func", "simple"}
Phases == {"command", "err", "atexit", "left", "right", "stage", "condition", "branch", "head",
           "body", "words", "expanded", "debug", "dispatch", "alias", "EXIT", "ERR", "DEBUG"}
Plain  == Lists \cup Loops \cup {"pipe", "if", "simple"}

\* A new frame is a frame, of the shell that is innermost once it is pushed.
LEMMA FrameMade ==
  ASSUME IInv, NEW kind \in Kinds, NEW phase \in Phases, NEW height \in Nat, NEW n \in Nat,
         kind = "trap" => n \in 0..1, kind = "pipe" => n \in 1..2
  PROVE  /\ Frame(kind, phase, height, n) \in FrameType
         /\ Frame(kind, phase, height, n).kind = kind
         /\ Frame(kind, phase, height, n).phase = phase
         /\ Frame(kind, phase, height, n).shell = Len(shells) + One(kind \in Forks)
  <1>1. Len(shells) \in Nat \ {0}
    BY TopIs
  <1>2. Success \in Result
    BY DEF Success, FromExitCode, Transfer, Result
  <1>3. Len(shells) + (IF kind \in Forks THEN 1 ELSE 0) \in Nat \ {0}
    BY <1>1
  <1> QED BY <1>2, <1>3 DEF Frame, FrameType, Kinds, Phases, One

Same(f, g, phase) == g \in FrameType /\ g.kind = f.kind /\ g.shell = f.shell /\ g.phase = phase

\* A frame stays one when its phase, count or result changes.
LEMMA FrameChanged ==
  ASSUME NEW f \in FrameType, f.kind # "trap",
         NEW phase \in Phases, NEW n \in Nat, NEW res \in Result, f.kind = "pipe" => n \in 1..2
  PROVE  /\ Same(f, [f EXCEPT !.phase = phase], phase)
         /\ Same(f, [f EXCEPT !.n = n], f.phase)
         /\ Same(f, [f EXCEPT !.res = res], f.phase)
         /\ Same(f, [f EXCEPT !.phase = phase, !.res = res], phase)
         /\ Same(f, [f EXCEPT !.n = n, !.phase = phase], phase)
         /\ Same(f, [f EXCEPT !.n = n, !.res = res], f.phase)
         /\ Same(f, [f EXCEPT !.phase = phase, !.n = n, !.res = res], phase)
  <1>1. f \in [kind : Kinds, phase : Phases, height : Nat, n : Nat, res : Result, shell : Nat \ {0}]
    BY DEF FrameType, Kinds, Phases
  <1>2. \A g \in [kind : Kinds, phase : Phases, height : Nat, n : Nat, res : Result, shell : Nat \ {0}] :
          g.kind = f.kind /\ g.shell = f.shell /\ (g.kind = "pipe" => g.n \in 1..2)
            => Same(f, g, g.phase)
    BY DEF Same, FrameType, Kinds, Phases
  <1>3. f.kind = "pipe" => f.n \in 1..2
    BY DEF FrameType
  <1>4. Same(f, [f EXCEPT !.phase = phase], phase)
    BY <1>1, <1>2, <1>3
  <1>5. Same(f, [f EXCEPT !.n = n], f.phase)
    BY <1>1, <1>2
  <1>6. Same(f, [f EXCEPT !.res = res], f.phase)
    BY <1>1, <1>2, <1>3
  <1>7. Same(f, [f EXCEPT !.phase = phase, !.res = res], phase)
    <2> DEFINE g == [f EXCEPT !.phase = phase, !.res = res]
    <2>1. /\ g \in [kind : Kinds, phase : Phases, height : Nat, n : Nat, res : Result, shell : Nat \ {0}]
          /\ g.kind = f.kind /\ g.shell = f.shell /\ g.phase = phase /\ g.n = f.n
      BY <1>1
    <2> HIDE DEF g
    <2>2. Same(f, g, phase)
      BY <1>2, <1>3, <2>1
    <2> QED BY <2>2 DEF g
  <1>8. Same(f, [f EXCEPT !.n = n, !.phase = phase], phase)
    <2> DEFINE g == [f EXCEPT !.n = n, !.phase = phase]
    <2>1. /\ g \in [kind : Kinds, phase : Phases, height : Nat, n : Nat, res : Result, shell : Nat \ {0}]
          /\ g.kind = f.kind /\ g.shell = f.shell /\ g.phase = phase /\ g.n = n
      BY <1>1
    <2> HIDE DEF g
    <2>2. Same(f, g, phase)
      BY <1>2, <1>3, <2>1
    <2> QED BY <2>2 DEF g
  <1>9. Same(f, [f EXCEPT !.n = n, !.res = res], f.phase)
    <2> DEFINE g == [f EXCEPT !.n = n, !.res = res]
    <2>1. /\ g \in [kind : Kinds, phase : Phases, height : Nat, n : Nat, res : Result, shell : Nat \ {0}]
          /\ g.kind = f.kind /\ g.shell = f.shell /\ g.phase = f.phase /\ g.n = n
      BY <1>1
    <2> HIDE DEF g
    <2>2. Same(f, g, f.phase)
      BY <1>2, <1>3, <2>1
    <2> QED BY <2>2 DEF g
  <1>10. Same(f, [f EXCEPT !.phase = phase, !.n = n, !.res = res], phase)
    <2> DEFINE g == [f EXCEPT !.phase = phase, !.n = n, !.res = res]
    <2>1. /\ g \in [kind : Kinds, phase : Phases, height : Nat, n : Nat, res : Result, shell : Nat \ {0}]
          /\ g.kind = f.kind /\ g.shell = f.shell /\ g.phase = phase /\ g.n = n
      BY <1>1
    <2> HIDE DEF g
    <2>2. Same(f, g, phase)
      BY <1>2, <1>3, <2>1
    <2> QED BY <2>2 DEF g
  <1> QED BY <1>4, <1>5, <1>6, <1>7, <1>8, <1>9, <1>10

\* The results the interpreter makes are results.
LEMMA ResultsMade ==
  /\ Success \in Result
  /\ \A c \in 0..1 : FromExitCode(c) \in Result
  /\ \A flow \in {"none", "break", "continue"}, level \in Nat, c \in 0..1 :
       Transfer(flow, level, c) \in Result
  /\ \A flow \in {"return", "exit"}, level \in 0..1, c \in 0..1 : Transfer(flow, level, c) \in Result
  /\ \A res \in Result : /\ Marked(res) \in Result /\ [res EXCEPT !.tested = TRUE] \in Result
                         /\ [res EXCEPT !.flow = "none", !.level = 0] \in Result
                         /\ res.code \in 0..1 /\ (res.flow = "exit" => res.level \in 0..1)
  <1>1. Success \in Result
    BY DEF Success, FromExitCode, Transfer, Result
  <1>2. \A c \in 0..1 : FromExitCode(c) \in Result
    BY DEF FromExitCode, Transfer, Result
  <1>3. /\ \A flow \in {"none", "break", "continue"}, level \in Nat, c \in 0..1 :
             Transfer(flow, level, c) \in Result
        /\ \A flow \in {"return", "exit"}, level \in 0..1, c \in 0..1 : Transfer(flow, level, c) \in Result
    BY DEF Transfer, Result
  <1>4. ASSUME NEW res \in Result
        PROVE  /\ Marked(res) \in Result /\ [res EXCEPT !.tested = TRUE] \in Result
               /\ [res EXCEPT !.flow = "none", !.level = 0] \in Result
               /\ res.code \in 0..1 /\ (res.flow = "exit" => res.level \in 0..1)
    <2>1. ErrDue(res) \in BOOLEAN
      BY DEF ErrDue
    <2> QED BY <2>1 DEF Marked, Result
  <1> QED BY <1>1, <1>2, <1>3, <1>4, Zenon

\* Changing what no balance looks at in one shell.
LEMMA ShellSet ==
  ASSUME NEW sh \in Seq(ShellType), NEW s \in 1..Len(sh), NEW new \in ShellType,
         new.scopes = sh[s].scopes, new.inTrap = sh[s].inTrap, new.expanding = sh[s].expanding
  PROVE  [sh EXCEPT ![s] = new] \in Seq(ShellType) /\ AlikeShells(sh, [sh EXCEPT ![s] = new])
  BY ExceptSeq DEF AlikeShells

\* A shell's status is set without touching a balance.
LEMMA StatusSet ==
  ASSUME NEW sh \in Seq(ShellType), NEW s \in 1..Len(sh), NEW c \in 0..1
  PROVE  [sh EXCEPT ![s].last = c] \in Seq(ShellType) /\ AlikeShells(sh, [sh EXCEPT ![s].last = c])
  <1>1. sh[s] \in ShellType
    BY ElementOfSeq
  <1> DEFINE new == [sh[s] EXCEPT !.last = c]
  <1>2. [sh EXCEPT ![s].last = c] = [sh EXCEPT ![s] = new]
    BY LenProperties
  <1>3. /\ new \in ShellType /\ new.scopes = sh[s].scopes
        /\ new.inTrap = sh[s].inTrap /\ new.expanding = sh[s].expanding
    BY <1>1 DEF ShellType
  <1> HIDE DEF new
  <1> QED BY <1>2, <1>3, ShellSet

\* So is the innermost shell's.
LEMMA LastSet ==
  ASSUME IInv, NEW c \in 0..1
  PROVE  /\ [shells EXCEPT ![Len(shells)].last = c] \in Seq(ShellType)
         /\ AlikeShells(shells, [shells EXCEPT ![Len(shells)].last = c])
  <1>1. shells \in Seq(ShellType) /\ Len(shells) \in 1..Len(shells)
    BY TopIs DEF IInv, TypeOK
  <1> QED BY <1>1, StatusSet

\* Leaving a frame gives back what it took.
LEMMA LeaveGives ==
  ASSUME IInv, stack # <<>>
  PROVE  /\ ShellsAfter(Top) \in Seq(ShellType)
         /\ BudgetAfter(Top) \in LooseBudget
         /\ Given(shells, ShellsAfter(Top), budget, BudgetAfter(Top), Top)
  <1> DEFINE f == Top
  <1> DEFINE n == Len(shells)
  <1> DEFINE sh2 == ShellsAfter(Top)
  <1>1. /\ shells \in Seq(ShellType) /\ n \in 1..n /\ n \in Nat /\ f \in FrameType /\ f.shell = n
        /\ budget \in BudgetType /\ shells # <<>>
    BY TopIs, EmptySeq DEF IInv, TypeOK, BudgetType
  <1>2. \A s \in 1..n : shells[s] \in ShellType
    BY <1>1, ElementOfSeq
  <1> HIDE DEF f
  <1>3. /\ BudgetAfter(f) \in LooseBudget
        /\ BudgetAfter(f).functions = budget.functions - One(f.kind = "func")
        /\ BudgetAfter(f).nesting = budget.nesting - One(f.kind \in Nests)
    BY <1>1 DEF BudgetAfter, LooseBudget, BudgetType, Nests, One
  <1>4. /\ ShellsAfter(f) \in Seq(ShellType)
        /\ Len(ShellsAfter(f)) = n - One(f.kind \in Forks)
        /\ \A s \in 1..Len(ShellsAfter(f)) :
              /\ ShellsAfter(f)[s].scopes = shells[s].scopes - Functions(f, s)
              /\ ShellsAfter(f)[s].inTrap = (shells[s].inTrap /\ ~ (f.kind = "trap" /\ f.shell = s))
              /\ ShellsAfter(f)[s].expanding =
                   (shells[s].expanding /\ ~ (f.kind = "simple" /\ f.phase = "alias" /\ f.shell = s))
    <2>1. CASE f.kind \in Forks
      <3>1. ShellsAfter(f) = Front(shells) /\ f.kind \notin {"func", "trap", "simple"}
        BY <2>1 DEF ShellsAfter, Forks
      <3>2. Front(shells) \in Seq(ShellType) /\ Len(Front(shells)) = n - 1 /\ \A s \in 1..(n - 1) : Front(shells)[s] = shells[s]
        BY <1>1, Fronted
      <3>3. \A s \in 1..(n - 1) : s \in 1..n
        BY <1>1
      <3> QED BY <1>2, <2>1, <3>1, <3>2, <3>3 DEF ShellType, Functions, One
    <2>2. CASE f.kind = "func"
      <3> DEFINE new == [shells[n] EXCEPT !.scopes = @ - 1]
      <3>1. ShellsAfter(f) = [shells EXCEPT ![n] = new]
        BY <1>1, <2>2, LenProperties DEF ShellsAfter, Forks
      <3>2. /\ new \in ShellType /\ new.scopes = shells[n].scopes - 1
            /\ new.inTrap = shells[n].inTrap /\ new.expanding = shells[n].expanding
        BY <1>1, <1>2 DEF ShellType
      <3> HIDE DEF new
      <3>3. /\ ShellsAfter(f) \in Seq(ShellType) /\ Len(ShellsAfter(f)) = n
            /\ \A s \in 1..n : ShellsAfter(f)[s] = IF s = n THEN new ELSE shells[s]
        BY <1>1, <3>1, <3>2, ExceptSeq
      <3> QED BY <1>1, <1>2, <2>2, <3>2, <3>3 DEF ShellType, Functions, One, Forks
    <2>3. CASE f.kind = "trap"
      <3> DEFINE new == [shells[n] EXCEPT !.inTrap = FALSE, !.last = f.n]
      <3>1. ShellsAfter(f) = [shells EXCEPT ![n] = new]
        BY <1>1, <2>3, LenProperties DEF ShellsAfter, Forks
      <3>2. /\ new \in ShellType /\ new.scopes = shells[n].scopes
            /\ new.inTrap = FALSE /\ new.expanding = shells[n].expanding
        BY <1>1, <1>2, <2>3 DEF ShellType, FrameType
      <3> HIDE DEF new
      <3>3. /\ ShellsAfter(f) \in Seq(ShellType) /\ Len(ShellsAfter(f)) = n
            /\ \A s \in 1..n : ShellsAfter(f)[s] = IF s = n THEN new ELSE shells[s]
        BY <1>1, <3>1, <3>2, ExceptSeq
      <3> QED BY <1>1, <1>2, <2>3, <3>2, <3>3 DEF ShellType, Functions, One, Forks
    <2>4. CASE f.kind = "simple"
      <3> DEFINE new == [shells[n] EXCEPT !.expanding = @ /\ f.phase # "alias"]
      <3>1. ShellsAfter(f) = [shells EXCEPT ![n] = new]
        BY <1>1, <2>4, LenProperties DEF ShellsAfter, Forks
      <3>2. /\ new \in ShellType /\ new.scopes = shells[n].scopes
            /\ new.inTrap = shells[n].inTrap /\ new.expanding = (shells[n].expanding /\ f.phase # "alias")
        BY <1>1, <1>2 DEF ShellType
      <3> HIDE DEF new
      <3>3. /\ ShellsAfter(f) \in Seq(ShellType) /\ Len(ShellsAfter(f)) = n
            /\ \A s \in 1..n : ShellsAfter(f)[s] = IF s = n THEN new ELSE shells[s]
        BY <1>1, <3>1, <3>2, ExceptSeq
      <3> QED BY <1>1, <1>2, <2>4, <3>2, <3>3 DEF ShellType, Functions, One, Forks
    <2>5. CASE f.kind \notin Forks \cup {"func", "trap", "simple"}
      <3>1. ShellsAfter(f) = shells
        BY <2>5 DEF ShellsAfter
      <3> QED BY <1>1, <1>2, <2>5, <3>1 DEF ShellType, Functions, One
    <2> QED BY <2>1, <2>2, <2>3, <2>4, <2>5
  <1> QED BY <1>3, <1>4 DEF Given, f

\* Where the interpreter goes on.
LEMMA Goes ==
  /\ \A res \in Result : Done(res) => ctl' \in CtlType /\ ctl'.at = "done"
  /\ \A where \in {"next", "enter", "exec", "expand", "dispatch", "iterate"} :
       At(where) => ctl' \in CtlType /\ ctl'.at = where
  /\ \A height \in Nat : Enter(height) => ctl' \in CtlType /\ ctl'.at = "exec"
  /\ \A err \in {"limit", "expired", "denied", "escape"} :
       Throw(err) => ctl' \in CtlType /\ ctl'.at = "throw"
  <1>1. Success \in Result
    BY DEF Success, FromExitCode, Transfer, Result
  <1> QED BY <1>1 DEF Done, At, Enter, Throw, Go, CtlType

\* A step that leaves a frame that is not the host's call.
LEMMA Leaves ==
  ASSUME IInv, stack # <<>>, Quiet, Top.kind # "call", Leave, ctl' \in CtlType, ctl'.at # "idle"
  PROVE  IInv'
  BY Pops, LeaveGives DEF Leave

\* A step that pops a frame that took nothing.
LEMMA Returns ==
  ASSUME IInv, stack # <<>>, Quiet, Top.kind \in Plain, Top.phase # "alias", stack' = Front(stack),
         shells' \in Seq(ShellType), AlikeShells(shells, shells'), UNCHANGED budget,
         ctl' \in CtlType, ctl'.at # "idle"
  PROVE  IInv'
  <1>1. Top.kind \notin Forks \cup Nests \cup {"call", "func", "trap"}
    BY DEF Plain, Forks, Nests, Lists, Loops
  <1>2. budget \in BudgetType /\ shells \in Seq(ShellType)
    BY DEF IInv, TypeOK, BudgetType
  <1>3. /\ Len(shells) \in Nat /\ Len(shells') = Len(shells)
        /\ \A s \in 1..Len(shells) : /\ shells[s] \in ShellType /\ shells'[s].scopes = shells[s].scopes
                                      /\ shells'[s].inTrap = shells[s].inTrap
                                      /\ shells'[s].expanding = shells[s].expanding
    BY <1>2, LenProperties, ElementOfSeq DEF AlikeShells
  <1>4. Given(shells, shells', budget, budget', Top)
    BY <1>1, <1>2, <1>3 DEF Given, Functions, One, ShellType, BudgetType
  <1>5. budget' \in LooseBudget
    BY <1>2 DEF BudgetType, LooseBudget
  <1> QED BY <1>1, <1>4, <1>5, Pops

\* A step that starts a trap handler.
LEMMA RunsTrap ==
  ASSUME IInv, stack # <<>>, Quiet, NEW signal \in {"EXIT", "ERR", "DEBUG"}, NEW status \in 0..1,
         NEW waiting \in FrameType, Alike(Top, waiting), RunTrap(signal, status, waiting)
  PROVE  IInv'
  <1> DEFINE g == Frame("trap", signal, 0, status)
  <1> DEFINE n == Len(shells)
  <1> DEFINE new == [shells[n] EXCEPT !.inTrap = TRUE, !.last = status]
  <1>1. g \in FrameType /\ g.kind = "trap" /\ g.shell = n
    <2>1. "trap" \in Kinds /\ signal \in Phases /\ 0 \in Nat /\ status \in Nat /\ "trap" \notin Forks
      BY DEF Kinds, Phases, Forks
    <2>2. Len(shells) \in Nat
      BY TopIs
    <2> HIDE DEF g
    <2>3. g \in FrameType /\ g.kind = "trap" /\ g.shell = Len(shells) + One("trap" \in Forks)
      BY <2>1, FrameMade DEF g
    <2> QED BY <2>1, <2>2, <2>3 DEF One
  <1>2. /\ shells \in Seq(ShellType) /\ n \in 1..n /\ n \in Nat /\ shells[n] \in ShellType /\ ~ shells[n].inTrap
        /\ budget \in BudgetType
    BY TopIs DEF IInv, TypeOK, RunTrap, TrapSet, BudgetType
  <1>3. /\ PushOn(waiting, g) /\ shells' = [shells EXCEPT ![n] = new] /\ budget' = budget
        /\ ctl' \in CtlType /\ ctl'.at # "idle"
    <2>1. PushOn(waiting, g) /\ budget' = budget /\ At("enter")
      BY DEF RunTrap
    <2>2. ctl' \in CtlType /\ ctl'.at = "enter"
      BY <2>1, Goes
    <2>3. shells' = [shells EXCEPT ![n] = new]
      BY <1>2, LenProperties DEF RunTrap
    <2> QED BY <2>1, <2>2, <2>3
  <1>4. /\ new \in ShellType /\ new.scopes = shells[n].scopes /\ new.inTrap
        /\ new.expanding = shells[n].expanding
    BY <1>2 DEF ShellType
  <1> HIDE DEF new, g
  <1>5. /\ shells' \in Seq(ShellType) /\ Len(shells') = n
        /\ \A s \in 1..n : shells'[s] = IF s = n THEN new ELSE shells[s]
        /\ \A s \in 1..n : shells[s] \in ShellType
    BY <1>2, <1>3, <1>4, ExceptSeq, ElementOfSeq
  <1>6. Taken(shells, shells', budget, budget', g)
    <2>1. \A s \in 1..n : /\ shells'[s].scopes = shells[s].scopes + Functions(g, s)
                          /\ One(shells'[s].expanding) = One(shells[s].expanding) + Expands(g, s)
      <3> TAKE s \in 1..n
      <3>1. Functions(g, s) = 0 /\ Expands(g, s) = 0
        BY <1>1 DEF Functions, Expands, One
      <3>2. /\ shells'[s].scopes = shells[s].scopes /\ shells[s].scopes \in Int
            /\ shells'[s].expanding = shells[s].expanding
        BY <1>4, <1>5 DEF ShellType
      <3> QED BY <3>1, <3>2 DEF One
    <2>2. \A s \in 1..n : One(shells'[s].inTrap) = One(shells[s].inTrap) + Handlers(g, s)
      BY <1>1, <1>2, <1>4, <1>5 DEF Handlers, One
    <2>3. budget.functions <= MaxFunctionDepth /\ budget.nesting <= MaxNestingDepth
      BY DEF IInv, Balanced, Deep
    <2> QED BY <1>1, <1>2, <1>3, <2>1, <2>2, <2>3 DEF Taken, One, Nests, BudgetType
  <1>7. Forked(shells, shells', g) /\ budget' \in LooseBudget
    BY <1>1, <1>2, <1>3, <1>5 DEF Forked, One, Forks, BudgetType, LooseBudget
  <1> QED BY <1>1, <1>3, <1>5, <1>6, <1>7, PushesOn

\* What every step may use of the state it starts in.
LEMMA Facts ==
  ASSUME IInv, ctl.at # "idle"
  PROVE  /\ stack # <<>> /\ Top \in FrameType /\ Top.shell = Len(shells)
         /\ Top.n \in Nat /\ Top.height \in Nat /\ Top.res \in Result
         /\ ctl.res \in Result /\ ctl.height \in Nat /\ Shell \in ShellType /\ Shell.last \in 0..1
         /\ budget \in LooseBudget /\ budget \in BudgetType /\ AlikeBudgets(budget, budget)
         /\ shells \in Seq(ShellType) /\ AlikeShells(shells, shells)
         /\ budget.functions <= MaxFunctionDepth /\ budget.nesting <= MaxNestingDepth
  <1>1. stack # <<>> /\ Top \in FrameType /\ Top.shell = Len(shells) /\ Shell \in ShellType
    BY TopIs DEF IInv
  <1>2. Top.n \in Nat /\ Top.height \in Nat /\ Top.res \in Result /\ Shell.last \in 0..1
    BY <1>1 DEF FrameType, ShellType
  <1>3. /\ ctl \in CtlType /\ budget \in BudgetType /\ shells \in Seq(ShellType)
        /\ budget.functions <= MaxFunctionDepth /\ budget.nesting <= MaxNestingDepth
    BY DEF IInv, TypeOK, BudgetType, Balanced, Deep
  <1>4. ctl.res \in Result /\ ctl.height \in Nat
    BY <1>3 DEF CtlType
  <1>5. budget \in LooseBudget
    BY <1>3 DEF BudgetType, LooseBudget
  <1> QED BY <1>1, <1>2, <1>3, <1>4, <1>5 DEF AlikeBudgets, AlikeShells

\* Entering a nesting below the limit.
LEMMA Nested ==
  ASSUME IInv, ctl.at # "idle", budget.nesting < MaxNestingDepth, budget' = [budget EXCEPT !.nesting = @ + 1]
  PROVE  /\ budget' \in LooseBudget /\ budget'.functions = budget.functions
         /\ budget'.nesting = budget.nesting + 1 /\ budget'.nesting <= MaxNestingDepth
  <1>1. budget \in BudgetType
    BY Facts
  <1>2. MaxNestingDepth \in Nat
    BY InterpreterAssumption
  <1>3. /\ budget' \in LooseBudget /\ budget'.functions = budget.functions
        /\ budget'.nesting = budget.nesting + 1 /\ budget.nesting \in Nat
    BY <1>1 DEF BudgetType, LooseBudget
  <1> QED BY <1>2, <1>3

\* A frame without a shell of its own, a scope or a handler takes at most a nesting.
LEMMA TakesNoShell ==
  ASSUME IInv, ctl.at # "idle", NEW g \in FrameType, g.kind \notin Forks \cup {"func", "trap"},
         g.phase # "alias", UNCHANGED shells, budget'.functions = budget.functions,
         budget'.nesting = budget.nesting + One(g.kind \in Nests), budget'.nesting <= MaxNestingDepth
  PROVE  Taken(shells, shells', budget, budget', g) /\ Forked(shells, shells', g)
  <1>1. /\ shells \in Seq(ShellType) /\ Len(shells) \in Nat /\ budget \in BudgetType
        /\ budget.functions <= MaxFunctionDepth
    BY Facts, LenProperties
  <1>2. \A s \in 1..Len(shells) : Functions(g, s) = 0 /\ Handlers(g, s) = 0 /\ Expands(g, s) = 0
    BY DEF Functions, Handlers, Expands, One
  <1>3. \A s \in 1..Len(shells) : shells[s].scopes \in Int
    <2> TAKE s \in 1..Len(shells)
    <2>1. shells[s] \in ShellType
      BY <1>1, ElementOfSeq
    <2> QED BY <2>1 DEF ShellType
  <1>4. \A s \in 1..Len(shells) :
          /\ shells'[s].scopes = shells[s].scopes + Functions(g, s)
          /\ One(shells'[s].inTrap) = One(shells[s].inTrap) + Handlers(g, s)
          /\ One(shells'[s].expanding) = One(shells[s].expanding) + Expands(g, s)
    BY <1>2, <1>3 DEF One
  <1> QED BY <1>1, <1>4 DEF Taken, Forked, One, BudgetType

\* A fork takes a shell, with one scope or with the scopes of the shell it copies.
LEMMA TakesShell ==
  ASSUME IInv, ctl.at # "idle", NEW g \in FrameType, g.kind \in Forks, NEW new \in ShellType,
         shells' = Append(shells, new), ~ new.inTrap, ~ new.expanding,
         new.scopes = (IF g.kind = "isolated" THEN 1 ELSE Shell.scopes),
         budget'.functions = budget.functions,
         budget'.nesting = budget.nesting + One(g.kind \in Nests), budget'.nesting <= MaxNestingDepth
  PROVE  /\ Taken(shells, shells', budget, budget', g) /\ Forked(shells, shells', g)
         /\ shells' \in Seq(ShellType) /\ Len(shells') = Len(shells) + 1
  <1>1. /\ shells \in Seq(ShellType) /\ Len(shells) \in Nat /\ budget \in BudgetType
        /\ budget.functions <= MaxFunctionDepth /\ Shell = shells[Len(shells)]
    BY Facts, TopIs, LenProperties
  <1>2. g.kind \notin {"func", "trap", "simple"}
    BY DEF Forks
  <1>3. \A s \in 1..Len(shells) : Functions(g, s) = 0 /\ Handlers(g, s) = 0 /\ Expands(g, s) = 0
    BY <1>2 DEF Functions, Handlers, Expands, One
  <1>4. \A s \in 1..Len(shells) : shells[s].scopes \in Int
    <2> TAKE s \in 1..Len(shells)
    <2>1. shells[s] \in ShellType
      BY <1>1, ElementOfSeq
    <2> QED BY <2>1 DEF ShellType
  <1>5. /\ shells' \in Seq(ShellType) /\ Len(shells') = Len(shells) + 1 /\ shells'[Len(shells) + 1] = new
        /\ \A s \in 1..Len(shells) : shells'[s] = shells[s]
    BY <1>1, AppendProperties
  <1>6. \A s \in 1..Len(shells) :
          /\ shells'[s].scopes = shells[s].scopes + Functions(g, s)
          /\ One(shells'[s].inTrap) = One(shells[s].inTrap) + Handlers(g, s)
          /\ One(shells'[s].expanding) = One(shells[s].expanding) + Expands(g, s)
    BY <1>3, <1>4, <1>5 DEF One
  <1>7. Taken(shells, shells', budget, budget', g)
    BY <1>1, <1>2, <1>6 DEF Taken, One, BudgetType
  <1>8. Forked(shells, shells', g)
    BY <1>1, <1>5 DEF Forked, One
  <1> QED BY <1>5, <1>7, <1>8

\* The ERR handler, wherever a status is looked at.
LEMMA ErrTrapKeeps ==
  ASSUME IInv, ctl.at # "idle", Quiet, NEW res \in Result, Top.kind # "trap", Top.phase # "alias",
         RunErrTrap(res)
  PROVE  IInv'
  <1> DEFINE waiting == [Top EXCEPT !.phase = "err", !.res = Marked(res)]
  <1>1. Same(Top, waiting, "err")
    <2>1. Marked(res) \in Result
      BY ResultsMade, Zenon
    <2>2. "err" \in Phases /\ Top \in FrameType /\ 1 \in Nat /\ 1 \in 1..2
      BY Facts DEF Phases
    <2> QED BY <2>1, <2>2, FrameChanged, Zenon
  <1>2. RunTrap("ERR", Shell.last, waiting)
    BY DEF RunErrTrap
  <1> HIDE DEF waiting
  <1>3. waiting \in FrameType /\ Alike(Top, waiting)
    BY <1>1 DEF Same, Alike
  <1>4. stack # <<>> /\ Shell.last \in 0..1
    BY Facts
  <1> QED BY <1>2, <1>3, <1>4, RunsTrap

\* The bookkeeping after a command of a body.
LEMMA AfterCommandKeeps ==
  ASSUME IInv, ctl.at # "idle", Quiet, NEW res \in Result, Top.kind \in Runs, Top.phase # "alias",
         AfterCommand(res)
  PROVE  IInv'
  <1> DEFINE exits == res.flow = "exit"
             stops == exits \/ (Shell.errexit /\ res.code # 0 /\ ~ res.tested)
             code  == IF exits THEN res.level ELSE res.code
             f     == [Top EXCEPT !.phase = "command", !.n = IF stops THEN 0 ELSE @, !.res = FromExitCode(code)]
  <1>1. res.code \in 0..1 /\ code \in 0..1
    BY DEF Result
  <1>2. FromExitCode(code) \in Result
    BY <1>1, ResultsMade, Zenon
  <1>3. (IF stops THEN 0 ELSE Top.n) \in Nat /\ Top \in FrameType /\ "command" \in Phases
        /\ Top.kind \notin {"trap", "pipe"}
    BY Facts DEF Phases, Runs
  <1>4. Become(f) /\ SetLast(res.code) /\ At("next") /\ UNCHANGED budget
    BY DEF AfterCommand
  <1> HIDE DEF stops, code
  <1>5. Same(Top, f, "command")
    BY <1>2, <1>3, FrameChanged, Zenon
  <1> HIDE DEF f
  <1>6. f \in FrameType /\ Alike(Top, f)
    BY <1>5 DEF Same, Alike
  <1>7. shells' \in Seq(ShellType) /\ AlikeShells(shells, shells')
    BY <1>1, <1>4, LastSet DEF SetLast
  <1>8. ctl' \in CtlType /\ ctl'.at # "idle"
    BY <1>4, Goes
  <1>9. stack # <<>> /\ budget' \in LooseBudget /\ AlikeBudgets(budget, budget')
    BY <1>4, Facts
  <1> QED BY <1>4, <1>6, <1>7, <1>8, <1>9, Becomes

\* What happens to a list once its left operand is known.
LEMMA AfterLeftKeeps ==
  ASSUME IInv, ctl.at # "idle", Quiet, NEW res \in Result, Top.kind \in Lists, Top.phase # "alias",
         AfterLeft(res)
  PROVE  IInv'
  <1>1. /\ stack # <<>> /\ Top \in FrameType /\ Top.height \in Nat /\ Top.kind \in Plain
        /\ Top.kind \notin {"trap", "pipe"} /\ res.code \in 0..1 /\ [res EXCEPT !.tested = TRUE] \in Result
    BY Facts, ResultsMade, Zenon DEF Plain, Lists
  <1>2. SetLast(res.code) /\ UNCHANGED budget
    BY DEF AfterLeft
  <1>3. shells' \in Seq(ShellType) /\ AlikeShells(shells, shells')
    BY <1>1, <1>2, LastSet DEF SetLast
  <1>4. budget' \in LooseBudget /\ AlikeBudgets(budget, budget')
    BY <1>2, Facts
  <1>5. CASE stack' = Front(stack) /\ (Done(res) \/ Done([res EXCEPT !.tested = TRUE]))
    <2>1. ctl' \in CtlType /\ ctl'.at # "idle"
      BY <1>1, <1>5, Goes
    <2> QED BY <1>1, <1>2, <1>3, <1>5, <2>1, Returns
  <1>6. CASE Become([Top EXCEPT !.phase = "right", !.res = Success]) /\ Enter(Top.height)
    <2> DEFINE f == [Top EXCEPT !.phase = "right", !.res = Success]
    <2>1. ctl' \in CtlType /\ ctl'.at # "idle"
      BY <1>1, <1>6, Goes
    <2>2. Same(Top, f, "right")
      <3>1. "right" \in Phases /\ 1 \in Nat /\ Success \in Result
        BY ResultsMade, Zenon DEF Phases
      <3> QED BY <1>1, <3>1, FrameChanged, Zenon
    <2> HIDE DEF f
    <2>3. f \in FrameType /\ Alike(Top, f)
      BY <2>2 DEF Same, Alike
    <2>4. Become(f)
      BY <1>6 DEF f
    <2> QED BY <1>1, <1>3, <1>4, <2>1, <2>3, <2>4, Becomes
  <1> QED BY <1>5, <1>6 DEF AfterLeft

\* A step that changes the phase, the count or the result of the top frame.
LEMMA Alters ==
  ASSUME IInv, ctl.at # "idle", Quiet, NEW f, NEW phase \in Phases, Same(Top, f, phase), Become(f),
         Top.kind = "simple" => Top.phase # "alias" /\ phase # "alias",
         shells' \in Seq(ShellType), AlikeShells(shells, shells'),
         budget' \in LooseBudget, AlikeBudgets(budget, budget'),
         ctl' \in CtlType, ctl'.at # "idle"
  PROVE  IInv'
  <1>1. f \in FrameType /\ Alike(Top, f) /\ stack # <<>>
    BY Facts DEF Same, Alike
  <1> QED BY <1>1, Becomes

\* A step that opens a compound command without a shell of its own.
LEMMA Opens ==
  ASSUME IInv, NEW kind \in Plain \ {"simple"}, NEW phase \in Phases \ {"alias"},
         NEW n \in Nat, kind = "pipe" => n \in 1..2, Open(kind, phase, n), UNCHANGED shells
  PROVE  IInv'
  <1>1. /\ ctl.at # "idle" /\ ctl.height > 0 /\ Quiet /\ UNCHANGED budget
        /\ Push(Frame(kind, phase, ctl.height - 1, n)) /\ Enter(ctl.height - 1)
    BY DEF Open, Descending, Entering
  <1>2. ctl.height - 1 \in Nat
    BY <1>1, Facts
  <1>3. kind \in Kinds /\ kind \notin Forks \cup Nests \cup {"call", "func", "trap"}
    BY DEF Plain, Kinds, Lists, Loops, Forks, Nests
  <1> DEFINE g == Frame(kind, phase, ctl.height - 1, n)
  <1>4. /\ g \in FrameType /\ g.kind = kind /\ g.phase = phase
        /\ g.shell = Len(shells) + One(kind \in Forks)
    BY <1>2, <1>3, FrameMade
  <1>5. Push(g)
    BY <1>1
  <1> HIDE DEF g
  <1>6. budget \in BudgetType /\ budget \in LooseBudget /\ budget.nesting <= MaxNestingDepth
        /\ shells \in Seq(ShellType) /\ Len(shells) \in Nat
    BY <1>1, Facts, TopIs
  <1>7. Taken(shells, shells', budget, budget', g) /\ Forked(shells, shells', g)
    BY <1>1, <1>3, <1>4, <1>6, TakesNoShell DEF One, BudgetType
  <1>8. ctl' \in CtlType /\ ctl'.at # "idle"
    BY <1>1, <1>2, Goes
  <1>9. g.shell = Len(shells') /\ g.kind # "call"
    BY <1>3, <1>4, <1>6 DEF One
  <1> QED BY <1>1, <1>4, <1>5, <1>6, <1>7, <1>8, <1>9, Pushes

-----------------------------------------------------------------------------
\* ---- one step for each action ----

\* The run of a script, of a fragment or of a fork, up to its traps.
LEMMA ScriptSteps ==
  ASSUME IInv, NextCommand \/ CommandDone \/ CommandErrDone \/ FinishFragment \/ FinishShell
               \/ SubstitutionDone \/ TrapDone
  PROVE  IInv'
  <1>1. CASE NextCommand
    <2>1. ctl.at # "idle" /\ Quiet /\ UNCHANGED <<shells, budget>> /\ Top.n > 0 /\ Top.kind \in Runs
      BY <1>1 DEF NextCommand, Working
    <2>2. CASE clock = "cancelled"
      <3>1. Throw("escape") /\ UNCHANGED stack
        BY <1>1, <2>2 DEF NextCommand
      <3>2. ctl' \in CtlType /\ ctl'.at # "idle"
        BY <3>1, Goes
      <3> QED BY <2>1, <3>1, <3>2, Facts, Stays
    <2>3. CASE clock # "cancelled"
      <3> DEFINE f == [Top EXCEPT !.n = Top.n - 1]
      <3>1. Become(f) /\ Enter(MaxHeight)
        BY <1>1, <2>3 DEF NextCommand
      <3>2. ctl' \in CtlType /\ ctl'.at # "idle"
        BY <3>1, Goes, InterpreterAssumption
      <3>3. /\ Top \in FrameType /\ Top.n - 1 \in Nat /\ Top.kind \notin {"trap", "pipe", "simple"}
            /\ Success \in Result /\ Top.phase \in Phases
        <4>1. Top \in FrameType /\ Top.n \in Nat /\ Success \in Result
          BY <2>1, Facts, ResultsMade, Zenon
        <4>2. Top.phase \in Phases
          BY <4>1 DEF FrameType, Phases
        <4> QED BY <2>1, <4>1, <4>2 DEF Runs
      <3>4. Same(Top, f, Top.phase)
        BY <3>3, FrameChanged, Zenon
      <3> HIDE DEF f
      <3> QED BY <2>1, <3>1, <3>2, <3>3, <3>4, Facts, Alters
    <2> QED BY <2>2, <2>3
  <1>2. CASE CommandDone
    <2>1. ctl.at # "idle" /\ Quiet /\ Top.kind \in Runs /\ Top.phase = "command"
      BY <1>2 DEF CommandDone, Returned
    <2>2. ctl.res \in Result /\ Marked(ctl.res) \in Result /\ Top.kind # "trap"
      BY <2>1, Facts, ResultsMade, Zenon DEF Runs
    <2>3. RunErrTrap(ctl.res) \/ AfterCommand(Marked(ctl.res))
      BY <1>2 DEF CommandDone
    <2> QED BY <2>1, <2>2, <2>3, ErrTrapKeeps, AfterCommandKeeps
  <1>3. CASE CommandErrDone
    <2>1. ctl.at # "idle" /\ Quiet /\ Top.kind \in Runs /\ Top.phase = "err" /\ AfterCommand(Top.res)
      BY <1>3 DEF CommandErrDone, Returned
    <2> QED BY <2>1, Facts, AfterCommandKeeps
  <1>4. CASE FinishFragment
    <2>1. ctl.at # "idle" /\ Quiet /\ Top.kind # "call" /\ Leave /\ Done(Top.res)
      BY <1>4 DEF FinishFragment, Working, Return
    <2>2. ctl' \in CtlType /\ ctl'.at # "idle"
      BY <2>1, Facts, Goes
    <2> QED BY <2>1, <2>2, Facts, Leaves
  <1>5. CASE FinishShell
    <2> DEFINE status == IF Top.kind = "call" THEN Top.res.code ELSE Shell.last
    <2> DEFINE waiting == [Top EXCEPT !.phase = "atexit"]
    <2>1. ctl.at # "idle" /\ Quiet /\ Top.kind \in {"call", "subst"}
      BY <1>5 DEF FinishShell, Working
    <2>2. status \in 0..1
      BY <2>1, Facts, ResultsMade, Zenon
    <2>3. Same(Top, waiting, "atexit")
      <3>1. Top \in FrameType /\ "atexit" \in Phases /\ 1 \in Nat /\ Success \in Result
        BY <2>1, Facts, ResultsMade, Zenon DEF Phases
      <3> QED BY <2>1, <3>1, FrameChanged, Zenon
    <2>4. \/ RunTrap("EXIT", status, waiting)
          \/ SetLast(status) /\ Become(waiting) /\ Done(Success) /\ UNCHANGED budget
      BY <1>5 DEF FinishShell
    <2> HIDE DEF status, waiting
    <2>5. CASE RunTrap("EXIT", status, waiting)
      <3>1. waiting \in FrameType /\ Alike(Top, waiting)
        BY <2>1, <2>3 DEF Same, Alike
      <3> QED BY <2>1, <2>2, <2>5, <3>1, Facts, RunsTrap
    <2>6. CASE SetLast(status) /\ Become(waiting) /\ Done(Success) /\ UNCHANGED budget
      <3>1. shells' \in Seq(ShellType) /\ AlikeShells(shells, shells')
        BY <2>2, <2>6, LastSet DEF SetLast
      <3>2. ctl' \in CtlType /\ ctl'.at # "idle"
        BY <2>6, Goes, ResultsMade, Zenon
      <3>3. "atexit" \in Phases /\ budget' \in LooseBudget /\ AlikeBudgets(budget, budget')
        BY <2>1, <2>6, Facts DEF Phases
      <3> QED BY <2>1, <2>3, <2>6, <3>1, <3>2, <3>3, Alters
    <2> QED BY <2>4, <2>5, <2>6
  <1>6. CASE SubstitutionDone
    <2>1. ctl.at # "idle" /\ Quiet /\ Top.kind # "call" /\ Leave /\ Done(Top.res)
      BY <1>6 DEF SubstitutionDone, Returned, Return
    <2>2. ctl' \in CtlType /\ ctl'.at # "idle"
      BY <2>1, Facts, Goes
    <2> QED BY <2>1, <2>2, Facts, Leaves
  <1>7. CASE TrapDone
    <2> DEFINE res == [ctl.res EXCEPT !.flow = "none", !.level = 0]
    <2>1. ctl.at # "idle" /\ Quiet /\ Top.kind # "call" /\ Leave /\ Done(res)
      BY <1>7 DEF TrapDone, Returned, Return
    <2>2. res \in Result
      BY <2>1, Facts, ResultsMade, Zenon
    <2> HIDE DEF res
    <2>3. ctl' \in CtlType /\ ctl'.at # "idle"
      BY <2>1, <2>2, Goes
    <2> QED BY <2>1, <2>3, Facts, Leaves
  <1> QED BY <1>1, <1>2, <1>3, <1>4, <1>5, <1>6, <1>7

\* The end of the host's call, with a result or an exception.
LEMMA CallEnds ==
  ASSUME IInv, CallDone \/ CallFails
  PROVE  IInv'
  <1>1. /\ ctl.at # "idle" /\ Top.kind = "call" /\ Leave /\ At("idle") /\ UNCHANGED <<clock, calls>>
        /\ outcome' \in [how : {"none", "result", "error", "exception"}, code : 0..1]
    <2>1. CASE CallDone
      <3>1. ctl.at # "idle"
        BY <2>1 DEF CallDone, Returned
      <3>2. Top.res.code \in 0..1
        BY <3>1, Facts, ResultsMade, Zenon
      <3> QED BY <2>1, <3>1, <3>2 DEF CallDone, Returned
    <2>2. CASE CallFails
      BY <2>2 DEF CallFails, Working
    <2> QED BY <2>1, <2>2
  <1>2. stack # <<>> /\ stack \in Seq(FrameType) /\ shells \in Seq(ShellType) /\ Balanced(stack, shells, budget)
    BY <1>1, Facts DEF IInv, TypeOK
  <1>3. stack' = Front(stack) /\ stack' \in Seq(FrameType) /\ Len(stack') = 0
    BY <1>1, <1>2, TopIs, Fronted DEF Leave
  <1>4. stack' = <<>>
    BY <1>3, EmptySeq
  <1>5. /\ shells' \in Seq(ShellType) /\ budget' \in LooseBudget
        /\ Given(shells, shells', budget, budget', stack[Len(stack)])
    BY <1>1, <1>2, LeaveGives, TopIs DEF Leave
  <1>6. Balanced(stack', shells', budget')
    BY <1>2, <1>3, <1>5, Popped
  <1>7. budget' \in BudgetType
    BY <1>3, <1>5, <1>6, DepthsNatural
  <1>8. ctl' \in CtlType /\ ctl'.at = "idle"
    BY <1>1, ResultsMade, Zenon DEF At, Go, CtlType
  <1>9. clock' \in {"running", "timedout", "cancelled"} /\ calls' \in Nat
    BY <1>1 DEF IInv, TypeOK
  <1> QED BY <1>1, <1>3, <1>4, <1>5, <1>6, <1>7, <1>8, <1>9 DEF IInv, TypeOK, BudgetType

\* A fragment is pushed with the nesting it holds.
LEMMA FragmentSteps ==
  ASSUME IInv, EnterFragment \/ NodeExpired
  PROVE  IInv'
  <1>1. ctl.at # "idle" /\ Quiet /\ UNCHANGED shells
    BY DEF EnterFragment, NodeExpired
  <1>2. ASSUME UNCHANGED <<stack, budget>>, NEW err \in {"limit", "expired", "escape"}, Throw(err)
        PROVE  IInv'
    <2>1. ctl' \in CtlType /\ ctl'.at # "idle"
      BY <1>2, Goes
    <2> QED BY <1>1, <1>2, <2>1, Facts, Stays
  <1>3. ASSUME budget.nesting < MaxNestingDepth, budget' = [budget EXCEPT !.nesting = @ + 1],
               NEW n \in 1..MaxScript, Push(Frame("fragment", "command", 0, n)), At("next")
        PROVE  IInv'
    <2> DEFINE g == Frame("fragment", "command", 0, n)
    <2>1. "fragment" \in Kinds /\ "command" \in Phases /\ n \in Nat /\ "fragment" \notin Forks /\ "fragment" \in Nests
      BY InterpreterAssumption DEF Kinds, Phases, Runs, Forks, Nests
    <2>2. /\ g \in FrameType /\ g.kind = "fragment" /\ g.phase = "command"
          /\ g.shell = Len(shells) + One("fragment" \in Forks)
      BY <2>1, FrameMade
    <2>3. Push(g)
      BY <1>3
    <2> HIDE DEF g
    <2>4. /\ budget \in BudgetType /\ shells \in Seq(ShellType) /\ Len(shells) \in Nat
      BY <1>1, Facts, TopIs
    <2>5. /\ budget' \in LooseBudget /\ budget'.functions = budget.functions
          /\ budget'.nesting = budget.nesting + 1 /\ budget'.nesting <= MaxNestingDepth
      BY <1>1, <1>3, Nested
    <2>6. Taken(shells, shells', budget, budget', g) /\ Forked(shells, shells', g)
      BY <1>1, <2>1, <2>2, <2>5, TakesNoShell DEF One
    <2>7. ctl' \in CtlType /\ ctl'.at # "idle"
      BY <1>3, Goes
    <2>8. g.shell = Len(shells')
      BY <1>1, <2>1, <2>2, <2>4 DEF One
    <2> QED BY <1>1, <2>2, <2>3, <2>4, <2>5, <2>6, <2>7, <2>8, Pushes
  <1> QED BY <1>2, <1>3 DEF EnterFragment, NodeExpired

\* Lists, pipelines and conditionals.
LEMMA ListSteps ==
  ASSUME IInv, OpenList \/ LeftDone \/ LeftErrDone \/ RightDone \/ OpenPipeline \/ StageDone
               \/ OpenIf \/ ConditionDone \/ BranchDone
  PROVE  IInv'
  <1>1. CASE OpenList
    <2>1. PICK op \in Lists : Open(op, "left", 0) /\ UNCHANGED shells
      BY <1>1 DEF OpenList
    <2>2. op \in Plain \ {"simple"} /\ op # "pipe" /\ "left" \in Phases \ {"alias"}
      BY DEF Lists, Plain, Phases
    <2> QED BY <2>1, <2>2, Opens
  <1>2. CASE LeftDone
    <2>1. ctl.at # "idle" /\ Quiet /\ Top.kind \in Lists /\ Top.phase = "left"
      BY <1>2 DEF LeftDone, Returned
    <2>2. ctl.res \in Result /\ Marked(ctl.res) \in Result /\ Top.kind # "trap"
      BY <2>1, Facts, ResultsMade, Zenon DEF Lists
    <2>3. RunErrTrap(ctl.res) \/ AfterLeft(Marked(ctl.res)) \/ AfterLeft(ctl.res)
      BY <1>2 DEF LeftDone
    <2> QED BY <2>1, <2>2, <2>3, ErrTrapKeeps, AfterLeftKeeps
  <1>3. CASE LeftErrDone
    <2>1. ctl.at # "idle" /\ Quiet /\ Top.kind \in Lists /\ Top.phase = "err" /\ AfterLeft(Top.res)
      BY <1>3 DEF LeftErrDone, Returned
    <2> QED BY <2>1, Facts, AfterLeftKeeps
  <1>4. CASE RightDone
    <2>1. /\ ctl.at # "idle" /\ Quiet /\ Top.kind \in Plain /\ Top.phase = "right" /\ UNCHANGED budget
          /\ stack' = Front(stack) /\ Done(ctl.res) /\ SetLast(ctl.res.code)
      BY <1>4 DEF RightDone, Returned, ReturnWith, SetLast, Plain
    <2>2. ctl.res.code \in 0..1 /\ ctl' \in CtlType /\ ctl'.at # "idle"
      BY <2>1, Facts, Goes, ResultsMade, Zenon
    <2>3. shells' \in Seq(ShellType) /\ AlikeShells(shells, shells')
      BY <2>1, <2>2, LastSet DEF SetLast
    <2> QED BY <2>1, <2>2, <2>3, Facts, Returns
  <1>5. CASE OpenPipeline
    <2>1. PICK n \in 1..2 : Open("pipe", "stage", n) /\ UNCHANGED shells
      BY <1>5 DEF OpenPipeline
    <2>2. "pipe" \in Plain \ {"simple"} /\ "stage" \in Phases \ {"alias"} /\ n \in Nat
      BY DEF Plain, Phases
    <2> QED BY <2>1, <2>2, Opens
  <1>6. CASE StageDone
    <2> DEFINE failed == IF ctl.res.code # 0 THEN ctl.res.code ELSE Top.res.code
    <2>1. ctl.at # "idle" /\ Quiet /\ Top.kind = "pipe" /\ Top.phase = "stage" /\ UNCHANGED <<shells, budget>>
      BY <1>6, Zenon DEF StageDone, Returned, ReturnWith
    <2>2. /\ stack # <<>> /\ ctl.res \in Result /\ ctl.res.code \in 0..1 /\ Top.res.code \in 0..1
          /\ Top \in FrameType /\ Top.height \in Nat
      BY <2>1, Facts, ResultsMade, Zenon
    <2>3. failed \in 0..1
      BY <2>2
    <2>4. CASE Top.n = 1 \/ ctl.res.flow # "none"
      <3>1. PICK pipefail, negated \in BOOLEAN :
              LET code == IF pipefail THEN failed ELSE ctl.res.code
              IN  ReturnWith([ctl.res EXCEPT !.code = IF negated THEN 1 - code ELSE code,
                                             !.tested = negated], shells)
        BY <1>6, <2>4, Zenon DEF StageDone
      <3> DEFINE code == IF pipefail THEN failed ELSE ctl.res.code
      <3> DEFINE res == [ctl.res EXCEPT !.code = IF negated THEN 1 - code ELSE code, !.tested = negated]
      <3>2. stack' = Front(stack) /\ Done(res)
        BY <3>1 DEF ReturnWith
      <3>3. code \in 0..1
        BY <2>2, <2>3
      <3> HIDE DEF code
      <3>4. (IF negated THEN 1 - code ELSE code) \in 0..1
        BY <3>3
      <3>5. res \in Result
        BY <2>2, <3>4 DEF Result
      <3> HIDE DEF res
      <3>6. ctl' \in CtlType /\ ctl'.at # "idle" /\ Top.kind \in Plain
        BY <2>1, <3>2, <3>5, Goes DEF Plain
      <3> QED BY <2>1, <2>2, <3>2, <3>6, Facts, Returns
    <2>5. CASE ~ (Top.n = 1 \/ ctl.res.flow # "none")
      <3> DEFINE f == [Top EXCEPT !.n = Top.n - 1, !.res = FromExitCode(failed)]
      <3>1. Become(f) /\ (Throw("escape") \/ Enter(Top.height))
        BY <1>6, <2>5 DEF StageDone
      <3>2. ctl' \in CtlType /\ ctl'.at # "idle"
        BY <2>2, <3>1, Goes
      <3>3. Top.n - 1 \in 1..2 /\ Top.n - 1 \in Nat /\ "stage" \in Phases
        BY <2>1, <2>2, <2>5 DEF FrameType, Phases
      <3>4. FromExitCode(failed) \in Result
        BY <2>3, ResultsMade, Zenon
      <3> HIDE DEF failed
      <3>5. Same(Top, f, "stage")
        BY <2>1, <2>2, <3>3, <3>4, FrameChanged, Zenon
      <3> HIDE DEF f
      <3> QED BY <2>1, <3>1, <3>2, <3>3, <3>5, Facts, Alters
    <2> QED BY <2>4, <2>5
  <1>7. CASE OpenIf
    <2>1. "if" \in Plain \ {"simple"} /\ "condition" \in Phases \ {"alias"}
      BY DEF Plain, Phases
    <2> QED BY <1>7, <2>1, Opens DEF OpenIf
  <1>8. CASE ConditionDone
    <2>1. /\ ctl.at # "idle" /\ Quiet /\ Top.kind = "if" /\ Top.phase = "condition" /\ UNCHANGED budget
          /\ SetLast(ctl.res.code)
      BY <1>8 DEF ConditionDone, Returned
    <2>2. ctl.res \in Result /\ ctl.res.code \in 0..1 /\ Success \in Result /\ Top \in FrameType /\ Top.height \in Nat
      BY <2>1, Facts, ResultsMade, Zenon
    <2>3. shells' \in Seq(ShellType) /\ AlikeShells(shells, shells')
      BY <2>1, <2>2, LastSet DEF SetLast
    <2>4. CASE stack' = Front(stack) /\ (Done(ctl.res) \/ Done(Success))
      <3>1. ctl' \in CtlType /\ ctl'.at # "idle" /\ Top.kind \in Plain
        BY <2>1, <2>2, <2>4, Goes DEF Plain
      <3> QED BY <2>1, <2>3, <2>4, <3>1, Facts, Returns
    <2>5. CASE Become([Top EXCEPT !.phase = "branch"]) /\ Enter(Top.height)
      <3>1. ctl' \in CtlType /\ ctl'.at # "idle" /\ "branch" \in Phases /\ 1 \in Nat
        BY <2>2, <2>5, Goes DEF Phases
      <3>2. Same(Top, [Top EXCEPT !.phase = "branch"], "branch")
        BY <2>1, <2>2, <3>1, FrameChanged, Zenon
      <3> QED BY <2>1, <2>3, <2>5, <3>1, <3>2, Facts, Alters
    <2> QED BY <1>8, <2>4, <2>5 DEF ConditionDone
  <1>9. CASE BranchDone
    <2>1. ctl.at # "idle" /\ Quiet /\ Top.kind # "call" /\ Leave /\ Done(ctl.res)
      BY <1>9 DEF BranchDone, Returned, Return
    <2>2. ctl' \in CtlType /\ ctl'.at # "idle"
      BY <2>1, Facts, Goes
    <2> QED BY <2>1, <2>2, Facts, Leaves
  <1> QED BY <1>1, <1>2, <1>3, <1>4, <1>5, <1>6, <1>7, <1>8, <1>9

\* Loops.
LEMMA LoopSteps ==
  ASSUME IInv, OpenLoop \/ Iterate \/ ItemsExhausted \/ LoopConditionDone \/ LoopBodyDone
  PROVE  IInv'
  <1>1. CASE OpenLoop
    <2>1. PICK kind \in Loops :
            /\ Descending(kind) /\ Quiet /\ UNCHANGED <<shells, budget>>
            /\ \/ Push(Frame(kind, "head", ctl.height - 1, 0)) /\ At("iterate")
               \/ Throw("denied") /\ UNCHANGED stack
      BY <1>1 DEF OpenLoop
    <2>2. ctl.at # "idle" /\ ctl.height > 0 /\ ctl.height - 1 \in Nat
      BY <2>1, Facts DEF Descending, Entering
    <2>3. CASE Throw("denied") /\ UNCHANGED stack
      <3>1. ctl' \in CtlType /\ ctl'.at # "idle"
        BY <2>3, Goes
      <3> QED BY <2>1, <2>2, <2>3, <3>1, Facts, Stays
    <2>4. CASE Push(Frame(kind, "head", ctl.height - 1, 0)) /\ At("iterate")
      <3> DEFINE g == Frame(kind, "head", ctl.height - 1, 0)
      <3>1. kind \in Kinds /\ kind \notin Forks \cup Nests \cup {"call", "func", "trap", "pipe"} /\ "head" \in Phases
        BY DEF Kinds, Loops, Forks, Nests, Phases
      <3>2. /\ g \in FrameType /\ g.kind = kind /\ g.phase = "head"
            /\ g.shell = Len(shells) + One(kind \in Forks)
        BY <2>2, <3>1, FrameMade
      <3>3. Push(g)
        BY <2>4
      <3> HIDE DEF g
      <3>4. /\ budget \in BudgetType /\ budget \in LooseBudget /\ budget.nesting <= MaxNestingDepth
            /\ shells \in Seq(ShellType) /\ Len(shells) \in Nat
        BY <2>2, Facts, TopIs
      <3>5. Taken(shells, shells', budget, budget', g) /\ Forked(shells, shells', g)
        BY <2>1, <2>2, <3>1, <3>2, <3>4, TakesNoShell DEF One, BudgetType
      <3>6. ctl' \in CtlType /\ ctl'.at # "idle"
        BY <2>4, Goes
      <3>7. g.shell = Len(shells') /\ g.kind # "call"
        BY <2>1, <3>1, <3>2, <3>4 DEF One
      <3> QED BY <2>1, <2>2, <3>2, <3>3, <3>4, <3>5, <3>6, <3>7, Pushes
    <2> QED BY <2>1, <2>3, <2>4
  <1>2. CASE Iterate
    <2>1. ctl.at # "idle" /\ Quiet /\ UNCHANGED shells /\ Top.kind \in Loops
      BY <1>2 DEF Iterate, Working
    <2>2. budget' = budget \/ budget' = ChargeLoop
      BY <1>2 DEF Iterate
    <2>3. budget' \in LooseBudget /\ AlikeBudgets(budget, budget')
      <3>1. budget \in BudgetType
        BY <2>1, Facts
      <3>2. ChargeLoop \in LooseBudget /\ AlikeBudgets(budget, ChargeLoop)
        BY <3>1 DEF ChargeLoop, BudgetType, LooseBudget, AlikeBudgets
      <3> QED BY <2>1, <2>2, <3>2, Facts
    <2>4. CASE UNCHANGED stack /\ (Throw("expired") \/ Throw("limit"))
      <3>1. ctl' \in CtlType /\ ctl'.at # "idle"
        BY <2>4, Goes
      <3> QED BY <2>1, <2>3, <2>4, <3>1, Facts, Stays
    <2>5. CASE /\ Become([Top EXCEPT !.n = @ + 1, !.phase = IF Top.kind = "for" THEN "body" ELSE "condition"])
               /\ Enter(Top.height)
      <3> DEFINE phase == IF Top.kind = "for" THEN "body" ELSE "condition"
      <3> DEFINE f == [Top EXCEPT !.n = Top.n + 1, !.phase = phase]
      <3>1. ctl' \in CtlType /\ ctl'.at # "idle"
        BY <2>1, <2>5, Facts, Goes
      <3>2. phase \in Phases /\ Top.n + 1 \in Nat /\ Success \in Result /\ Top \in FrameType
            /\ Top.kind \notin {"trap", "pipe", "simple"}
        <4>1. Success \in Result
          BY ResultsMade, Zenon
        <4> QED BY <2>1, <4>1, Facts DEF Phases, Loops
      <3> HIDE DEF phase
      <3>3. Same(Top, f, phase)
        BY <3>2, FrameChanged, Zenon
      <3>4. Become(f)
        BY <2>5 DEF phase
      <3> HIDE DEF f
      <3> QED BY <2>1, <2>3, <3>1, <3>2, <3>3, <3>4, Facts, Alters
    <2> QED BY <1>2, <2>4, <2>5 DEF Iterate
  <1>3. CASE ItemsExhausted
    <2>1. ctl.at # "idle" /\ Quiet /\ Top.kind # "call" /\ Leave /\ Done(LoopResult(Top, "none", 0))
      BY <1>3 DEF ItemsExhausted, Working, Return
    <2>2. LoopResult(Top, "none", 0) \in Result
      <3>1. Top.res.code \in 0..1
        BY <2>1, Facts, ResultsMade, Zenon
      <3> QED BY <3>1, ResultsMade, Zenon DEF LoopResult
    <2>3. ctl' \in CtlType /\ ctl'.at # "idle"
      BY <2>1, <2>2, Goes
    <2> QED BY <2>1, <2>3, Facts, Leaves
  <1>4. CASE LoopConditionDone
    <2>1. /\ ctl.at # "idle" /\ Quiet /\ Top.kind = "while" /\ Top.phase = "condition" /\ UNCHANGED budget
          /\ SetLast(ctl.res.code)
      BY <1>4 DEF LoopConditionDone, Returned
    <2>2. ctl.res.code \in 0..1 /\ Top.res.code \in 0..1 /\ Success \in Result /\ Top \in FrameType /\ Top.height \in Nat
      BY <2>1, Facts, ResultsMade, Zenon
    <2>3. shells' \in Seq(ShellType) /\ AlikeShells(shells, shells')
      BY <2>1, <2>2, LastSet DEF SetLast
    <2>4. CASE stack' = Front(stack) /\ Done(LoopResult(Top, "none", 0))
      <3>1. LoopResult(Top, "none", 0) \in Result /\ Top.kind \in Plain
        BY <2>1, <2>2, ResultsMade, Zenon DEF LoopResult, Plain, Loops
      <3>2. ctl' \in CtlType /\ ctl'.at # "idle"
        BY <2>4, <3>1, Goes
      <3> QED BY <2>1, <2>3, <2>4, <3>1, <3>2, Facts, Returns
    <2>5. CASE Become([Top EXCEPT !.phase = "body"]) /\ Enter(Top.height)
      <3>1. ctl' \in CtlType /\ ctl'.at # "idle" /\ "body" \in Phases /\ 1 \in Nat
        BY <2>2, <2>5, Goes DEF Phases
      <3>2. Same(Top, [Top EXCEPT !.phase = "body"], "body")
        BY <2>1, <2>2, <3>1, FrameChanged, Zenon
      <3> QED BY <2>1, <2>3, <2>5, <3>1, <3>2, Facts, Alters
    <2> QED BY <1>4, <2>4, <2>5 DEF LoopConditionDone
  <1>5. CASE LoopBodyDone
    <2> DEFINE res == ctl.res
    <2> DEFINE f == [Top EXCEPT !.phase = "head", !.res = FromExitCode(res.code)]
    <2> DEFINE here == res.flow \in {"break", "continue"} /\ res.level <= 1
    <2> DEFINE out == IF here THEN LoopResult(f, "none", 0)
                      ELSE LoopResult(f, res.flow, IF res.flow \in {"break", "continue"}
                                                   THEN res.level - 1 ELSE res.level)
    <2>1. /\ ctl.at # "idle" /\ Quiet /\ Top.kind \in Loops /\ Top.phase = "body" /\ UNCHANGED budget
          /\ SetLast(res.code)
      BY <1>5 DEF LoopBodyDone, Returned
    <2>2. /\ IF res.flow = "none" \/ (here /\ res.flow = "continue") THEN Become(f) /\ At("iterate")
             ELSE stack' = Front(stack) /\ Done(out)
      BY <1>5 DEF LoopBodyDone
    <2>3. res \in Result /\ res.code \in 0..1 /\ Top \in FrameType /\ FromExitCode(res.code) \in Result
      BY <2>1, Facts, ResultsMade, Zenon
    <2>4. shells' \in Seq(ShellType) /\ AlikeShells(shells, shells')
      BY <2>1, <2>3, LastSet, Zenon DEF SetLast
    <2>5. Same(Top, f, "head") /\ f.res = FromExitCode(res.code)
      <3>1. "head" \in Phases /\ 1 \in Nat /\ Top.kind \notin {"trap", "pipe"}
        BY <2>1 DEF Phases, Loops
      <3>2. Same(Top, f, "head")
        BY <2>3, <3>1, FrameChanged, Zenon
      <3> QED BY <2>3, <3>2 DEF FrameType
    <2> HIDE DEF f
    <2>6. CASE Become(f) /\ At("iterate")
      <3>1. ctl' \in CtlType /\ ctl'.at # "idle" /\ "head" \in Phases /\ Top.kind # "simple"
        BY <2>1, <2>6, Goes DEF Phases, Loops
      <3> QED BY <2>1, <2>4, <2>5, <2>6, <3>1, Facts, Alters
    <2>7. CASE ~ (res.flow = "none" \/ (here /\ res.flow = "continue")) /\ stack' = Front(stack) /\ Done(out)
      <3>1. f.res.code = res.code
        BY <2>5 DEF FromExitCode, Transfer
      <3>2. out \in Result
        BY <2>3, <2>7, <3>1 DEF LoopResult, Transfer, Result
      <3> HIDE DEF out
      <3>3. ctl' \in CtlType /\ ctl'.at # "idle" /\ Top.kind \in Plain
        BY <2>1, <2>7, <3>2, Goes DEF Plain
      <3> QED BY <2>1, <2>4, <2>7, <3>3, Facts, Returns
    <2> QED BY <2>2, <2>6, <2>7
  <1> QED BY <1>1, <1>2, <1>3, <1>4, <1>5

\* ( ) and the tests.
LEMMA SubshellSteps ==
  ASSUME IInv, OpenSubshell \/ SubshellBodyDone \/ SubshellDone \/ Test
  PROVE  IInv'
  <1>1. CASE OpenSubshell
    <2> DEFINE g == Frame("subshell", "body", ctl.height - 1, 0)
    <2>1. /\ ctl.at # "idle" /\ ctl.height > 0 /\ Quiet /\ UNCHANGED budget
          /\ Push(g) /\ Enter(ctl.height - 1) /\ shells' = Append(shells, Fork)
      BY <1>1 DEF OpenSubshell, Open, Descending, Entering
    <2>2. ctl.height - 1 \in Nat /\ "subshell" \in Kinds /\ "body" \in Phases /\ "subshell" \in Forks
          /\ "subshell" \notin Nests
      BY <2>1, Facts DEF Kinds, Phases, Forks, Nests
    <2>3. /\ g \in FrameType /\ g.kind = "subshell" /\ g.phase = "body"
          /\ g.shell = Len(shells) + One("subshell" \in Forks)
      BY <2>2, FrameMade
    <2> HIDE DEF g
    <2>4. /\ budget \in BudgetType /\ budget' \in LooseBudget /\ budget.nesting <= MaxNestingDepth
      BY <2>1, Facts
    <2>5. Fork \in ShellType /\ Fork.scopes = Shell.scopes /\ ~ Fork.inTrap /\ ~ Fork.expanding
      <3>1. Shell \in ShellType
        BY <2>1, Facts
      <3> QED BY <3>1 DEF Fork, ShellType
    <2>6. budget'.nesting = budget.nesting + One(g.kind \in Nests)
      BY <2>1, <2>2, <2>3, <2>4 DEF One, BudgetType
    <2>7. /\ Taken(shells, shells', budget, budget', g) /\ Forked(shells, shells', g)
          /\ shells' \in Seq(ShellType) /\ Len(shells') = Len(shells) + 1
      BY <2>1, <2>2, <2>3, <2>4, <2>5, <2>6, TakesShell
    <2>8. ctl' \in CtlType /\ ctl'.at # "idle" /\ g.shell = Len(shells')
      BY <2>1, <2>2, <2>3, <2>7, Goes DEF One
    <2> QED BY <2>1, <2>3, <2>4, <2>7, <2>8, Pushes
  <1>2. CASE SubshellBodyDone
    <2> DEFINE waiting == [Top EXCEPT !.phase = "atexit", !.res = ctl.res]
    <2>1. ctl.at # "idle" /\ Quiet /\ Top.kind = "subshell"
      BY <1>2 DEF SubshellBodyDone, Returned
    <2>2. \/ RunTrap("EXIT", Shell.last, waiting)
          \/ Become(waiting) /\ Done(Success) /\ UNCHANGED <<shells, budget>>
      BY <1>2 DEF SubshellBodyDone
    <2>3. Same(Top, waiting, "atexit")
      <3>1. Top \in FrameType /\ "atexit" \in Phases /\ 1 \in Nat /\ ctl.res \in Result
        BY <2>1, Facts DEF Phases
      <3> QED BY <2>1, <3>1, FrameChanged, Zenon
    <2> HIDE DEF waiting
    <2>4. CASE RunTrap("EXIT", Shell.last, waiting)
      <3>1. waiting \in FrameType /\ Alike(Top, waiting)
        BY <2>1, <2>3 DEF Same, Alike
      <3> QED BY <2>1, <2>4, <3>1, Facts, RunsTrap
    <2>5. CASE Become(waiting) /\ Done(Success) /\ UNCHANGED <<shells, budget>>
      <3>1. ctl' \in CtlType /\ ctl'.at # "idle" /\ "atexit" \in Phases
        BY <2>5, Goes, ResultsMade, Zenon DEF Phases
      <3> QED BY <2>1, <2>3, <2>5, <3>1, Facts, Alters
    <2> QED BY <2>2, <2>4, <2>5
  <1>3. CASE SubshellDone
    <2> DEFINE res == Top.res
    <2> DEFINE outer == ShellsAfter(Top)
    <2> DEFINE out == [res EXCEPT !.flow = "none", !.level = 0, !.code = IF res.flow = "exit" THEN res.level ELSE @]
    <2>1. /\ ctl.at # "idle" /\ Quiet /\ Top.kind = "subshell" /\ stack' = Front(stack) /\ UNCHANGED budget
          /\ shells' = [outer EXCEPT ![Len(outer)].last = res.code] /\ Done(out)
      BY <1>3 DEF SubshellDone, Returned, ReturnWith
    <2>2. /\ stack # <<>> /\ stack \in Seq(FrameType) /\ shells \in Seq(ShellType)
          /\ Balanced(stack, shells, budget) /\ res \in Result /\ res.code \in 0..1 /\ budget' \in LooseBudget
      BY <2>1, Facts, ResultsMade, Zenon DEF IInv, TypeOK
    <2>3. BudgetAfter(Top) = budget
      BY <2>1 DEF BudgetAfter, Nests
    <2>4. outer \in Seq(ShellType) /\ Given(shells, outer, budget, budget, Top)
      BY <2>2, <2>3, LeaveGives
    <2> HIDE DEF outer
    <2>5. Balanced(Front(stack), outer, budget)
      BY <2>2, <2>4, TopIs, Popped
    <2>6. Len(outer) \in 1..Len(outer)
      BY <2>4, <2>5, LenProperties DEF Balanced, Ordered
    <2>7. shells' \in Seq(ShellType) /\ AlikeShells(outer, shells')
      BY <2>1, <2>2, <2>4, <2>6, StatusSet
    <2>8. Given(shells, shells', budget, budget', Top)
      BY <2>1, <2>4, <2>7 DEF Given, AlikeShells
    <2>9. out \in Result
      BY <2>2 DEF Result
    <2> HIDE DEF out
    <2>10. ctl' \in CtlType /\ ctl'.at # "idle"
      BY <2>1, <2>9, Goes
    <2> QED BY <2>1, <2>2, <2>7, <2>8, <2>10, Pops
  <1>4. CASE Test
    <2>1. /\ ctl.at # "idle" /\ Quiet /\ UNCHANGED <<stack, shells, budget>>
          /\ (\E c \in 0..1 : Done(FromExitCode(c))) \/ Done(Transfer("exit", 1, 1))
      BY <1>4 DEF Test, Entering
    <2>2. ctl' \in CtlType /\ ctl'.at # "idle"
      <3>1. Transfer("exit", 1, 1) \in Result /\ \A c \in 0..1 : FromExitCode(c) \in Result
        <4>1. "exit" \in {"return", "exit"} /\ 1 \in 0..1
          OBVIOUS
        <4> QED BY <4>1, ResultsMade, Zenon
      <3> QED BY <2>1, <3>1, Goes
    <2> QED BY <2>1, <2>2, Facts, Stays
  <1> QED BY <1>1, <1>2, <1>3, <1>4

\* A simple command up to its dispatch.
LEMMA ExpansionSteps ==
  ASSUME IInv, ExecuteSimple \/ Substitute \/ Substituted \/ ExpansionFails \/ ExpandsToNothing
               \/ Expanded \/ DebugDone
  PROVE  IInv'
  <1>1. CASE ExecuteSimple
    <2>1. ctl.at # "idle" /\ Quiet /\ UNCHANGED shells /\ budget' = [budget EXCEPT !.commands = @ + 1]
      BY <1>1 DEF ExecuteSimple
    <2>2. budget \in BudgetType /\ shells \in Seq(ShellType) /\ Len(shells) \in Nat /\ budget.nesting <= MaxNestingDepth
      BY <2>1, Facts, TopIs
    <2>3. /\ budget' \in LooseBudget /\ AlikeBudgets(budget, budget') /\ budget'.functions = budget.functions
          /\ budget'.nesting = budget.nesting
      BY <2>1, <2>2 DEF BudgetType, LooseBudget, AlikeBudgets
    <2>4. CASE Throw("limit") /\ UNCHANGED stack
      <3>1. ctl' \in CtlType /\ ctl'.at # "idle"
        BY <2>4, Goes
      <3> QED BY <2>1, <2>3, <2>4, <3>1, Facts, Stays
    <2>5. CASE Push(Frame("simple", "words", 0, 0)) /\ At("expand")
      <3> DEFINE g == Frame("simple", "words", 0, 0)
      <3>1. "simple" \in Kinds /\ "simple" \notin Forks \cup Nests \cup {"call", "func", "trap", "pipe"} /\ "words" \in Phases
        BY DEF Kinds, Forks, Nests, Phases
      <3>2. /\ g \in FrameType /\ g.kind = "simple" /\ g.phase = "words"
            /\ g.shell = Len(shells) + One("simple" \in Forks)
        BY <3>1, FrameMade
      <3>3. Push(g)
        BY <2>5
      <3> HIDE DEF g
      <3>4. budget'.nesting = budget.nesting + One(g.kind \in Nests) /\ budget'.nesting <= MaxNestingDepth
        BY <2>2, <2>3, <3>1, <3>2 DEF One, BudgetType
      <3>5. Taken(shells, shells', budget, budget', g) /\ Forked(shells, shells', g)
        BY <2>1, <2>3, <3>1, <3>2, <3>4, TakesNoShell
      <3>6. ctl' \in CtlType /\ ctl'.at # "idle"
        BY <2>5, Goes
      <3>7. g.shell = Len(shells') /\ g.kind # "call"
        BY <2>1, <2>2, <3>1, <3>2 DEF One
      <3> QED BY <2>1, <2>2, <2>3, <3>2, <3>3, <3>5, <3>6, <3>7, Pushes
    <2> QED BY <1>1, <2>4, <2>5 DEF ExecuteSimple
  <1>2. CASE Substitute
    <2>1. ctl.at # "idle" /\ Quiet /\ Top.kind = "simple" /\ Top.phase = "words"
      BY <1>2 DEF Substitute, Expanding, Working
    <2>2. ASSUME UNCHANGED <<stack, shells, budget>>, NEW err \in {"limit", "expired", "escape"}, Throw(err)
          PROVE  IInv'
      <3>1. ctl' \in CtlType /\ ctl'.at # "idle"
        BY <2>2, Goes
      <3> QED BY <2>1, <2>2, <3>1, Facts, Stays
    <2>3. ASSUME budget.nesting < MaxNestingDepth, budget' = [budget EXCEPT !.nesting = @ + 1],
                 NEW n \in 1..MaxScript,
                 PushOn([Top EXCEPT !.phase = "expanded"], Frame("subst", "command", 0, n)),
                 shells' = Append(shells, Fork), At("next")
          PROVE  IInv'
      <3> DEFINE f == [Top EXCEPT !.phase = "expanded"]
      <3> DEFINE g == Frame("subst", "command", 0, n)
      <3>1. "subst" \in Kinds /\ "command" \in Phases /\ n \in Nat /\ "subst" \in Forks /\ "subst" \in Nests
        BY InterpreterAssumption DEF Kinds, Phases, Runs, Forks, Nests
      <3>2. /\ g \in FrameType /\ g.kind = "subst" /\ g.phase = "command"
            /\ g.shell = Len(shells) + One("subst" \in Forks)
        BY <3>1, FrameMade
      <3>3. Same(Top, f, "expanded")
        <4>1. Top \in FrameType /\ "expanded" \in Phases /\ 1 \in Nat /\ Success \in Result
          BY <2>1, Facts, ResultsMade, Zenon DEF Phases
        <4> QED BY <2>1, <4>1, FrameChanged, Zenon
      <3>4. PushOn(f, g)
        BY <2>3
      <3> HIDE DEF f, g
      <3>5. f \in FrameType /\ Alike(Top, f)
        BY <2>1, <3>3 DEF Same, Alike
      <3>6. /\ budget' \in LooseBudget /\ budget'.functions = budget.functions
            /\ budget'.nesting = budget.nesting + One(g.kind \in Nests) /\ budget'.nesting <= MaxNestingDepth
        BY <2>1, <2>3, <3>1, <3>2, Nested DEF One
      <3>7. Fork \in ShellType /\ Fork.scopes = Shell.scopes /\ ~ Fork.inTrap /\ ~ Fork.expanding
        <4>1. Shell \in ShellType
          BY <2>1, Facts
        <4> QED BY <4>1 DEF Fork, ShellType
      <3>8. /\ Taken(shells, shells', budget, budget', g) /\ Forked(shells, shells', g)
            /\ shells' \in Seq(ShellType) /\ Len(shells') = Len(shells) + 1
        BY <2>1, <2>3, <3>1, <3>2, <3>6, <3>7, TakesShell
      <3>9. ctl' \in CtlType /\ ctl'.at # "idle" /\ g.shell = Len(shells')
        BY <2>3, <3>1, <3>2, <3>8, Goes DEF One
      <3> QED BY <2>1, <3>2, <3>4, <3>5, <3>6, <3>8, <3>9, Facts, PushesOn
    <2> QED BY <1>2, <2>2, <2>3 DEF Substitute
  <1>3. CASE Substituted
    <2> DEFINE f == [Top EXCEPT !.res = FromExitCode(ctl.res.code)]
    <2>1. /\ ctl.at # "idle" /\ Quiet /\ Top.kind = "simple" /\ Top.phase = "expanded"
          /\ UNCHANGED <<shells, budget>> /\ Become(f) /\ At("expand")
      BY <1>3 DEF Substituted, Returned
    <2>2. ctl.res.code \in 0..1 /\ Top \in FrameType
      BY <2>1, Facts, ResultsMade, Zenon
    <2>3. FromExitCode(ctl.res.code) \in Result /\ "expanded" \in Phases /\ 1 \in Nat
      BY <2>2, ResultsMade, Zenon DEF Phases
    <2>4. Same(Top, f, "expanded")
      BY <2>1, <2>2, <2>3, FrameChanged, Zenon
    <2> HIDE DEF f
    <2>5. ctl' \in CtlType /\ ctl'.at # "idle"
      BY <2>1, Goes
    <2> QED BY <2>1, <2>3, <2>4, <2>5, Facts, Alters
  <1>4. CASE ExpansionFails
    <2>1. ctl.at # "idle" /\ Quiet /\ UNCHANGED <<stack, shells, budget>> /\ Throw("denied")
      BY <1>4 DEF ExpansionFails, Expanding, Working
    <2>2. ctl' \in CtlType /\ ctl'.at # "idle"
      BY <2>1, Goes
    <2> QED BY <2>1, <2>2, Facts, Stays
  <1>5. CASE ExpandsToNothing
    <2>1. ctl.at # "idle" /\ Quiet /\ Top.kind # "call" /\ Leave /\ Done(Top.res)
      BY <1>5 DEF ExpandsToNothing, Expanding, Working, Return
    <2>2. ctl' \in CtlType /\ ctl'.at # "idle"
      BY <2>1, Facts, Goes
    <2> QED BY <2>1, <2>2, Facts, Leaves
  <1>6. ASSUME ctl.at # "idle", Quiet, Top.kind = "simple", Top.phase # "alias",
               Become([Top EXCEPT !.phase = "dispatch"]), At("dispatch"), UNCHANGED <<shells, budget>>
        PROVE  IInv'
    <2>1. Top \in FrameType /\ "dispatch" \in Phases /\ 1 \in Nat /\ Success \in Result
      BY <1>6, Facts, ResultsMade, Zenon DEF Phases
    <2>2. Same(Top, [Top EXCEPT !.phase = "dispatch"], "dispatch")
      BY <1>6, <2>1, FrameChanged, Zenon
    <2>3. ctl' \in CtlType /\ ctl'.at # "idle"
      BY <1>6, Goes
    <2> QED BY <1>6, <2>1, <2>2, <2>3, Facts, Alters
  <1>7. CASE Expanded
    <2> DEFINE waiting == [Top EXCEPT !.phase = "debug"]
    <2>1. ctl.at # "idle" /\ Quiet /\ Top.kind = "simple" /\ Top.phase # "alias"
      BY <1>7 DEF Expanded, Expanding, Working
    <2>2. CASE RunTrap("DEBUG", Shell.last, waiting)
      <3>1. Same(Top, waiting, "debug")
        <4>1. Top \in FrameType /\ "debug" \in Phases /\ 1 \in Nat /\ Success \in Result
          BY <2>1, Facts, ResultsMade, Zenon DEF Phases
        <4> QED BY <2>1, <4>1, FrameChanged, Zenon
      <3> HIDE DEF waiting
      <3>2. waiting \in FrameType /\ Alike(Top, waiting)
        BY <2>1, <3>1 DEF Same, Alike
      <3> QED BY <2>1, <2>2, <3>2, Facts, RunsTrap
    <2> QED BY <1>6, <1>7, <2>1, <2>2 DEF Expanded
  <1>8. CASE DebugDone
    BY <1>6, <1>8 DEF DebugDone, Returned
  <1> QED BY <1>1, <1>2, <1>3, <1>4, <1>5, <1>7, <1>8

\* The builtins.
LEMMA BuiltinSteps ==
  ASSUME IInv, Builtin \/ ExitOrReturn \/ BreakOrContinue \/ SetErrExit \/ Trap \/ SimpleDone
  PROVE  IInv'
  <1>1. ASSUME ctl.at # "idle", Quiet, Top.kind # "call", NEW res \in Result, Return(res)
        PROVE  IInv'
    <2>1. Leave /\ Done(res)
      BY <1>1 DEF Return
    <2>2. ctl' \in CtlType /\ ctl'.at # "idle"
      BY <2>1, Goes
    <2> QED BY <1>1, <2>1, <2>2, Facts, Leaves
  <1>2. CASE Builtin
    <2>1. PICK c \in 0..1 : Dispatch /\ Return(FromExitCode(c)) /\ Quiet
      BY <1>2 DEF Builtin
    <2>2. FromExitCode(c) \in Result
      BY ResultsMade, Zenon
    <2> QED BY <1>1, <2>1, <2>2 DEF Dispatch, Working
  <1>3. CASE ExitOrReturn
    <2>1. PICK kind \in {"exit", "return"}, c \in 0..1 : Dispatch /\ Quiet /\ Return(Transfer(kind, c, c))
      BY <1>3 DEF ExitOrReturn
    <2>2. Transfer(kind, c, c) \in Result
      BY ResultsMade, Zenon
    <2> QED BY <1>1, <2>1, <2>2 DEF Dispatch, Working
  <1>4. CASE BreakOrContinue
    <2>1. PICK kind \in {"break", "continue"}, level \in 1..MaxLevels :
            Dispatch /\ Quiet /\ Return(Transfer(kind, level, 0))
      BY <1>4 DEF BreakOrContinue
    <2>2. Transfer(kind, level, 0) \in Result
      <3>1. level \in Nat /\ 0 \in 0..1
        BY InterpreterAssumption
      <3> QED BY <3>1, ResultsMade, Zenon
    <2> QED BY <1>1, <2>1, <2>2 DEF Dispatch, Working
  <1>5. ASSUME Dispatch, Quiet, NEW new \in ShellType,
               new.scopes = Shell.scopes, new.inTrap = Shell.inTrap, new.expanding = Shell.expanding,
               ReturnWith(Success, [shells EXCEPT ![Len(shells)] = new])
        PROVE  IInv'
    <2>1. ctl.at # "idle" /\ Top.kind \in Plain /\ Top.phase # "alias"
      BY <1>5 DEF Dispatch, Working, Plain
    <2>2. Shell = shells[Len(shells)] /\ Len(shells) \in 1..Len(shells) /\ shells \in Seq(ShellType)
      BY <2>1, TopIs, Facts
    <2>3. shells' \in Seq(ShellType) /\ AlikeShells(shells, shells')
      BY <1>5, <2>2, ShellSet DEF ReturnWith
    <2>4. stack' = Front(stack) /\ Done(Success) /\ UNCHANGED budget
      BY <1>5 DEF ReturnWith
    <2>5. ctl' \in CtlType /\ ctl'.at # "idle"
      BY <2>4, Goes, ResultsMade, Zenon
    <2> QED BY <1>5, <2>1, <2>3, <2>4, <2>5, Facts, Returns
  <1>6. Dispatch => /\ Shell \in ShellType /\ Shell = shells[Len(shells)] /\ shells \in Seq(ShellType)
                    /\ Len(shells) \in DOMAIN shells
    <2> HAVE Dispatch
    <2>1. ctl.at # "idle"
      BY DEF Dispatch, Working
    <2> QED BY <2>1, Facts, TopIs, LenProperties
  <1>7. CASE SetErrExit
    <2> DEFINE new == [Shell EXCEPT !.errexit = ~ @]
    <2>1. Dispatch /\ Quiet
      BY <1>7 DEF SetErrExit
    <2>2. [shells EXCEPT ![Len(shells)].errexit = ~ @] = [shells EXCEPT ![Len(shells)] = new]
      BY <1>6, <2>1
    <2>3. /\ new \in ShellType /\ new.scopes = Shell.scopes /\ new.inTrap = Shell.inTrap
          /\ new.expanding = Shell.expanding
      BY <1>6, <2>1 DEF ShellType
    <2>4. ReturnWith(Success, [shells EXCEPT ![Len(shells)] = new])
      BY <1>7, <2>2 DEF SetErrExit
    <2> HIDE DEF new
    <2> QED BY <1>5, <2>1, <2>3, <2>4
  <1>8. CASE Trap
    <2>1. Dispatch /\ Quiet
      BY <1>8 DEF Trap
    <2>2. PICK s \in Signals :
            ReturnWith(Success, [shells EXCEPT ![Len(shells)].traps =
                                   IF s \in Shell.traps THEN Shell.traps \ {s} ELSE Shell.traps \cup {s}])
      BY <1>8 DEF Trap
    <2> DEFINE ts == IF s \in Shell.traps THEN Shell.traps \ {s} ELSE Shell.traps \cup {s}
    <2> DEFINE new == [Shell EXCEPT !.traps = ts]
    <2>3. [shells EXCEPT ![Len(shells)].traps = ts] = [shells EXCEPT ![Len(shells)] = new]
      BY <1>6, <2>1
    <2>4. ts \in SUBSET Signals
      BY <1>6, <2>1 DEF ShellType
    <2>5. ReturnWith(Success, [shells EXCEPT ![Len(shells)] = new])
      BY <2>2, <2>3
    <2> HIDE DEF ts
    <2>6. /\ new \in ShellType /\ new.scopes = Shell.scopes /\ new.inTrap = Shell.inTrap
          /\ new.expanding = Shell.expanding
      BY <1>6, <2>1, <2>4 DEF ShellType
    <2> HIDE DEF new
    <2> QED BY <1>5, <2>1, <2>5, <2>6
  <1>9. CASE SimpleDone
    <2>1. ctl.at # "idle" /\ Quiet /\ Top.kind # "call" /\ Return(ctl.res)
      BY <1>9 DEF SimpleDone, Returned
    <2> QED BY <1>1, <2>1, Facts
  <1> QED BY <1>2, <1>3, <1>4, <1>7, <1>8, <1>9

\* An alias being expanded: the top frame is popped, which gives nothing back, and
\* pushed again in the phase that takes the name.
LEMMA AliasStep ==
  ASSUME IInv, ExpandAlias
  PROVE  IInv'
  <1> DEFINE f == [Top EXCEPT !.phase = "alias"]
  <1> DEFINE n == Len(shells)
  <1> DEFINE new == [shells[n] EXCEPT !.expanding = TRUE]
  <1> DEFINE below == Front(stack)
  <1>1. /\ ctl.at # "idle" /\ Quiet /\ Top.kind = "simple" /\ Top.phase = "dispatch" /\ ~ Shell.expanding
        /\ Become(f) /\ UNCHANGED budget /\ At("enter")
        /\ shells' = [shells EXCEPT ![n].expanding = TRUE]
    BY DEF ExpandAlias, Dispatching, Dispatch, Working
  <1>2. /\ stack # <<>> /\ stack \in Seq(FrameType) /\ shells \in Seq(ShellType) /\ Balanced(stack, shells, budget)
        /\ Top \in FrameType /\ Top = stack[Len(stack)] /\ Top.shell = n /\ Len(stack) \in Nat \ {0, 1}
        /\ n \in 1..n /\ n \in Nat /\ shells[n] \in ShellType /\ Shell = shells[n]
        /\ budget \in BudgetType /\ budget' \in LooseBudget
        /\ budget.functions <= MaxFunctionDepth /\ budget.nesting <= MaxNestingDepth
    BY <1>1, Facts, TopIs DEF IInv, TypeOK
  <1>3. Same(Top, f, "alias")
    <2>1. "alias" \in Phases /\ 1 \in Nat /\ Success \in Result
      BY ResultsMade, Zenon DEF Phases
    <2> QED BY <1>1, <1>2, <2>1, FrameChanged, Zenon
  <1>4. shells' = [shells EXCEPT ![n] = new]
    BY <1>1, <1>2, LenProperties
  <1>5. /\ new \in ShellType /\ new.scopes = shells[n].scopes /\ new.inTrap = shells[n].inTrap /\ new.expanding
    BY <1>2 DEF ShellType
  <1> HIDE DEF f, new
  <1>6. /\ shells' \in Seq(ShellType) /\ Len(shells') = n
        /\ \A s \in 1..n : shells'[s] = IF s = n THEN new ELSE shells[s]
        /\ \A s \in 1..n : shells[s] \in ShellType
    BY <1>2, <1>4, <1>5, ExceptSeq, ElementOfSeq
  <1>7. Given(shells, shells, budget, budget, stack[Len(stack)])
    <2>1. Top.kind \notin Forks \cup Nests \cup {"func", "trap"}
      BY <1>1 DEF Forks, Nests
    <2>2. \A s \in 1..n : /\ shells[s].scopes \in Int /\ shells[s].inTrap \in BOOLEAN
                          /\ shells[s].expanding \in BOOLEAN
      BY <1>6 DEF ShellType
    <2> QED BY <1>1, <1>2, <2>1, <2>2 DEF Given, Functions, One, BudgetType
  <1>8. Balanced(below, shells, budget)
    BY <1>2, <1>7, Popped
  <1>9. /\ below \in Seq(FrameType) /\ Len(below) = Len(stack) - 1
        /\ \A i \in 1..(Len(stack) - 1) : below[i] = stack[i]
    BY <1>2, Fronted
  <1> HIDE DEF below
  <1>10. below # <<>>
    BY <1>2, <1>9, EmptySeq
  <1>11. stack' = Append(below, f)
    <2>1. f \in FrameType
      BY <1>3 DEF Same
    <2>2. /\ stack' \in Seq(FrameType) /\ Len(stack') = Len(stack) /\ stack'[Len(stack)] = f
          /\ \A i \in 1..(Len(stack) - 1) : stack'[i] = stack[i]
      BY <1>1, <1>2, <2>1, Replaced DEF Become
    <2>3. /\ Append(below, f) \in Seq(FrameType) /\ Len(Append(below, f)) = Len(stack)
          /\ Append(below, f)[Len(stack)] = f
          /\ \A i \in 1..(Len(stack) - 1) : Append(below, f)[i] = stack[i]
      BY <1>2, <1>9, <2>1, AppendProperties
    <2>4. \A i \in 1..Len(stack) : stack'[i] = Append(below, f)[i]
      BY <1>2, <2>2, <2>3
    <2> QED BY <2>2, <2>3, <2>4, SeqEqual
  <1>12. Taken(shells, shells', budget, budget', f)
    <2>1. f.kind = "simple" /\ f.shell = n /\ f.phase = "alias"
      BY <1>1, <1>2, <1>3 DEF Same
    <2>2. ASSUME NEW s \in 1..n
          PROVE  /\ shells'[s].scopes = shells[s].scopes + Functions(f, s)
                 /\ One(shells'[s].inTrap) = One(shells[s].inTrap) + Handlers(f, s)
                 /\ One(shells'[s].expanding) = One(shells[s].expanding) + Expands(f, s)
      <3>1. Functions(f, s) = 0 /\ Handlers(f, s) = 0 /\ Expands(f, s) = IF s = n THEN 1 ELSE 0
        BY <1>2, <2>1 DEF Functions, Handlers, Expands, One
      <3>2. shells[s].scopes \in Int /\ shells'[s].scopes = shells[s].scopes /\ shells'[s].inTrap = shells[s].inTrap
        BY <1>2, <1>5, <1>6 DEF ShellType
      <3>3. One(shells'[s].expanding) = One(shells[s].expanding) + (IF s = n THEN 1 ELSE 0)
        BY <1>1, <1>2, <1>5, <1>6 DEF One
      <3> QED BY <3>1, <3>2, <3>3 DEF One
    <2> QED BY <1>1, <1>2, <2>1, <2>2 DEF Taken, One, BudgetType, Nests
  <1>13. Forked(shells, shells', f)
    BY <1>1, <1>3, <1>6, <1>2 DEF Forked, Same, Forks, One
  <1>14. f \in FrameType /\ f.kind = "simple" /\ f.shell = Len(shells')
    BY <1>1, <1>2, <1>3, <1>6 DEF Same
  <1>15. Balanced(stack', shells', budget') /\ stack' \in Seq(FrameType) /\ stack' # <<>>
    <2>1. (f.kind = "call") = (below = <<>>)
      BY <1>10, <1>14
    <2>2. Balanced(Append(below, f), shells', budget')
      BY <1>2, <1>6, <1>8, <1>9, <1>12, <1>13, <1>14, <2>1, Pushed
    <2>3. Append(below, f) \in Seq(FrameType) /\ Append(below, f) # <<>>
      BY <1>9, <1>14, AppendProperties
    <2> QED BY <1>11, <2>2, <2>3
  <1>16. ctl' \in CtlType /\ ctl'.at # "idle"
    BY <1>1, Goes
  <1> QED BY <1>1, <1>2, <1>6, <1>15, <1>16, StepKeeps

\* What a command may run: fragments, functions and isolated shells.
LEMMA DispatchSteps ==
  ASSUME IInv, Eval \/ CallFunction \/ FunctionDone \/ RunIsolated
  PROVE  IInv'
  <1>1. CASE Eval
    <2>1. ctl.at # "idle" /\ Quiet /\ UNCHANGED <<stack, shells, budget>> /\ At("enter")
      BY <1>1 DEF Eval, Dispatching, Dispatch, Working
    <2>2. ctl' \in CtlType /\ ctl'.at # "idle"
      BY <2>1, Goes
    <2> QED BY <2>1, <2>2, Facts, Stays
  <1>2. ASSUME ctl.at # "idle", Quiet, UNCHANGED <<stack, shells, budget>>, Throw("limit")
        PROVE  IInv'
    <2>1. ctl' \in CtlType /\ ctl'.at # "idle"
      BY <1>2, Goes
    <2> QED BY <1>2, <2>1, Facts, Stays
  <1>3. CASE CallFunction
    <2> DEFINE g == Frame("func", "body", 0, 0)
    <2> DEFINE n == Len(shells)
    <2> DEFINE new == [shells[n] EXCEPT !.scopes = @ + 1]
    <2>1. ctl.at # "idle" /\ Quiet
      BY <1>3 DEF CallFunction, Dispatching, Dispatch, Working
    <2>2. ASSUME budget.functions < MaxFunctionDepth, budget' = [budget EXCEPT !.functions = @ + 1],
                 shells' = [shells EXCEPT ![n].scopes = @ + 1], Push(g), Enter(MaxHeight)
          PROVE  IInv'
      <3>1. "func" \in Kinds /\ "func" \notin Forks \cup Nests /\ "body" \in Phases
        BY DEF Kinds, Forks, Nests, Phases
      <3>2. g \in FrameType /\ g.kind = "func" /\ g.phase = "body" /\ g.shell = n + One("func" \in Forks)
        BY <3>1, FrameMade
      <3>3. /\ shells \in Seq(ShellType) /\ n \in 1..n /\ n \in Nat /\ shells[n] \in ShellType
            /\ budget \in BudgetType /\ budget.nesting <= MaxNestingDepth /\ MaxFunctionDepth \in Nat
        BY <2>1, Facts, TopIs, InterpreterAssumption
      <3>4. shells' = [shells EXCEPT ![n] = new]
        BY <2>2, <3>3, LenProperties
      <3>5. /\ new \in ShellType /\ new.scopes = shells[n].scopes + 1 /\ new.inTrap = shells[n].inTrap
            /\ new.expanding = shells[n].expanding
        BY <3>3 DEF ShellType
      <3>6. Push(g)
        BY <2>2
      <3> HIDE DEF g, new
      <3>7. /\ shells' \in Seq(ShellType) /\ Len(shells') = n
            /\ \A s \in 1..n : shells'[s] = IF s = n THEN new ELSE shells[s]
            /\ \A s \in 1..n : shells[s] \in ShellType
        BY <3>3, <3>4, <3>5, ExceptSeq, ElementOfSeq
      <3>8. /\ budget' \in LooseBudget /\ budget'.functions = budget.functions + 1
            /\ budget'.functions <= MaxFunctionDepth /\ budget'.nesting = budget.nesting
        <4>1. /\ budget' \in LooseBudget /\ budget'.functions = budget.functions + 1
              /\ budget'.nesting = budget.nesting /\ budget.functions \in Nat
          BY <2>2, <3>3 DEF BudgetType, LooseBudget
        <4> QED BY <2>2, <3>3, <4>1
      <3>9. g.shell = n
        BY <3>1, <3>2, <3>3 DEF One
      <3>10. Taken(shells, shells', budget, budget', g)
        <4>1. ASSUME NEW s \in 1..n
              PROVE  /\ shells'[s].scopes = shells[s].scopes + Functions(g, s)
                     /\ One(shells'[s].inTrap) = One(shells[s].inTrap) + Handlers(g, s)
                     /\ One(shells'[s].expanding) = One(shells[s].expanding) + Expands(g, s)
          <5>1. Handlers(g, s) = 0 /\ Expands(g, s) = 0 /\ Functions(g, s) = IF s = n THEN 1 ELSE 0
            BY <3>2, <3>9 DEF Handlers, Expands, Functions, One
          <5>2. /\ shells'[s].inTrap = shells[s].inTrap /\ shells'[s].expanding = shells[s].expanding
                /\ shells[s].scopes \in Int /\ shells'[s].scopes = shells[s].scopes + (IF s = n THEN 1 ELSE 0)
            BY <3>3, <3>5, <3>7 DEF ShellType
          <5> QED BY <5>1, <5>2 DEF One
        <4> QED BY <3>1, <3>2, <3>3, <3>8, <4>1 DEF Taken, One, BudgetType
      <3>11. Forked(shells, shells', g)
        BY <3>1, <3>2, <3>3, <3>7 DEF Forked, One
      <3>12. ctl' \in CtlType /\ ctl'.at # "idle"
        BY <2>2, Goes, InterpreterAssumption
      <3> QED BY <2>1, <3>2, <3>6, <3>7, <3>8, <3>9, <3>10, <3>11, <3>12, Pushes
    <2>3. budget.functions \in Nat /\ MaxFunctionDepth \in Nat
      <3>1. budget \in BudgetType
        BY <2>1, Facts
      <3> QED BY <3>1, InterpreterAssumption DEF BudgetType
    <2>4. CASE budget.functions >= MaxFunctionDepth
      BY <1>2, <1>3, <2>1, <2>4 DEF CallFunction
    <2>5. CASE ~ (budget.functions >= MaxFunctionDepth)
      <3>1. /\ budget' = [budget EXCEPT !.functions = @ + 1]
            /\ shells' = [shells EXCEPT ![n].scopes = @ + 1] /\ Push(g) /\ Enter(MaxHeight)
        BY <1>3, <2>5 DEF CallFunction
      <3>2. budget.functions < MaxFunctionDepth
        BY <2>3, <2>5
      <3> QED BY <2>2, <3>1, <3>2
    <2> QED BY <2>4, <2>5
  <1>4. CASE FunctionDone
    <2> DEFINE res == ctl.res
    <2> DEFINE out == IF res.flow = "return" THEN [res EXCEPT !.flow = "none", !.level = 0, !.code = res.level]
                      ELSE res
    <2>1. ctl.at # "idle" /\ Quiet /\ Top.kind # "call" /\ Leave /\ Done(out)
      BY <1>4 DEF FunctionDone, Returned, Return
    <2>2. res \in Result
      BY <2>1, Facts
    <2>3. out \in Result
      BY <2>2 DEF Result
    <2> HIDE DEF out
    <2>4. ctl' \in CtlType /\ ctl'.at # "idle"
      BY <2>1, <2>3, Goes
    <2> QED BY <2>1, <2>4, Facts, Leaves
  <1>5. CASE RunIsolated
    <2>1. ctl.at # "idle" /\ Quiet
      BY <1>5 DEF RunIsolated, Dispatching, Dispatch, Working
    <2>2. ASSUME budget.nesting < MaxNestingDepth, budget' = [budget EXCEPT !.nesting = @ + 1],
                 NEW n \in 1..MaxScript, Push(Frame("isolated", "command", 0, n)),
                 shells' = Append(shells, FreshShell), At("next")
          PROVE  IInv'
      <3> DEFINE g == Frame("isolated", "command", 0, n)
      <3>1. /\ "isolated" \in Kinds /\ "command" \in Phases /\ n \in Nat
            /\ "isolated" \in Forks /\ "isolated" \in Nests
        BY InterpreterAssumption DEF Kinds, Phases, Runs, Forks, Nests
      <3>2. /\ g \in FrameType /\ g.kind = "isolated" /\ g.phase = "command"
            /\ g.shell = Len(shells) + One("isolated" \in Forks)
        BY <3>1, FrameMade
      <3>3. Push(g)
        BY <2>2
      <3> HIDE DEF g
      <3>4. /\ budget' \in LooseBudget /\ budget'.functions = budget.functions
            /\ budget'.nesting = budget.nesting + One(g.kind \in Nests) /\ budget'.nesting <= MaxNestingDepth
        BY <2>1, <2>2, <3>1, <3>2, Nested DEF One
      <3>5. FreshShell \in ShellType /\ FreshShell.scopes = 1 /\ ~ FreshShell.inTrap /\ ~ FreshShell.expanding
        BY DEF FreshShell, ShellType
      <3>6. /\ Taken(shells, shells', budget, budget', g) /\ Forked(shells, shells', g)
            /\ shells' \in Seq(ShellType) /\ Len(shells') = Len(shells) + 1
        BY <2>1, <2>2, <3>1, <3>2, <3>4, <3>5, TakesShell
      <3>7. ctl' \in CtlType /\ ctl'.at # "idle" /\ g.shell = Len(shells')
        BY <2>2, <3>1, <3>2, <3>6, Goes DEF One
      <3> QED BY <2>1, <3>2, <3>3, <3>4, <3>6, <3>7, Pushes
    <2> QED BY <1>2, <1>5, <2>1, <2>2 DEF RunIsolated
  <1> QED BY <1>1, <1>3, <1>4, <1>5

\* Exceptions, caught by the command they belong to or passed on.
LEMMA ThrowSteps ==
  ASSUME IInv, Catch \/ Unwind
  PROVE  IInv'
  <1>1. CASE Catch
    <2> DEFINE res == IF Top.phase = "dispatch" THEN FromExitCode(1) ELSE Transfer("exit", 1, 1)
    <2>1. ctl.at # "idle" /\ Quiet /\ Top.kind # "call" /\ Leave /\ Done(res)
      BY <1>1 DEF Catch, Working, Return
    <2>2. res \in Result
      <3>1. "exit" \in {"return", "exit"} /\ 1 \in 0..1
        OBVIOUS
      <3> QED BY <3>1, ResultsMade, Zenon
    <2> HIDE DEF res
    <2>3. ctl' \in CtlType /\ ctl'.at # "idle"
      BY <2>1, <2>2, Goes
    <2> QED BY <2>1, <2>3, Facts, Leaves
  <1>2. CASE Unwind
    <2>1. ctl.at # "idle" /\ Quiet /\ Top.kind # "call" /\ Leave /\ UNCHANGED ctl /\ ctl \in CtlType
      BY <1>2 DEF Unwind, IInv, TypeOK
    <2> QED BY <2>1, Facts, Leaves
  <1> QED BY <1>1, <1>2

\* What the host and the clock do.
LEMMA HostSteps ==
  ASSUME IInv, BeginCall \/ RejectScript \/ Interrupt
  PROVE  IInv'
  <1>1. TypeOK /\ Balanced(stack, shells, budget) /\ (ctl.at = "idle" <=> stack = <<>>)
    BY DEF IInv
  <1>2. CASE BeginCall
    <2>1. PICK n \in 1..MaxScript : Push(Frame("call", "command", 0, n))
      BY <1>2 DEF BeginCall
    <2> DEFINE g == Frame("call", "command", 0, n)
    <2>2. /\ stack = <<>> /\ stack \in Seq(FrameType) /\ shells \in Seq(ShellType) /\ UNCHANGED <<shells, outcome>>
          /\ budget' = [commands |-> 0, loops |-> 0, functions |-> 0, nesting |-> 0]
          /\ At("next") /\ calls' = calls + 1 /\ clock' = "running"
      BY <1>1, <1>2 DEF BeginCall, TypeOK
    <2>3. "call" \in Kinds /\ "call" \notin Forks \cup Nests /\ "command" \in Phases /\ n \in Nat
      BY InterpreterAssumption DEF Kinds, Forks, Nests, Phases, Runs
    <2>4. /\ g \in FrameType /\ g.kind = "call" /\ g.phase = "command"
          /\ g.shell = Len(shells) + One("call" \in Forks)
      BY <2>3, FrameMade
    <2>5. Push(g)
      BY <2>1
    <2> HIDE DEF g
    <2>6. \A X : Count(stack, X) = 0
      <3> TAKE X
      <3>1. Marks(stack, X) = {}
        BY <2>2 DEF Marks
      <3> QED BY <3>1, FS_EmptySet DEF Count
    <2>7. budget.functions = 0 /\ budget.nesting = 0 /\ Len(shells) = 1
      BY <1>1, <2>2, <2>6 DEF Balanced, Deep, Ordered
    <2>8. 0 <= MaxFunctionDepth /\ 0 <= MaxNestingDepth
      BY InterpreterAssumption
    <2>9. /\ Taken(shells, shells', budget, budget', g) /\ Forked(shells, shells', g)
      <3>1. \A s \in 1..Len(shells) : Functions(g, s) = 0 /\ Handlers(g, s) = 0 /\ Expands(g, s) = 0
        BY <2>4 DEF Functions, Handlers, Expands, One
      <3>2. shells[1] \in ShellType
        <4>1. 1 \in 1..Len(shells)
          BY <2>7
        <4> QED BY <2>2, <4>1, ElementOfSeq
      <3> QED BY <2>2, <2>3, <2>4, <2>7, <2>8, <3>1, <3>2 DEF Taken, Forked, One, ShellType
    <2>10. g.shell = Len(shells')
      BY <2>2, <2>3, <2>4, <2>7 DEF One
    <2>11. Balanced(stack', shells', budget')
      BY <1>1, <2>2, <2>4, <2>5, <2>9, <2>10, Pushed DEF Push
    <2>12. stack' \in Seq(FrameType) /\ stack' # <<>>
      BY <2>2, <2>4, <2>5, AppendProperties DEF Push
    <2>13. ctl' \in CtlType /\ ctl'.at = "next"
      BY <2>2, Goes
    <2> QED BY <1>1, <2>2, <2>11, <2>12, <2>13 DEF IInv, TypeOK
  <1>3. CASE RejectScript
    BY <1>1, <1>3 DEF IInv, TypeOK, RejectScript
  <1>4. CASE Interrupt
    <2>1. clock' \in {"running", "timedout", "cancelled"}
      BY <1>4 DEF Interrupt
    <2> QED BY <1>1, <1>4, <2>1 DEF IInv, TypeOK, Interrupt
  <1> QED BY <1>2, <1>3, <1>4

\* A host that has made no call yet.
LEMMA InitBalanced == Init => IInv
  <1> SUFFICES ASSUME Init PROVE IInv
    OBVIOUS
  <1>1. Success \in Result /\ FreshShell \in ShellType
    <2>1. FreshShell \in ShellType
      BY DEF FreshShell, ShellType
    <2> QED BY <2>1, ResultsMade, Zenon
  <1>2. TypeOK
    BY <1>1 DEF Init, TypeOK, CtlType
  <1>3. \A X : Count(stack, X) = 0
    <2> TAKE X
    <2>1. Marks(stack, X) = {}
      BY DEF Marks, Init
    <2> QED BY <2>1, FS_EmptySet DEF Count
  <1>4. stack = <<>> /\ Len(stack) = 0 /\ Len(shells) = 1 /\ shells[1] = FreshShell
    BY DEF Init
  <1>5. Ordered(stack, shells)
    BY <1>4 DEF Ordered
  <1>6. Deep(stack, budget)
    <2>1. 0 <= MaxFunctionDepth /\ 0 <= MaxNestingDepth
      BY InterpreterAssumption
    <2> QED BY <1>3, <2>1 DEF Deep, Init
  <1>7. Scoped(stack, shells) /\ Flagged(stack, shells)
    BY <1>3, <1>4 DEF Scoped, Flagged, FreshShell, One
  <1> QED BY <1>2, <1>4, <1>5, <1>6, <1>7 DEF IInv, Balanced, Init

\* Every step keeps the invariant.
LEMMA StepBalanced == IInv /\ [Next]_vars => IInv'
  <1> SUFFICES ASSUME IInv, [Next]_vars PROVE IInv'
    OBVIOUS
  <1>1. CASE Step
    BY <1>1, ScriptSteps, CallEnds, FragmentSteps, ListSteps, LoopSteps, SubshellSteps,
       ExpansionSteps, BuiltinSteps, AliasStep, DispatchSteps, ThrowSteps, Zenon DEF Step
  <1>2. CASE UNCHANGED vars
    BY <1>2 DEF vars, IInv, TypeOK, Balanced
  <1> QED BY <1>1, <1>2, HostSteps DEF Next

\* The state always has the shape the interpreter expects.
THEOREM TypeCorrect == Spec => []TypeOK
  <1>1. IInv => TypeOK
    BY DEF IInv
  <1> QED BY InitBalanced, StepBalanced, <1>1, PTL DEF Spec

\* However a frame is left - result, limit, error, cancellation - the depth counters
\* of ExecutionBudget count the scopes that are open and stay within their limits.
THEOREM DepthsBalancedCorrect == Spec => []DepthsBalanced
  <1>1. IInv => DepthsBalanced
    BY BalancedMeans DEF IInv
  <1> QED BY InitBalanced, StepBalanced, <1>1, PTL DEF Spec

\* Every shell has the variable scopes it was born with and one for each function it
\* is in, and there is one shell for each open fork.
THEOREM ScopesBalancedCorrect == Spec => []ScopesBalanced
  <1>1. IInv => ScopesBalanced
    BY BalancedMeans DEF IInv
  <1> QED BY InitBalanced, StepBalanced, <1>1, PTL DEF Spec

\* InTrap and AliasesInProgress say what a shell is doing, so that neither its traps
\* nor its aliases are dead once the handler or the expansion was cut short.
THEOREM FlagsHonestCorrect == Spec => []FlagsHonest
  <1>1. IInv => FlagsHonest
    BY BalancedMeans DEF IInv
  <1> QED BY InitBalanced, StepBalanced, <1>1, PTL DEF Spec
-----------------------------------------------------------------------------
\* ---- the status of the host's call ----

\* What becomes of the top frame when it stays: it is of the same kind, a handler
\* keeps the status to put back, and the host's call is not over yet.
Continues(f) ==
  /\ f.kind = Top.kind
  /\ Top.kind = "trap" => f.n = Top.n
  /\ Top.kind = "call" => f.phase # "atexit"

\* The moves on the stack that do not end the host's call.
Moves ==
  \/ stack' = stack
  \/ \E g : stack' = Append(stack, g)
  \/ \E f : Continues(f) /\ stack' = [stack EXCEPT ![Len(stack)] = f]
  \/ \E f, g : Continues(f) /\ stack' = Append([stack EXCEPT ![Len(stack)] = f], g)
  \/ /\ stack' = Front(stack) /\ Top.kind # "call"
     /\ Top.kind = "trap" => shells' = ShellsAfter(Top) /\ ctl'.at \in {"done", "throw"}

\* The host's call has run its EXIT handler, or is about to fail.
CallIsOver == Top.kind = "call" /\ Top.phase = "atexit" /\ ctl.at \in {"done", "throw"}

\* A frame whose phase, count or result changes continues, if it is no handler and
\* its call goes on.
LEMMA FrameContinues ==
  ASSUME Top \in FrameType, Top.kind # "trap", NEW phase, Top.kind = "call" => phase # "atexit",
         NEW n, NEW res
  PROVE  /\ Continues([Top EXCEPT !.phase = phase])
         /\ Continues([Top EXCEPT !.phase = phase, !.res = res])
         /\ Continues([Top EXCEPT !.n = n, !.phase = phase])
         /\ Continues([Top EXCEPT !.phase = phase, !.n = n, !.res = res])
         /\ Top.phase # "atexit" \/ Top.kind # "call" =>
              /\ Continues([Top EXCEPT !.n = n])
              /\ Continues([Top EXCEPT !.res = res])
              /\ Continues([Top EXCEPT !.n = n, !.res = res])
  <1>1. Top \in [kind : Kinds, phase : Phases, height : Nat, n : Nat, res : Result, shell : Nat \ {0}]
    BY DEF FrameType, Kinds, Phases
  <1> QED BY <1>1 DEF Continues

\* A handler is started on a frame that continues.
LEMMA TrapMoves ==
  ASSUME NEW signal, NEW status, NEW waiting, Continues(waiting), RunTrap(signal, status, waiting)
  PROVE  Moves
  BY DEF RunTrap, PushOn, Moves

\* The steps that enter a command, or fail to.
LEMMA EnteringMoves ==
  ASSUME \/ EnterFragment \/ NodeExpired \/ OpenList \/ OpenPipeline \/ OpenIf \/ OpenLoop
         \/ OpenSubshell \/ Test \/ ExecuteSimple \/ ExpansionFails \/ Eval \/ CallFunction \/ RunIsolated
  PROVE  ~ CallIsOver /\ Moves
  <1>1. CASE EnterFragment
    BY <1>1 DEF EnterFragment, Push, Moves, CallIsOver
  <1>2. CASE NodeExpired \/ Test \/ ExpansionFails \/ Eval
    BY <1>2 DEF NodeExpired, Test, Entering, ExpansionFails, Expanding, Working, Eval, Dispatching,
                Dispatch, Moves, CallIsOver
  <1>3. CASE OpenList \/ OpenPipeline \/ OpenIf \/ OpenSubshell
    BY <1>3 DEF OpenList, OpenPipeline, OpenIf, OpenSubshell, Open, Descending, Entering, Push, Moves, CallIsOver
  <1>4. CASE OpenLoop
    BY <1>4 DEF OpenLoop, Descending, Entering, Push, Moves, CallIsOver
  <1>5. CASE ExecuteSimple
    BY <1>5 DEF ExecuteSimple, Push, Moves, CallIsOver
  <1>6. CASE CallFunction \/ RunIsolated
    BY <1>6 DEF CallFunction, RunIsolated, Dispatching, Dispatch, Working, Push, Moves, CallIsOver
  <1> QED BY <1>1, <1>2, <1>3, <1>4, <1>5, <1>6

\* The steps that leave a frame.
LEMMA LeavingMoves ==
  ASSUME \/ TrapDone \/ FinishFragment \/ SubstitutionDone \/ RightDone \/ BranchDone \/ ItemsExhausted
         \/ SubshellDone \/ ExpandsToNothing \/ Builtin \/ ExitOrReturn \/ BreakOrContinue
         \/ SetErrExit \/ Trap \/ FunctionDone \/ SimpleDone \/ Catch \/ Unwind
  PROVE  ~ CallIsOver /\ Moves
  <1>1. CASE TrapDone
    BY <1>1 DEF TrapDone, Returned, Return, Leave, Done, Go, Moves, CallIsOver
  <1>2. CASE FinishFragment \/ SubstitutionDone \/ BranchDone \/ FunctionDone \/ SimpleDone
    BY <1>2 DEF FinishFragment, SubstitutionDone, BranchDone, FunctionDone, SimpleDone, Returned, Working,
                Return, Leave, Moves, CallIsOver
  <1>3. CASE ItemsExhausted \/ ExpandsToNothing
    BY <1>3 DEF ItemsExhausted, ExpandsToNothing, Expanding, Working, Return, Leave, Moves, CallIsOver
  <1>4. CASE RightDone
    BY <1>4 DEF RightDone, Returned, ReturnWith, Lists, Moves, CallIsOver
  <1>5. CASE SubshellDone
    BY <1>5 DEF SubshellDone, Returned, ReturnWith, Moves, CallIsOver
  <1>6. CASE Builtin \/ ExitOrReturn \/ BreakOrContinue
    BY <1>6 DEF Builtin, ExitOrReturn, BreakOrContinue, Dispatch, Working, Return, Leave, Moves, CallIsOver
  <1>7. CASE SetErrExit \/ Trap
    BY <1>7 DEF SetErrExit, Trap, Dispatch, Working, ReturnWith, Moves, CallIsOver
  <1>8. CASE Catch
    BY <1>8 DEF Catch, Working, Return, Leave, Moves, CallIsOver
  <1>9. CASE Unwind
    BY <1>9 DEF Unwind, Leave, Moves, CallIsOver
  <1> QED BY <1>1, <1>2, <1>3, <1>4, <1>5, <1>6, <1>7, <1>8, <1>9

\* The steps of the script and of its lists after which their frame goes on.
LEMMA ScriptMoves ==
  ASSUME IInv, ctl.at # "idle", Top.kind = "call" /\ Top.phase = "atexit" => ctl.at \in {"done", "throw"},
         NextCommand \/ CommandDone \/ CommandErrDone \/ LeftDone \/ LeftErrDone
  PROVE  ~ CallIsOver /\ Moves
  <1>1. Top \in FrameType
    BY Facts
  <1>2. Lists \cap {"trap", "call"} = {} /\ "trap" \notin Runs
    BY DEF Lists, Runs
  <1>3. ASSUME NEW res, AfterCommand(res), Top.kind \in Runs
        PROVE  Moves
    BY <1>1, <1>2, <1>3, FrameContinues DEF AfterCommand, Become, Moves
  <1>4. ASSUME NEW res, AfterLeft(res), Top.kind \in Lists
        PROVE  Moves
    BY <1>1, <1>2, <1>4, FrameContinues DEF AfterLeft, Become, Moves
  <1>5. ASSUME NEW res, RunErrTrap(res), Top.kind # "trap"
        PROVE  Moves
    <2>1. Continues([Top EXCEPT !.phase = "err", !.res = Marked(res)])
      BY <1>1, <1>5, FrameContinues
    <2> QED BY <1>5, <2>1, TrapMoves DEF RunErrTrap
  <1>6. CASE NextCommand
    <2>1. Continues([Top EXCEPT !.n = @ - 1])
      <3>1. Top.kind # "trap" /\ (Top.phase # "atexit" \/ Top.kind # "call")
        BY <1>2, <1>6 DEF NextCommand, Working
      <3> QED BY <1>1, <3>1, FrameContinues
    <2> QED BY <1>6, <2>1 DEF NextCommand, Working, Become, Moves, CallIsOver
  <1>7. CASE CommandDone \/ CommandErrDone
    BY <1>2, <1>3, <1>5, <1>7 DEF CommandDone, CommandErrDone, Returned, CallIsOver
  <1>8. CASE LeftDone \/ LeftErrDone
    BY <1>2, <1>4, <1>5, <1>8 DEF LeftDone, LeftErrDone, Returned, CallIsOver
  <1> QED BY <1>6, <1>7, <1>8

\* The steps of the compound commands after which their frame goes on.
LEMMA CompoundMoves ==
  ASSUME IInv, ctl.at # "idle",
         StageDone \/ ConditionDone \/ Iterate \/ LoopConditionDone \/ LoopBodyDone \/ SubshellBodyDone
  PROVE  ~ CallIsOver /\ Moves
  <1>1. Top \in FrameType
    BY Facts
  <1>2. Top.kind # "trap" /\ Top.kind # "call"
    BY DEF StageDone, ConditionDone, Iterate, LoopConditionDone, LoopBodyDone, SubshellBodyDone,
           Returned, Working, Loops
  <1>3. \A phase, n, res : /\ Continues([Top EXCEPT !.phase = phase])
                           /\ Continues([Top EXCEPT !.phase = phase, !.res = res])
                           /\ Continues([Top EXCEPT !.n = n, !.phase = phase])
                           /\ Continues([Top EXCEPT !.n = n, !.res = res])
    BY <1>1, <1>2, FrameContinues
  <1>4. CASE StageDone
    BY <1>2, <1>3, <1>4 DEF StageDone, ReturnWith, Become, Moves, CallIsOver
  <1>5. CASE ConditionDone
    BY <1>2, <1>3, <1>5 DEF ConditionDone, Become, Moves, CallIsOver
  <1>6. CASE Iterate
    BY <1>2, <1>3, <1>6 DEF Iterate, Become, Moves, CallIsOver
  <1>7. CASE LoopConditionDone
    BY <1>2, <1>3, <1>7 DEF LoopConditionDone, Become, Moves, CallIsOver
  <1>8. CASE LoopBodyDone
    BY <1>2, <1>3, <1>8 DEF LoopBodyDone, Become, Moves, CallIsOver
  <1>9. CASE SubshellBodyDone
    <2>1. Continues([Top EXCEPT !.phase = "atexit", !.res = ctl.res])
      BY <1>3
    <2> QED BY <1>2, <1>9, <2>1, TrapMoves DEF SubshellBodyDone, Become, Moves, CallIsOver
  <1> QED BY <1>4, <1>5, <1>6, <1>7, <1>8, <1>9

\* The steps of a simple command after which its frame goes on.
LEMMA SimpleMoves ==
  ASSUME IInv, ctl.at # "idle", Substitute \/ Substituted \/ Expanded \/ DebugDone \/ ExpandAlias
  PROVE  ~ CallIsOver /\ Moves
  <1>1. Top \in FrameType
    BY Facts
  <1>2. Top.kind # "trap" /\ Top.kind # "call"
    BY DEF Substitute, Substituted, Expanded, DebugDone, ExpandAlias, Expanding, Dispatching, Dispatch,
           Returned, Working
  <1>3. \A phase, res : /\ Continues([Top EXCEPT !.phase = phase])
                        /\ Continues([Top EXCEPT !.res = res])
    BY <1>1, <1>2, FrameContinues
  <1>4. CASE Substitute
    BY <1>2, <1>3, <1>4 DEF Substitute, PushOn, Moves, CallIsOver
  <1>5. CASE Substituted
    BY <1>2, <1>3, <1>5 DEF Substituted, Become, Moves, CallIsOver
  <1>6. CASE Expanded
    BY <1>2, <1>3, <1>6, TrapMoves DEF Expanded, Become, Moves, CallIsOver
  <1>7. CASE DebugDone \/ ExpandAlias
    BY <1>2, <1>3, <1>7 DEF DebugDone, ExpandAlias, Become, Moves, CallIsOver
  <1> QED BY <1>4, <1>5, <1>6, <1>7

\* The interpreter takes no step while it is idle.
LEMMA IdleSteps == Step => ctl.at # "idle"
  <1>1. NextCommand \/ CommandDone \/ CommandErrDone \/ FinishFragment \/ FinishShell
        \/ SubstitutionDone \/ CallDone \/ EnterFragment \/ TrapDone \/ CallFails => ctl.at # "idle"
    BY DEF NextCommand, CommandDone, CommandErrDone, FinishFragment, FinishShell, SubstitutionDone,
           CallDone, EnterFragment, TrapDone, CallFails, Working, Returned
  <1>2. NodeExpired \/ OpenList \/ LeftDone \/ LeftErrDone \/ RightDone \/ OpenPipeline \/ StageDone
        \/ OpenIf \/ ConditionDone \/ BranchDone => ctl.at # "idle"
    BY DEF NodeExpired, OpenList, LeftDone, LeftErrDone, RightDone, OpenPipeline, StageDone, OpenIf,
           ConditionDone, BranchDone, Open, Descending, Entering, Returned
  <1>3. OpenLoop \/ Iterate \/ ItemsExhausted \/ LoopConditionDone \/ LoopBodyDone \/ OpenSubshell
        \/ SubshellBodyDone \/ SubshellDone \/ Test \/ ExecuteSimple => ctl.at # "idle"
    BY DEF OpenLoop, Iterate, ItemsExhausted, LoopConditionDone, LoopBodyDone, OpenSubshell,
           SubshellBodyDone, SubshellDone, Test, ExecuteSimple, Open, Descending, Entering, Working, Returned
  <1>4. Substitute \/ Substituted \/ ExpansionFails \/ ExpandsToNothing \/ Expanded \/ DebugDone
        \/ Builtin \/ ExitOrReturn \/ BreakOrContinue => ctl.at # "idle"
    BY DEF Substitute, Substituted, ExpansionFails, ExpandsToNothing, Expanded, DebugDone, Builtin,
           ExitOrReturn, BreakOrContinue, Expanding, Dispatch, Working, Returned
  <1>5. SetErrExit \/ Trap \/ Eval \/ ExpandAlias \/ CallFunction \/ FunctionDone \/ RunIsolated
        \/ SimpleDone \/ Catch \/ Unwind => ctl.at # "idle"
    BY DEF SetErrExit, Trap, Eval, ExpandAlias, CallFunction, FunctionDone, RunIsolated, SimpleDone,
           Catch, Unwind, Dispatching, Dispatch, Working, Returned
  <1> QED BY <1>1, <1>2, <1>3, <1>4, <1>5, Zenon DEF Step

\* Every step is one of these moves, or has to do with the end of the host's call.
LEMMA StepMoves ==
  ASSUME IInv, Step, Top.kind = "call" /\ Top.phase = "atexit" => ctl.at \in {"done", "throw"}
  PROVE  \/ FinishShell \/ CallDone \/ CallFails
         \/ ctl.at # "idle" /\ ~ CallIsOver /\ Moves
  <1>1. ctl.at # "idle"
    BY IdleSteps
  <1> QED BY <1>1, EnteringMoves, LeavingMoves, ScriptMoves, CompoundMoves, SimpleMoves DEF Step

\* While the host's call waits for its EXIT handler, that handler is to put back the
\* status the call reports; after it, the shell's status is that one.
Awaited ==
  stack # <<>> /\ stack[1].phase = "atexit" =>
    IF Len(stack) = 1 THEN ctl.at = "throw" \/ (ctl.at = "done" /\ shells[1].last = stack[1].res.code)
    ELSE stack[2].kind = "trap" /\ stack[2].n = stack[1].res.code
Ending == StatusReported /\ Awaited

\* What a move on the stack keeps of the frames.
LEMMA MovesKeep ==
  ASSUME IInv, IInv', stack # <<>>, Moves
  PROVE  /\ Len(stack) \in Nat \ {0} /\ Len(stack') \in Nat \ {0}
         /\ Len(stack') >= Len(stack) - 1
         /\ \A i \in 1..(Len(stack) - 1) : stack'[i] = stack[i]
         /\ Len(stack') >= Len(stack) =>
              \/ stack'[Len(stack)] = Top
              \/ Continues(stack'[Len(stack)])
         /\ Len(stack') < Len(stack) =>
              /\ stack' = Front(stack) /\ Top.kind # "call"
              /\ Top.kind = "trap" => shells' = ShellsAfter(Top) /\ ctl'.at \in {"done", "throw"}
  <1>1. /\ stack \in Seq(FrameType) /\ stack' \in Seq(FrameType)
        /\ Len(stack) \in Nat \ {0} /\ Top = stack[Len(stack)] /\ Len(stack) \in 1..Len(stack)
    BY TopIs DEF IInv, TypeOK
  <1>2. (Top.kind = "call") = (Len(stack) = 1)
    BY TopIs
  <1>3. CASE stack' = stack
    BY <1>1, <1>3
  <1>4. ASSUME NEW g, stack' = Append(stack, g)
        PROVE  /\ Len(stack') = Len(stack) + 1
               /\ \A i \in 1..Len(stack) : stack'[i] = stack[i]
    <2>1. stack \in Seq(FrameType \cup {g}) /\ g \in FrameType \cup {g}
      BY <1>1, SeqMonotonic
    <2> QED BY <1>4, <2>1, AppendProperties
  <1>5. ASSUME NEW f, NEW t, t = [stack EXCEPT ![Len(stack)] = f]
        PROVE  /\ t \in Seq(FrameType \cup {f}) /\ Len(t) = Len(stack) /\ t[Len(stack)] = f
               /\ \A i \in 1..(Len(stack) - 1) : t[i] = stack[i]
    <2>1. stack \in Seq(FrameType \cup {f}) /\ f \in FrameType \cup {f}
      BY <1>1, SeqMonotonic
    <2> QED BY <1>1, <1>5, <2>1, ExceptSeq
  <1>6. ASSUME NEW f, NEW g, stack' = Append([stack EXCEPT ![Len(stack)] = f], g)
        PROVE  /\ Len(stack') = Len(stack) + 1 /\ stack'[Len(stack)] = f
               /\ \A i \in 1..(Len(stack) - 1) : stack'[i] = stack[i]
    <2> DEFINE t == [stack EXCEPT ![Len(stack)] = f]
    <2>1. /\ t \in Seq(FrameType \cup {f}) /\ Len(t) = Len(stack) /\ t[Len(stack)] = f
          /\ \A i \in 1..(Len(stack) - 1) : t[i] = stack[i]
      BY <1>5
    <2>2. stack' = Append(t, g)
      BY <1>6
    <2> HIDE DEF t
    <2>3. t \in Seq(FrameType \cup {f} \cup {g}) /\ g \in FrameType \cup {f} \cup {g}
      BY <2>1, SeqMonotonic
    <2>4. Len(stack') = Len(t) + 1 /\ \A i \in 1..Len(t) : stack'[i] = t[i]
      BY <2>2, <2>3, AppendProperties
    <2> QED BY <1>1, <2>1, <2>4
  <1>7. CASE \E g : stack' = Append(stack, g)
    <2>1. Len(stack') = Len(stack) + 1 /\ \A i \in 1..Len(stack) : stack'[i] = stack[i]
      BY <1>4, <1>7
    <2> QED BY <1>1, <2>1
  <1>8. CASE \E f : Continues(f) /\ stack' = [stack EXCEPT ![Len(stack)] = f]
    <2>1. PICK f : Continues(f) /\ stack' = [stack EXCEPT ![Len(stack)] = f]
      BY <1>8
    <2> DEFINE t == [stack EXCEPT ![Len(stack)] = f]
    <2>2. /\ Len(t) = Len(stack) /\ t[Len(stack)] = f
          /\ \A i \in 1..(Len(stack) - 1) : t[i] = stack[i]
      BY <1>5
    <2>3. stack' = t
      BY <2>1
    <2> HIDE DEF t
    <2>4. Continues(stack'[Len(stack)])
      BY <2>1, <2>2, <2>3
    <2> QED BY <1>1, <2>2, <2>3, <2>4
  <1>9. CASE \E f, g : Continues(f) /\ stack' = Append([stack EXCEPT ![Len(stack)] = f], g)
    <2>1. PICK f, g : Continues(f) /\ stack' = Append([stack EXCEPT ![Len(stack)] = f], g)
      BY <1>9
    <2>2. /\ Len(stack') = Len(stack) + 1 /\ stack'[Len(stack)] = f
          /\ \A i \in 1..(Len(stack) - 1) : stack'[i] = stack[i]
      BY <1>6, <2>1
    <2> QED BY <1>1, <2>1, <2>2
  <1>10. CASE /\ stack' = Front(stack) /\ Top.kind # "call"
              /\ Top.kind = "trap" => shells' = ShellsAfter(Top) /\ ctl'.at \in {"done", "throw"}
    <2>1. Len(stack') = Len(stack) - 1 /\ \A i \in 1..(Len(stack) - 1) : stack'[i] = stack[i]
      BY <1>1, <1>10, Fronted
    <2> QED BY <1>1, <1>2, <1>10, <2>1
  <1> QED BY <1>3, <1>7, <1>8, <1>9, <1>10 DEF Moves

\* Positions below the top of a stack of more than one frame.
LEMMA Positions ==
  ASSUME NEW n \in Nat \ {0}, n # 1
  PROVE  n >= 2 /\ 1 \in 1..(n - 1) /\ (n # 2 => 2 \in 1..(n - 1))
  OBVIOUS

\* A move does not end the call, and a handler that ends puts back its status.
LEMMA MovesEnd ==
  ASSUME IInv, IInv', Ending, ctl.at # "idle", ~ CallIsOver, Moves
  PROVE  Ending'
  <1>1. /\ stack # <<>> /\ Len(stack) \in Nat \ {0} /\ Top = stack[Len(stack)] /\ Top \in FrameType
        /\ (Top.kind = "call") = (Len(stack) = 1) /\ Top.shell = Len(shells)
        /\ stack \in Seq(FrameType) /\ shells \in Seq(ShellType) /\ Len(shells) \in Nat \ {0}
    BY TopIs, Facts DEF IInv, TypeOK
  <1>2. /\ Len(stack') \in Nat \ {0} /\ Len(stack') >= Len(stack) - 1
        /\ \A i \in 1..(Len(stack) - 1) : stack'[i] = stack[i]
        /\ Len(stack') >= Len(stack) => stack'[Len(stack)] = Top \/ Continues(stack'[Len(stack)])
        /\ Len(stack') < Len(stack) =>
              /\ stack' = Front(stack) /\ Top.kind # "call"
              /\ Top.kind = "trap" => shells' = ShellsAfter(Top) /\ ctl'.at \in {"done", "throw"}
    BY <1>1, MovesKeep
  <1>6. Len(stack) \in Nat \ {0} /\ Len(stack') \in Nat \ {0} /\ Len(stack') >= Len(stack) - 1
    BY <1>1, <1>2
  <1>3. stack' # <<>> /\ ctl'.at # "idle"
    <2>1. stack' # <<>>
      BY <1>2, EmptySeq
    <2>2. (ctl.at = "idle" <=> stack = <<>>)'
      BY DEF IInv
    <2> QED BY <2>1, <2>2
  <1>4. StatusReported'
    BY <1>3 DEF StatusReported
  <1>5. Awaited'
    <2> SUFFICES ASSUME stack'[1].phase = "atexit"
                 PROVE  IF Len(stack') = 1 THEN \/ ctl'.at = "throw"
                                                \/ ctl'.at = "done" /\ shells'[1].last = stack'[1].res.code
                        ELSE stack'[2].kind = "trap" /\ stack'[2].n = stack'[1].res.code
      BY DEF Awaited
    <2>1. CASE Len(stack) = 1
      <3>1. Top.kind = "call" /\ stack[1] = Top /\ Len(stack') >= 1
        BY <1>1, <1>2, <2>1
      <3>2. stack'[1] = Top
        BY <1>2, <2>1, <3>1 DEF Continues
      <3>3. ctl.at \in {"done", "throw"}
        BY <1>1, <2>1, <3>1, <3>2 DEF Ending, Awaited
      <3> QED BY <3>1, <3>2, <3>3 DEF CallIsOver
    <2>2. CASE Len(stack) # 1
      <3>0. 1 \in 1..(Len(stack) - 1)
        BY <1>6, <2>2, Positions
      <3>1. stack'[1] = stack[1]
        BY <1>2, <3>0
      <3>2. stack[2].kind = "trap" /\ stack[2].n = stack[1].res.code
        BY <1>1, <2>2, <3>1 DEF Ending, Awaited
      <3>3. CASE Len(stack') = 1
        <4>1. Len(stack) = 2 /\ Top = stack[2] /\ Top.kind = "trap"
          <5>1. Len(stack) = 2
            <6>1. Len(stack) >= 2
              BY <1>6, <2>2, Positions
            <6> QED BY <1>6, <3>3, <6>1
          <5> QED BY <1>1, <3>2, <5>1
        <4>2. shells' = ShellsAfter(Top) /\ ctl'.at \in {"done", "throw"}
          BY <1>2, <3>3, <4>1
        <4>3. ShellsAfter(Top) = [shells EXCEPT ![Len(shells)].inTrap = FALSE, ![Len(shells)].last = Top.n]
          BY <1>1, <4>1 DEF ShellsAfter, Forks
        <4>4. Len(shells) = 1
          <5>1. (Ordered(stack, shells))'
            BY DEF IInv, Balanced
          <5>2. stack'[Len(stack')].shell = Len(shells') /\ stack'[1].shell = 1
            BY <1>3, <5>1 DEF Ordered
          <5>3. Len(shells') = 1
            BY <3>3, <5>2
          <5>4. DOMAIN shells' = DOMAIN shells
            BY <4>2, <4>3
          <5>5. shells' \in Seq(ShellType)
            BY DEF IInv, TypeOK
          <5>6. DOMAIN shells' = 1..Len(shells') /\ DOMAIN shells = 1..Len(shells)
            BY <1>1, <5>5, LenProperties
          <5>9. Len(shells) \in Nat \ {0}
            BY <1>1
          <5>7. Len(shells) \in 1..Len(shells) /\ 1..Len(shells) = 1..1
            <6>1. 1..Len(shells) = 1..Len(shells')
              BY <5>4, <5>6
            <6> QED BY <5>3, <5>9, <6>1
          <5>8. Len(shells) \in 1..1
            BY <5>7
          <5> QED BY <1>1, <5>8
        <4>5. shells'[1].last = Top.n
          <5>1. 1 \in DOMAIN shells /\ shells[1] \in ShellType
            BY <1>1, <4>4, LenProperties, ElementOfSeq
          <5> QED BY <4>2, <4>3, <4>4, <5>1 DEF ShellType
        <4> QED BY <3>1, <3>2, <3>3, <4>1, <4>2, <4>5
      <3>4. CASE Len(stack') # 1
        <4>1. stack'[2].kind = "trap" /\ stack'[2].n = stack[2].n
          <5>1. CASE Len(stack) = 2
            <6>1. Top = stack[2] /\ Len(stack') >= 2
              <7>1. Len(stack') >= 2
                BY <1>6, <3>4, Positions
              <7> QED BY <1>1, <5>1, <7>1
            <6>2. stack'[2] = Top \/ Continues(stack'[2])
              BY <1>2, <5>1, <6>1
            <6> QED BY <3>2, <6>1, <6>2 DEF Continues
          <5>2. CASE Len(stack) # 2
            <6>1. 2 \in 1..(Len(stack) - 1)
              BY <1>6, <2>2, <5>2, Positions
            <6>2. stack'[2] = stack[2]
              BY <1>2, <6>1
            <6> QED BY <3>2, <6>2
          <5> QED BY <5>1, <5>2
        <4> QED BY <3>1, <3>2, <3>4, <4>1
      <3> QED BY <3>3, <3>4
    <2> QED BY <2>1, <2>2
  <1> QED BY <1>4, <1>5 DEF Ending

\* The end of the script: the status it ends with is what the EXIT handler is to
\* put back, or is the shell's at once.
LEMMA FinishEnds ==
  ASSUME IInv, IInv', Ending, FinishShell
  PROVE  Ending'
  <1>1. ctl.at # "idle"
    BY DEF FinishShell, Working
  <1>2. /\ stack # <<>> /\ Len(stack) \in Nat \ {0} /\ Top = stack[Len(stack)] /\ Top \in FrameType
        /\ (Top.kind = "call") = (Len(stack) = 1)
        /\ stack \in Seq(FrameType) /\ shells \in Seq(ShellType) /\ Len(shells) \in Nat \ {0}
        /\ Shell \in ShellType
    BY <1>1, TopIs, Facts DEF IInv, TypeOK
  <1> DEFINE status == IF Top.kind = "call" THEN Top.res.code ELSE Shell.last
  <1> DEFINE waiting == [Top EXCEPT !.phase = "atexit"]
  <1>3. waiting.kind = Top.kind /\ waiting.res = Top.res /\ waiting.phase = "atexit"
    BY <1>2 DEF FrameType
  <1>4. CASE Top.kind # "call"
    <2>1. Moves /\ ~ CallIsOver
      <3>1. Top.kind = "subst" /\ ~ CallIsOver
        BY <1>4 DEF FinishShell, Working, CallIsOver
      <3>2. Continues(waiting)
        BY <1>3, <3>1 DEF Continues
      <3> HIDE DEF waiting
      <3>3. RunTrap("EXIT", status, waiting) \/ Become(waiting)
        BY DEF FinishShell, waiting
      <3> QED BY <3>1, <3>2, <3>3, TrapMoves DEF Become, Moves
    <2> QED BY <1>1, <2>1, MovesEnd
  <1>5. CASE Top.kind = "call"
    <2> HIDE DEF waiting
    <2>1. Len(stack) = 1 /\ status = Top.res.code
      BY <1>2, <1>5
    <2>2. waiting \in FrameType
      <3>1. "atexit" \in Phases /\ 1 \in Nat /\ Success \in Result
        BY ResultsMade, Zenon DEF Phases
      <3>2. Same(Top, [Top EXCEPT !.phase = "atexit"], "atexit")
        BY <1>2, <1>5, <3>1, FrameChanged
      <3> QED BY <3>2 DEF waiting, Same
    <2>3. /\ [stack EXCEPT ![1] = waiting] \in Seq(FrameType)
          /\ Len([stack EXCEPT ![1] = waiting]) = 1 /\ [stack EXCEPT ![1] = waiting][1] = waiting
      BY <1>2, <2>1, <2>2, Replaced
    <2>4. CASE TrapSet("EXIT")
      <3> DEFINE g == Frame("trap", "EXIT", 0, status)
      <3>1. stack' = Append([stack EXCEPT ![1] = waiting], g) /\ ctl'.at = "enter"
        BY <2>1, <2>4 DEF FinishShell, RunTrap, PushOn, At, Go, waiting
      <3>2. g.kind = "trap" /\ g.n = Top.res.code
        BY <2>1 DEF Frame
      <3> HIDE DEF g
      <3>3. /\ [stack EXCEPT ![1] = waiting] \in Seq(FrameType \cup {g}) /\ g \in FrameType \cup {g}
        BY <2>3, SeqMonotonic
      <3> DEFINE t == [stack EXCEPT ![1] = waiting]
      <3>5. t \in Seq(FrameType \cup {g}) /\ Len(t) = 1 /\ t[1] = waiting /\ stack' = Append(t, g)
        BY <2>3, <3>1, <3>3
      <3> HIDE DEF t
      <3>4. Len(stack') = 2 /\ stack'[1] = waiting /\ stack'[2] = g
        <4>1. Len(stack') = Len(t) + 1 /\ stack'[Len(t) + 1] = g /\ \A i \in 1..Len(t) : stack'[i] = t[i]
          <5>1. t \in Seq(FrameType \cup {g}) /\ g \in FrameType \cup {g}
            BY <3>3, <3>5
          <5>2. /\ Len(Append(t, g)) = Len(t) + 1 /\ Append(t, g)[Len(t) + 1] = g
                /\ \A i \in 1..Len(t) : Append(t, g)[i] = t[i]
            BY <5>1, AppendProperties
          <5> QED BY <3>5, <5>2
        <4>2. 1 \in 1..Len(t) /\ Len(t) + 1 = 2
          BY <3>5
        <4> QED BY <3>5, <4>1, <4>2
      <3> QED BY <1>3, <3>1, <3>2, <3>4 DEF Ending, StatusReported, Awaited
    <2>5. CASE ~ TrapSet("EXIT")
      <3>1. /\ stack' = [stack EXCEPT ![1] = waiting] /\ ctl'.at = "done"
            /\ shells' = [shells EXCEPT ![Len(shells)].last = Top.res.code]
        BY <2>1, <2>5 DEF FinishShell, Become, Done, Go, SetLast, waiting
      <3>2. Len(shells) = 1
        <4>1. Ordered(stack, shells)
          BY DEF IInv, Balanced
        <4> QED BY <1>2, <2>1, <4>1 DEF Ordered
      <3>3. shells'[1].last = Top.res.code
        <4>1. 1 \in DOMAIN shells /\ shells[1] \in ShellType
          <5>1. 1 \in 1..Len(shells)
            BY <3>2
          <5> QED BY <1>2, <5>1, LenProperties, ElementOfSeq
        <4> QED BY <3>1, <3>2, <4>1 DEF ShellType
      <3>4. Len(stack') = 1 /\ stack'[1] = waiting
        BY <2>3, <3>1
      <3> QED BY <1>3, <3>1, <3>3, <3>4 DEF Ending, StatusReported, Awaited
    <2> QED BY <2>4, <2>5
  <1> QED BY <1>4, <1>5

\* The call returns its status or fails, and no frame is left.
LEMMA CallEnding ==
  ASSUME IInv, IInv', Ending, CallDone \/ CallFails
  PROVE  Ending'
  <1>1. ctl.at # "idle" /\ Top.kind = "call" /\ stack # <<>> /\ Leave /\ ctl'.at = "idle"
    BY DEF CallDone, CallFails, Returned, Working, At, Go
  <1>2. stack' = <<>>
    BY <1>1 DEF IInv
  <1>3. shells' = shells /\ Len(stack) = 1 /\ Top = stack[1]
    BY <1>1, TopIs DEF Leave, ShellsAfter, Forks
  <1>4. CASE CallDone
    <2>1. ctl.at = "done" /\ Top.phase = "atexit" /\ outcome'.code = Top.res.code
      BY <1>4 DEF CallDone, Returned
    <2>2. shells[1].last = Top.res.code
      BY <1>1, <1>3, <2>1 DEF Ending, Awaited
    <2> QED BY <1>2, <1>3, <2>1, <2>2 DEF Ending, StatusReported, Awaited
  <1>5. CASE CallFails
    <2>1. outcome'.how # "result"
      BY <1>5 DEF CallFails
    <2> QED BY <1>2, <2>1 DEF Ending, StatusReported, Awaited
  <1> QED BY <1>4, <1>5

\* Every step keeps what the host's call is to report.
LEMMA StepEnds == IInv /\ Ending /\ [Next]_vars /\ IInv' => Ending'
  <1> SUFFICES ASSUME IInv, Ending, [Next]_vars, IInv' PROVE Ending'
    OBVIOUS
  <1>1. CASE Step
    <2>1. Top.kind = "call" /\ Top.phase = "atexit" => ctl.at \in {"done", "throw"}
      <3> SUFFICES ASSUME Top.kind = "call", Top.phase = "atexit", ctl.at # "idle"
                   PROVE  ctl.at \in {"done", "throw"}
        BY <1>1, IdleSteps
      <3>1. stack # <<>> /\ Len(stack) = 1 /\ Top = stack[1]
        BY TopIs, Facts
      <3> QED BY <3>1 DEF Ending, Awaited
    <2> QED BY <1>1, <2>1, StepMoves, MovesEnd, FinishEnds, CallEnding
  <1>2. CASE BeginCall
    <2>1. PICK n \in 1..MaxScript : stack' = Append(stack, Frame("call", "command", 0, n))
      BY <1>2 DEF BeginCall, Push
    <2> DEFINE g == Frame("call", "command", 0, n)
    <2>2. stack = <<>> /\ g.phase = "command"
      BY <1>2 DEF IInv, BeginCall, Frame
    <2> HIDE DEF g
    <2>3. stack' = Append(stack, g)
      BY <2>1 DEF g
    <2>4. stack \in Seq({g}) /\ Len(stack) = 0 /\ g \in {g}
      BY <2>2, EmptySeq
    <2>5. stack'[1] = g
      BY <2>3, <2>4, AppendProperties
    <2>6. ctl'.at = "next"
      BY <1>2 DEF BeginCall, At, Go
    <2> QED BY <2>2, <2>5, <2>6 DEF Ending, StatusReported, Awaited
  <1>3. CASE RejectScript
    BY <1>3 DEF RejectScript, IInv, Ending, StatusReported, Awaited
  <1>4. CASE Interrupt
    BY <1>4 DEF Interrupt, Ending, StatusReported, Awaited
  <1>5. CASE UNCHANGED vars
    BY <1>5 DEF vars, Ending, StatusReported, Awaited
  <1> QED BY <1>1, <1>2, <1>3, <1>4, <1>5 DEF Next

\* The status a finished call reports is the one its shell keeps as $?, whatever the
\* EXIT handler ran.
THEOREM StatusReportedCorrect == Spec => []StatusReported
  <1>1. Init => Ending
    BY DEF Init, Ending, StatusReported, Awaited
  <1>2. Ending => StatusReported
    BY DEF Ending
  <1> QED BY InitBalanced, StepBalanced, StepEnds, <1>1, <1>2, PTL DEF Spec
=============================================================================
