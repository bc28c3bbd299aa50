---------------------- MODULE InMemoryFileSystem_proofs ----------------------
(***************************************************************************)
(* What holds of the in-memory file system for every set of nodes and      *)
(* names and every value of the caps.  The walks along a path stay opaque: *)
(* the proofs use that an operation proceeds when its walks ended at nodes *)
(* and, of the links a walk follows, that they lead to no further link.    *)
(***************************************************************************)
EXTENDS InMemoryFileSystem, FiniteSums, SequenceTheorems, TLAPS

\* The last segment of a path that has one is a name.
LEMMA LastIsName ==
  ASSUME NEW p \in Path, p # <<>>
  PROVE  Last(p) \in Name
<1>1. PICK n \in 0..PathLen : p \in [1..n -> Name]
  BY DEF Path
<1>2. n \in Nat /\ p \in Seq(Name) /\ Len(p) = n
  BY <1>1, LimitAssumption
<1>3. n # 0
  BY <1>1, <1>2
<1> QED BY <1>1, <1>2, <1>3 DEF Last

\* ResolveParent yields a directory or an error.
LEMMA ParentIsDirectory ==
  ASSUME NEW p, ResolveParent(p) \in Node
  PROVE  p # <<>> /\ kind[ResolveParent(p)] = "dir"
BY ErrorAssumption DEF ResolveParent, ErrorKind

\* The node an operation takes was not in use.
LEMMA FreshIsFree ==
  ASSUME FreeNodes # {}
  PROVE  Fresh \in Node /\ kind[Fresh] = "free"
BY DEF Fresh, FreeNodes

(***************************************************************************)
(* Types                                                                   *)
(***************************************************************************)

\* A refused operation keeps the types.
LEMMA FailType ==
  ASSUME TypeOK, NEW err, Fail(err)
  PROVE  TypeOK'
BY DEF TypeOK, Fail, tree, usage

\* Nodes can be counted.
LEMMA CountIsInteger ==
  ASSUME NEW S \in SUBSET Node
  PROVE  Cardinality(S) \in Nat
BY NodeAssumption, FS_Subset, FS_CardinalityType

\* Making a node keeps the types of the tree.
LEMMA CreateType ==
  ASSUME TypeOK, NEW dir \in Node, NEW name \in Name, NEW k \in {"dir", "file", "link"},
         NEW bytes \in Nat, NEW goal \in Target \cup {Absent},
         Create(dir, name, k, bytes, goal)
  PROVE  /\ kind' \in [Node -> {"free", "dir", "file", "link"}]
         /\ child' \in [Node -> [Name -> Node \cup {Absent}]]
         /\ size' \in [Node -> Nat]
         /\ target' \in [Node -> Target \cup {Absent}]
BY FreshIsFree DEF Create, TypeOK

\* Taking nodes out of use keeps the types of the tree.
LEMMA ReclaimType ==
  ASSUME TypeOK, NEW S, NEW links \in [Node -> [Name -> Node \cup {Absent}]],
         Reclaim(S, links)
  PROVE  /\ kind' \in [Node -> {"free", "dir", "file", "link"}]
         /\ child' \in [Node -> [Name -> Node \cup {Absent}]]
         /\ size' \in [Node -> Nat]
         /\ target' \in [Node -> Target \cup {Absent}]
BY DEF Reclaim, TypeOK, Unlinked

\* A write or an append keeps the types.
LEMMA WriteType ==
  ASSUME TypeOK, NEW p \in Path, NEW bytes \in Nat, NEW appending \in BOOLEAN,
         WriteFileLocked(p, bytes, appending)
  PROVE  TypeOK'
<1> DEFINE parent == ResolveParent(p)
           entry == child[parent][Last(p)]
           file == Follow(entry, p)
<1>1. CASE \E err \in WriteErrors(p, bytes, appending) : Fail(err)
  BY <1>1, FailType
<1>2. CASE WriteErrors(p, bytes, appending) = {} /\ entry = Absent /\ CreateFile(parent, Last(p), bytes)
  <2>1. parent \in Node
    BY <1>2 DEF WriteErrors
  <2>2. Last(p) \in Name
    BY <2>1, ParentIsDirectory, LastIsName
  <2>3. Create(parent, Last(p), "file", bytes, Absent)
    BY <1>2 DEF CreateFile
  <2>4. /\ kind' \in [Node -> {"free", "dir", "file", "link"}]
        /\ child' \in [Node -> [Name -> Node \cup {Absent}]]
        /\ size' \in [Node -> Nat]
        /\ target' \in [Node -> Target \cup {Absent}]
    BY <2>1, <2>2, <2>3, CreateType
  <2>5. outcome' = "ok" /\ aliasedMoves' = aliasedMoves
    BY <1>2, WriteErrors(p, bytes, appending) = {} DEF WriteFileLocked, Succeed
  <2> QED BY <1>2, <2>4, <2>5 DEF TypeOK, CreateFile
<1>3. CASE /\ WriteErrors(p, bytes, appending) = {}
           /\ entry # Absent
           /\ Overwrite(file, IF appending THEN size[file] + bytes ELSE bytes)
  <2>1. parent \in Node /\ file \in Node
    BY <1>3 DEF WriteErrors
  <2>2. size[file] \in Nat /\ (IF appending THEN size[file] + bytes ELSE bytes) \in Nat
    BY <2>1 DEF TypeOK
  <2>3. outcome' = "ok" /\ aliasedMoves' = aliasedMoves
    BY <1>3 DEF WriteFileLocked, Succeed
  <2> QED BY <1>3, <2>1, <2>2, <2>3 DEF TypeOK, Overwrite
<1> QED BY <1>1, <1>2, <1>3 DEF WriteFileLocked

\* CreateSymlinkAsync keeps the types.
LEMMA SymlinkType ==
  ASSUME TypeOK, NEW goal \in Target, NEW p \in Path, CreateSymlinkAsync(goal, p)
  PROVE  TypeOK'
<1> DEFINE parent == ResolveParent(p)
<1>1. CASE \E err : Fail(err)
  BY <1>1, FailType
<1>2. CASE parent \in Node /\ Create(parent, Last(p), "link", 0, goal) /\ Succeed
           /\ UNCHANGED <<usage, aliasedMoves>>
  <2>1. Last(p) \in Name
    BY <1>2, ParentIsDirectory, LastIsName
  <2>2. /\ kind' \in [Node -> {"free", "dir", "file", "link"}]
        /\ child' \in [Node -> [Name -> Node \cup {Absent}]]
        /\ size' \in [Node -> Nat]
        /\ target' \in [Node -> Target \cup {Absent}]
    BY <1>2, <2>1, CreateType
  <2> QED BY <1>2, <2>2 DEF TypeOK, Succeed, usage
<1> QED BY <1>1, <1>2 DEF CreateSymlinkAsync

\* RemoveAsync keeps the types.
LEMMA RemoveType ==
  ASSUME TypeOK, NEW p \in Path, NEW recursive \in BOOLEAN, RemoveAsync(p, recursive)
  PROVE  TypeOK'
<1> DEFINE parent == ResolveParent(p)
           node == child[parent][Last(p)]
           dead == Subtree(node)
           links == [child EXCEPT ![parent][Last(p)] = Absent]
<1>1. CASE \E err : Fail(err)
  BY <1>1, FailType
<1>2. CASE /\ p # <<>> /\ parent \in Node
           /\ ReleaseAccounting(dead) /\ Reclaim(dead, links)
           /\ Succeed /\ UNCHANGED aliasedMoves
  <2>1. links \in [Node -> [Name -> Node \cup {Absent}]]
    BY <1>2, LastIsName DEF TypeOK
  <2>2. /\ kind' \in [Node -> {"free", "dir", "file", "link"}]
        /\ child' \in [Node -> [Name -> Node \cup {Absent}]]
        /\ size' \in [Node -> Nat]
        /\ target' \in [Node -> Target \cup {Absent}]
    BY <1>2, <2>1, ReclaimType
  <2>3. Cardinality(dead \cap Files) \in Nat /\ Cardinality(dead \cap Directories) \in Nat
    BY CountIsInteger DEF Subtree
  <2>4. fileCount' \in Int /\ directoryCount' \in Int
    BY <1>2, <2>3 DEF ReleaseAccounting, TypeOK
  <2> QED BY <1>2, <2>2, <2>4 DEF TypeOK, Succeed
<1> QED BY <1>1, <1>2 DEF RemoveAsync

\* RenameAsync keeps the types.
LEMMA RenameType ==
  ASSUME TypeOK, NEW from \in Path, NEW to \in Path, RenameAsync(from, to)
  PROVE  TypeOK'
<1> DEFINE fromParent == ResolveParent(from)
           node == child[fromParent][Last(from)]
           toParent == ResolveParent(to)
           existing == child[toParent][Last(to)]
           unlinked == [child EXCEPT ![fromParent][Last(from)] = Absent]
           relinked == [unlinked EXCEPT ![toParent][Last(to)] = node]
<1>1. CASE \E err : Fail(err)
  BY <1>1, FailType
<1>2. CASE /\ RenameErrors(from, to) = {}
           /\ ReleaseAccounting({existing} \cap Node)
           /\ Reclaim({existing} \ {node, Absent}, relinked)
           /\ aliasedMoves' \in {aliasedMoves, aliasedMoves + 1}
           /\ Succeed
  <2>1. fromParent \in Node /\ toParent \in Node
    BY <1>2 DEF RenameErrors
  <2>2. Last(from) \in Name /\ Last(to) \in Name
    BY <2>1, ParentIsDirectory, LastIsName
  <2>3. relinked \in [Node -> [Name -> Node \cup {Absent}]]
    <3>1. node \in Node \cup {Absent}
      BY <2>1, <2>2 DEF TypeOK
    <3>2. unlinked \in [Node -> [Name -> Node \cup {Absent}]]
      BY <2>1, <2>2 DEF TypeOK
    <3> QED BY <2>1, <2>2, <3>1, <3>2
  <2>4. /\ kind' \in [Node -> {"free", "dir", "file", "link"}]
        /\ child' \in [Node -> [Name -> Node \cup {Absent}]]
        /\ size' \in [Node -> Nat]
        /\ target' \in [Node -> Target \cup {Absent}]
    BY <1>2, <2>3, ReclaimType
  <2>5. /\ Cardinality(({existing} \cap Node) \cap Files) \in Nat
        /\ Cardinality(({existing} \cap Node) \cap Directories) \in Nat
    BY CountIsInteger
  <2>6. fileCount' \in Int /\ directoryCount' \in Int
    BY <1>2, <2>5 DEF ReleaseAccounting, TypeOK
  <2> QED BY <1>2, <2>4, <2>6 DEF TypeOK, Succeed
<1> QED BY <1>1, <1>2 DEF RenameAsync

\* The directories mkdir -p makes are nodes under names.
LEMMA ChainType ==
  ASSUME TypeOK, NEW p \in Path, NEW k \in 0..Len(p), NEW m \in k..Len(p),
         CreateChain(p, k, m)
  PROVE  TypeOK'
<1> DEFINE Chains == {c \in [k + 1 .. m -> FreeNodes] : IsInjective(c)}
           chain == CHOOSE c \in Chains : TRUE
           Above(i) == IF i = k + 1 THEN Reach(p, k) ELSE chain[i - 1]
           Links(d, x) == {i \in k + 1 .. m : Above(i) = d /\ p[i] = x}
           Entry(d, x) == IF Links(d, x) # {} THEN chain[CHOOSE i \in Links(d, x) : TRUE]
                          ELSE child[d][x]
<1>1. chain \in [k + 1 .. m -> Node]
  BY DEF CreateChain, FreeNodes
<1>2. k \in Int /\ m \in Int
  OBVIOUS
<1>3. kind' \in [Node -> {"free", "dir", "file", "link"}]
  BY DEF CreateChain, TypeOK
<1>4. ASSUME NEW d \in Node, NEW x \in Name
      PROVE  Entry(d, x) \in Node \cup {Absent}
  <2>1. CASE Links(d, x) # {}
    <3>1. (CHOOSE i \in Links(d, x) : TRUE) \in k + 1 .. m
      BY <2>1
    <3> QED BY <1>1, <2>1, <3>1
  <2>2. child[d][x] \in Node \cup {Absent}
    BY DEF TypeOK
  <2> QED BY <2>1, <2>2
<1>5. child' = [d \in Node |-> [x \in Name |-> Entry(d, x)]]
  BY DEF CreateChain
<1>6. child' \in [Node -> [Name -> Node \cup {Absent}]]
  <2> HIDE DEF Entry
  <2> QED BY <1>4, <1>5
<1>7. /\ UNCHANGED <<size, target, fileCount, aliasedMoves>>
      /\ outcome' \in {"ok", "failed"} /\ directoryCount' = directoryCount + (m - k)
  BY DEF CreateChain
<1> QED BY <1>2, <1>3, <1>6, <1>7 DEF TypeOK

\* CreateDirectoryAsync keeps the types.
LEMMA MkdirType ==
  ASSUME TypeOK, NEW p \in Path, NEW recursive \in BOOLEAN, CreateDirectoryAsync(p, recursive)
  PROVE  TypeOK'
<1>1. CASE \E err : Fail(err)
  BY <1>1, FailType
<1>2. CASE Succeed /\ UNCHANGED <<tree, usage, aliasedMoves>>
  BY <1>2 DEF TypeOK, Succeed, tree, usage
<1>3. CASE \E k \in 0..Len(p) : \E m \in k..Len(p) : CreateChain(p, k, m)
  BY <1>3, ChainType
<1> QED BY <1>1, <1>2, <1>3 DEF CreateDirectoryAsync

\* The type invariant of the file system: its nodes, links and counters stay
\* what they are declared to be, whatever the operations and their errors.
THEOREM TypeCorrect == Spec => []TypeOK
<1>1. Init => TypeOK
  BY NodeAssumption, TargetAssumption DEF Init, TypeOK
<1>2. TypeOK /\ [Next]_vars => TypeOK'
  <2> SUFFICES ASSUME TypeOK, [Next]_vars PROVE TypeOK'
    OBVIOUS
  <2>1. ASSUME NEW p \in Path, NEW bytes \in 0..MaxFileBytes + 1, WriteFileAsync(p, bytes)
        PROVE  TypeOK'
    <3>1. bytes \in Nat
      BY LimitAssumption
    <3> QED BY <2>1, <3>1, WriteType DEF WriteFileAsync
  <2>2. ASSUME NEW p \in Path, NEW bytes \in 0..MaxFileBytes, AppendFileAsync(p, bytes)
        PROVE  TypeOK'
    <3>1. bytes \in Nat
      BY LimitAssumption
    <3> QED BY <2>2, <3>1, WriteType DEF AppendFileAsync
  <2>3. ASSUME NEW p \in Path, NEW recursive \in BOOLEAN, CreateDirectoryAsync(p, recursive)
        PROVE  TypeOK'
    BY <2>3, MkdirType
  <2>4. ASSUME NEW p \in Path, NEW recursive \in BOOLEAN, RemoveAsync(p, recursive)
        PROVE  TypeOK'
    BY <2>4, RemoveType
  <2>5. ASSUME NEW from \in Path, NEW to \in Path, RenameAsync(from, to)
        PROVE  TypeOK'
    BY <2>5, RenameType
  <2>6. ASSUME NEW from \in Path, NEW to \in Path, CopyAsync(from, to)
        PROVE  TypeOK'
    <3>1. CASE \E err : Fail(err)
      BY <3>1, FailType
    <3>2. CASE ResolveExisting(from) \in Node
               /\ WriteFileLocked(to, size[ResolveExisting(from)], FALSE)
      <4>1. size[ResolveExisting(from)] \in Nat
        BY <3>2 DEF TypeOK
      <4> QED BY <3>2, <4>1, WriteType
    <3> QED BY <2>6, <3>1, <3>2 DEF CopyAsync
  <2>7. ASSUME NEW goal \in Target, NEW p \in Path, CreateSymlinkAsync(goal, p)
        PROVE  TypeOK'
    BY <2>7, SymlinkType
  <2>8. CASE UNCHANGED vars
    BY <2>8 DEF vars, tree, usage, TypeOK
  <2> QED BY <2>1, <2>2, <2>3, <2>4, <2>5, <2>6, <2>7, <2>8 DEF Next
<1> QED BY <1>1, <1>2, PTL DEF Spec

(***************************************************************************)
(* The shape of the tree                                                   *)
(***************************************************************************)

\* What hangs from a node has the node in it, and all it leads to.
LEMMA SubtreeClosed ==
  ASSUME NEW n \in Node, TypeOK
  PROVE  n \in Subtree(n) /\ ClosedUnderChildren(Subtree(n)) /\ Subtree(n) \subseteq Node
<1>1. n \in Subtree(n) /\ Subtree(n) \subseteq Node
  BY DEF Subtree
<1>2. ASSUME NEW m \in Subtree(n), NEW c \in Children(m)
      PROVE  c \in Subtree(n)
  <2>1. c \in Node
    BY <1>1 DEF Children, TypeOK
  <2>2. ASSUME NEW S \in SUBSET Node, n \in S, ClosedUnderChildren(S)
        PROVE  c \in S
    BY <2>2 DEF Subtree, ClosedUnderChildren
  <2> QED BY <2>1, <2>2 DEF Subtree
<1> QED BY <1>1, <1>2 DEF ClosedUnderChildren

\* What hangs from a node is in every set that has it and is closed.
LEMMA SubtreeLeast ==
  ASSUME NEW n \in Node, NEW S \in SUBSET Node, n \in S, ClosedUnderChildren(S)
  PROVE  Subtree(n) \subseteq S
BY DEF Subtree

\* The only link from outside a subtree into it is the one to its top.
LEMMA SubtreeEntered ==
  ASSUME TypeOK, SingleParent, NEW n \in Node, NEW d \in Node, NEW x \in Name,
         d \notin Subtree(n), child[d][x] \in Subtree(n)
  PROVE  child[d][x] = n
<1> SUFFICES ASSUME child[d][x] # n PROVE FALSE
  OBVIOUS
<1> DEFINE c == child[d][x]
           S == Subtree(n) \ {c}
<1>1. n \in S /\ S \in SUBSET Node /\ c # Absent
  BY SubtreeClosed, NodeAssumption
<1>2. ASSUME NEW m \in S, NEW e \in Children(m) PROVE e \in S
  <2>1. e \in Subtree(n)
    BY SubtreeClosed DEF ClosedUnderChildren
  <2>2. PICK y \in Name : e = child[m][y] /\ e # Absent
    BY DEF Children
  <2>3. e # c
    <3>1. ASSUME e = c PROVE m = d
      <4>1. m \in Node /\ child[m][y] = child[d][x] /\ child[m][y] # Absent
        BY <1>1, <2>2, <3>1
      <4> QED BY <4>1, <2>2 DEF SingleParent
    <3> QED BY <3>1
  <2> QED BY <2>1, <2>3
<1>3. ClosedUnderChildren(S)
  BY <1>2 DEF ClosedUnderChildren
<1> QED BY <1>1, <1>3, SubtreeLeast

\* The root hangs from no other node.
LEMMA RootNotBelow ==
  ASSUME TypeOK, LinksAreLive, NEW n \in Node, n # Root
  PROVE  Root \notin Subtree(n)
<1> DEFINE S == Subtree(n) \ {Root}
<1>1. n \in S /\ S \in SUBSET Node
  BY SubtreeClosed
<1>2. ClosedUnderChildren(S)
  BY SubtreeClosed DEF ClosedUnderChildren, Children, LinksAreLive
<1> QED BY <1>1, <1>2, SubtreeLeast

\* A refused operation keeps the forest.
LEMMA FailShape ==
  ASSUME TreeShape, NEW err, Fail(err)
  PROVE  TreeShape'
BY DEF TreeShape, SingleParent, LinksAreLive, Fail, tree

\* A node that is made hangs under one name, of a directory.
LEMMA CreateShape ==
  ASSUME TypeOK, TreeShape, NEW dir \in Node, NEW name \in Name,
         NEW k \in {"dir", "file", "link"}, NEW bytes, NEW goal,
         kind[dir] = "dir", Create(dir, name, k, bytes, goal)
  PROVE  TreeShape'
<1>1. /\ Fresh \in Node /\ kind[Fresh] = "free"
      /\ kind' = [kind EXCEPT ![Fresh] = k]
      /\ child' = [child EXCEPT ![dir][name] = Fresh]
  BY FreshIsFree DEF Create
<1>2. \A d \in Node, x \in Name :
        child'[d][x] = IF d = dir /\ x = name THEN Fresh ELSE child[d][x]
  BY <1>1 DEF TypeOK
<1>3. \A d \in Node, x \in Name : child[d][x] # Fresh
  BY <1>1, NodeAssumption DEF TreeShape, LinksAreLive
<1>4. SingleParent'
  BY <1>2, <1>3 DEF TreeShape, SingleParent
<1>5. kind'[Root] = "dir" /\ Fresh # Root
  BY <1>1, NodeAssumption DEF TreeShape, TypeOK
<1>6. \A n \in Node : kind'[n] = IF n = Fresh THEN k ELSE kind[n]
  BY <1>1 DEF TypeOK
<1>7. LinksAreLive'
  BY <1>1, <1>2, <1>5, <1>6 DEF TreeShape, LinksAreLive, TypeOK
<1> QED BY <1>4, <1>5, <1>7 DEF TreeShape

\* Taking out nodes that no entry left leads to keeps the forest.
LEMMA ReclaimShape ==
  ASSUME TypeOK, NEW S \in SUBSET Node, NEW links \in [Node -> [Name -> Node \cup {Absent}]],
         Reclaim(S, links), kind[Root] = "dir", Root \notin S,
         \A d \in Node \ S, x \in Name :
           links[d][x] # Absent =>
             /\ kind[d] = "dir"
             /\ kind[links[d][x]] # "free"
             /\ links[d][x] # Root
             /\ links[d][x] \notin S,
         \A d1, d2 \in Node \ S, x1, x2 \in Name :
           links[d1][x1] = links[d2][x2] /\ links[d1][x1] # Absent => d1 = d2 /\ x1 = x2
  PROVE  TreeShape'
<1>1. \A n \in Node : kind'[n] = IF n \in S THEN "free" ELSE kind[n]
  BY DEF Reclaim
<1>2. \A d \in Node, x \in Name : child'[d][x] = IF d \in S THEN Absent ELSE links[d][x]
  BY DEF Reclaim, Unlinked
<1>3. kind'[Root] = "dir"
  BY <1>1, NodeAssumption
<1>4. SingleParent'
  BY <1>2 DEF SingleParent
<1>5. LinksAreLive'
  <2> SUFFICES ASSUME NEW d \in Node, NEW x \in Name, child'[d][x] # Absent
               PROVE  kind'[d] = "dir" /\ kind'[child'[d][x]] # "free" /\ child'[d][x] # Root
    BY DEF LinksAreLive
  <2>1. d \in Node \ S /\ child'[d][x] = links[d][x] /\ links[d][x] \in Node
    BY <1>2
  <2> QED BY <1>1, <2>1
<1> QED BY <1>3, <1>4, <1>5 DEF TreeShape

\* A write or an append keeps the forest.
LEMMA WriteShape ==
  ASSUME TypeOK, TreeShape, NEW p \in Path, NEW bytes, NEW appending,
         WriteFileLocked(p, bytes, appending)
  PROVE  TreeShape'
<1> DEFINE parent == ResolveParent(p)
<1>1. CASE \E err : Fail(err)
  BY <1>1, FailShape
<1>2. CASE WriteErrors(p, bytes, appending) = {} /\ CreateFile(parent, Last(p), bytes)
  <2>1. parent \in Node
    BY <1>2 DEF WriteErrors
  <2>2. Last(p) \in Name /\ kind[parent] = "dir"
    BY <2>1, ParentIsDirectory, LastIsName
  <2> QED BY <1>2, <2>1, <2>2, CreateShape DEF CreateFile
<1>3. CASE UNCHANGED <<kind, child>>
  BY <1>3 DEF TreeShape, SingleParent, LinksAreLive
<1> QED BY <1>1, <1>2, <1>3 DEF WriteFileLocked, Overwrite

\* CreateSymlinkAsync keeps the forest.
LEMMA SymlinkShape ==
  ASSUME TypeOK, TreeShape, NEW goal, NEW p \in Path, CreateSymlinkAsync(goal, p)
  PROVE  TreeShape'
<1> DEFINE parent == ResolveParent(p)
<1>1. CASE \E err : Fail(err)
  BY <1>1, FailShape
<1>2. CASE parent \in Node /\ Create(parent, Last(p), "link", 0, goal)
  <2>1. Last(p) \in Name /\ kind[parent] = "dir"
    BY <1>2, ParentIsDirectory, LastIsName
  <2> QED BY <1>2, <2>1, CreateShape
<1> QED BY <1>1, <1>2 DEF CreateSymlinkAsync

\* RemoveAsync takes a whole subtree, so no entry leads to a removed node.
LEMMA RemoveShape ==
  ASSUME TypeOK, TreeShape, NEW p \in Path, NEW recursive, RemoveAsync(p, recursive)
  PROVE  TreeShape'
<1> DEFINE parent == ResolveParent(p)
           node == child[parent][Last(p)]
           dead == Subtree(node)
           links == [child EXCEPT ![parent][Last(p)] = Absent]
<1>1. CASE \E err : Fail(err)
  BY <1>1, FailShape
<1>2. CASE p # <<>> /\ parent \in Node /\ node # Absent /\ Reclaim(dead, links)
  <2>1. Last(p) \in Name /\ kind[parent] = "dir"
    BY <1>2, ParentIsDirectory, LastIsName
  <2>2. node \in Node /\ node # Root
    BY <1>2, <2>1 DEF TypeOK, TreeShape, LinksAreLive
  <2>3. dead \in SUBSET Node /\ Root \notin dead
    BY <2>2, SubtreeClosed, RootNotBelow DEF TreeShape
  <2>4. links \in [Node -> [Name -> Node \cup {Absent}]]
    BY <1>2, <2>1 DEF TypeOK
  <2>5. \A d \in Node, x \in Name :
          links[d][x] = IF d = parent /\ x = Last(p) THEN Absent ELSE child[d][x]
    BY <1>2, <2>1 DEF TypeOK
  <2>6. ASSUME NEW d \in Node \ dead, NEW x \in Name, links[d][x] # Absent
        PROVE  links[d][x] \notin dead
    <3> SUFFICES ASSUME links[d][x] \in dead PROVE FALSE
      OBVIOUS
    <3>1. child[d][x] = links[d][x] /\ ~(d = parent /\ x = Last(p))
      BY <2>5, <2>6
    <3>2. child[d][x] = node
      BY <2>2, <3>1, SubtreeEntered DEF TreeShape
    <3> QED BY <1>2, <2>1, <3>1, <3>2 DEF TreeShape, SingleParent
  <2>7. \A d \in Node \ dead, x \in Name :
           links[d][x] # Absent =>
             kind[d] = "dir" /\ kind[links[d][x]] # "free" /\ links[d][x] # Root
    BY <2>5 DEF TreeShape, LinksAreLive
  <2>8. \A d1, d2 \in Node \ dead, x1, x2 \in Name :
           links[d1][x1] = links[d2][x2] /\ links[d1][x1] # Absent => d1 = d2 /\ x1 = x2
    BY <2>5 DEF TreeShape, SingleParent
  <2> HIDE DEF links, dead
  <2> QED BY <1>2, <2>3, <2>4, <2>6, <2>7, <2>8, ReclaimShape DEF TreeShape
<1> QED BY <1>1, <1>2 DEF RemoveAsync

\* RenameAsync leaves the node under its new name only.
LEMMA RenameShape ==
  ASSUME TypeOK, TreeShape, NEW from \in Path, NEW to \in Path, RenameAsync(from, to)
  PROVE  TreeShape'
<1> DEFINE fromParent == ResolveParent(from)
           node == child[fromParent][Last(from)]
           toParent == ResolveParent(to)
           existing == child[toParent][Last(to)]
           unlinked == [child EXCEPT ![fromParent][Last(from)] = Absent]
           relinked == [unlinked EXCEPT ![toParent][Last(to)] = node]
           gone == {existing} \ {node, Absent}
<1>1. CASE \E err : Fail(err)
  BY <1>1, FailShape
<1>2. CASE RenameErrors(from, to) = {} /\ Reclaim(gone, relinked)
  <2>1. fromParent \in Node /\ toParent \in Node /\ node # Absent
    BY <1>2 DEF RenameErrors
  <2>2. /\ Last(from) \in Name /\ kind[fromParent] = "dir"
        /\ Last(to) \in Name /\ kind[toParent] = "dir"
    BY <2>1, ParentIsDirectory, LastIsName
  <2>3. node \in Node /\ node # Root /\ kind[node] # "free"
    BY <2>1, <2>2 DEF TypeOK, TreeShape, LinksAreLive
  <2>4. existing \in Node \cup {Absent} /\ gone \in SUBSET Node
    BY <2>1, <2>2 DEF TypeOK
  <2>5. Root \notin gone
    BY <2>1, <2>2 DEF TreeShape, LinksAreLive
  <2>6. existing # Absent => \A x \in Name : child[existing][x] = Absent
    BY <1>2, <2>1 DEF RenameErrors, Children
  <2>7. relinked \in [Node -> [Name -> Node \cup {Absent}]]
    <3>1. unlinked \in [Node -> [Name -> Node \cup {Absent}]]
      BY <2>1, <2>2 DEF TypeOK
    <3> QED BY <2>1, <2>2, <2>3, <3>1
  <2>8. \A d \in Node, x \in Name :
          relinked[d][x] = IF d = toParent /\ x = Last(to) THEN node
                           ELSE IF d = fromParent /\ x = Last(from) THEN Absent
                           ELSE child[d][x]
    BY <2>1, <2>2 DEF TypeOK
  <2>9. ASSUME NEW d \in Node, NEW x \in Name, relinked[d][x] # Absent
        PROVE  /\ kind[d] = "dir" /\ kind[relinked[d][x]] # "free" /\ relinked[d][x] # Root
               /\ relinked[d][x] \notin gone
    <3>1. CASE d = toParent /\ x = Last(to)
      BY <2>2, <2>3, <2>8, <3>1
    <3>2. CASE ~(d = toParent /\ x = Last(to))
      <4>1. relinked[d][x] = child[d][x]
        BY <2>8, <2>9, <3>2
      <4>2. child[d][x] # existing
        BY <2>1, <2>2, <2>9, <3>2, <4>1 DEF TreeShape, SingleParent
      <4> QED BY <2>9, <4>1, <4>2 DEF TreeShape, LinksAreLive
    <3> QED BY <3>1, <3>2
  <2>10. ASSUME NEW d1 \in Node, NEW d2 \in Node, NEW x1 \in Name, NEW x2 \in Name,
                relinked[d1][x1] = relinked[d2][x2], relinked[d1][x1] # Absent
         PROVE  d1 = d2 /\ x1 = x2
    <3>1. ASSUME NEW d \in Node, NEW x \in Name, relinked[d][x] = node
          PROVE  d = toParent /\ x = Last(to)
      <4> SUFFICES ASSUME ~(d = toParent /\ x = Last(to)) PROVE FALSE
        OBVIOUS
      <4>1. child[d][x] = node /\ ~(d = fromParent /\ x = Last(from))
        BY <2>1, <2>8, <3>1
      <4> QED BY <2>1, <2>2, <4>1 DEF TreeShape, SingleParent
    <3>2. CASE relinked[d1][x1] = node
      BY <2>10, <3>1, <3>2
    <3>3. CASE relinked[d1][x1] # node
      <4>1. relinked[d1][x1] = child[d1][x1] /\ relinked[d2][x2] = child[d2][x2]
        BY <2>8, <2>10, <3>3
      <4> QED BY <2>10, <4>1 DEF TreeShape, SingleParent
    <3> QED BY <3>2, <3>3
  <2> HIDE DEF relinked, gone
  <2> QED BY <1>2, <2>4, <2>5, <2>7, <2>9, <2>10, ReclaimShape DEF TreeShape
<1> QED BY <1>1, <1>2 DEF RenameAsync

\* The walk of mkdir stops at a directory.
LEMMA ReachedIsDirectory ==
  ASSUME TypeOK, TreeShape, NEW p, NEW k \in 0..Len(p), Len(p) \in Nat, ExistingUpTo(p, k)
  PROVE  Reach(p, k) \in Node /\ kind[Reach(p, k)] = "dir"
<1>1. CASE k = 0
  BY <1>1, NodeAssumption DEF Reach, TreeShape
<1>2. CASE k # 0
  <2>1. k \in 1..k
    BY <1>2
  <2> QED BY <2>1 DEF ExistingUpTo, Directories
<1> QED BY <1>1, <1>2

\* A path is a sequence of names.
LEMMA PathLength ==
  ASSUME NEW p \in Path
  PROVE  Len(p) \in Nat /\ \A i \in 1..Len(p) : p[i] \in Name
<1>1. PICK n \in 0..PathLen : p \in [1..n -> Name]
  BY DEF Path
<1>2. n \in Nat /\ p \in Seq(Name) /\ Len(p) = n
  BY <1>1, LimitAssumption
<1> QED BY <1>1, <1>2

\* The directories mkdir -p makes form a chain.
LEMMA ChainShape ==
  ASSUME TypeOK, TreeShape, NEW p \in Path, NEW k \in 0..Len(p), NEW m \in k..Len(p),
         ExistingUpTo(p, k), CreateChain(p, k, m)
  PROVE  TreeShape'
<1> DEFINE Chains == {c \in [k + 1 .. m -> FreeNodes] : IsInjective(c)}
           chain == CHOOSE c \in Chains : TRUE
           Above(i) == IF i = k + 1 THEN Reach(p, k) ELSE chain[i - 1]
           Links(d, x) == {i \in k + 1 .. m : Above(i) = d /\ p[i] = x}
           Entry(d, x) == IF Links(d, x) # {} THEN chain[CHOOSE i \in Links(d, x) : TRUE]
                          ELSE child[d][x]
<1>1. k \in Nat /\ m \in Nat /\ k <= m
  BY PathLength
<1>2. chain \in [k + 1 .. m -> FreeNodes] /\ IsInjective(chain)
  BY DEF CreateChain
<1>3. \A n \in Node : kind'[n] = IF \E i \in k + 1 .. m : chain[i] = n THEN "dir" ELSE kind[n]
  BY DEF CreateChain
<1>4. \A d \in Node, x \in Name : child'[d][x] = Entry(d, x)
  BY DEF CreateChain
<1>5. Reach(p, k) \in Node /\ kind[Reach(p, k)] = "dir"
  BY ReachedIsDirectory, PathLength
<1> HIDE DEF chain
<1>6. \A i \in k + 1 .. m : chain[i] \in Node /\ kind[chain[i]] = "free"
  BY <1>2 DEF FreeNodes
<1>7. \A i, j \in k + 1 .. m : chain[i] = chain[j] => i = j
  BY <1>2 DEF IsInjective
<1>8. ASSUME NEW d \in Node, NEW x \in Name, Links(d, x) # {}
      PROVE  \E i \in k + 1 .. m : Above(i) = d /\ p[i] = x /\ child'[d][x] = chain[i]
  <2>1. (CHOOSE i \in Links(d, x) : TRUE) \in Links(d, x)
    BY <1>8
  <2> QED BY <1>4, <1>8, <2>1
<1>9. ASSUME NEW d \in Node, NEW x \in Name, Links(d, x) = {}
      PROVE  child'[d][x] = child[d][x]
  BY <1>4, <1>9
<1>10. ASSUME NEW i \in k + 1 .. m
       PROVE  kind'[Above(i)] = "dir"
  <2>1. CASE i = k + 1
    BY <1>3, <1>5, <1>6, <2>1
  <2>2. CASE i # k + 1
    <3>1. i - 1 \in k + 1 .. m
      BY <1>1, <2>2
    <3> QED BY <1>3, <1>6, <2>2, <3>1
  <2> QED BY <2>1, <2>2
<1>11. ASSUME NEW d \in Node, NEW x \in Name, child[d][x] # Absent, NEW i \in k + 1 .. m
       PROVE  child[d][x] # chain[i]
  BY <1>6, <1>11 DEF TreeShape, LinksAreLive
<1>12. kind'[Root] = "dir"
  BY <1>3, NodeAssumption DEF TreeShape
<1> HIDE DEF Links
<1>13. SingleParent'
  <2> SUFFICES ASSUME NEW d1 \in Node, NEW d2 \in Node, NEW x1 \in Name, NEW x2 \in Name,
                      child'[d1][x1] = child'[d2][x2], child'[d1][x1] # Absent
               PROVE  d1 = d2 /\ x1 = x2
    BY DEF SingleParent
  <2>1. CASE Links(d1, x1) # {} /\ Links(d2, x2) # {}
    BY <1>7, <1>8, <2>1
  <2>2. CASE Links(d1, x1) # {} /\ Links(d2, x2) = {}
    BY <1>8, <1>9, <1>11, <2>2
  <2>3. CASE Links(d1, x1) = {} /\ Links(d2, x2) # {}
    BY <1>8, <1>9, <1>11, <2>3
  <2>4. CASE Links(d1, x1) = {} /\ Links(d2, x2) = {}
    BY <1>9, <2>4 DEF TreeShape, SingleParent
  <2> QED BY <2>1, <2>2, <2>3, <2>4
<1>14. LinksAreLive'
  <2> SUFFICES ASSUME NEW d \in Node, NEW x \in Name, child'[d][x] # Absent
               PROVE  kind'[d] = "dir" /\ kind'[child'[d][x]] # "free" /\ child'[d][x] # Root
    BY DEF LinksAreLive
  <2>1. CASE Links(d, x) # {}
    <3>1. PICK i \in k + 1 .. m : Above(i) = d /\ child'[d][x] = chain[i]
      BY <1>8, <2>1
    <3>2. kind'[chain[i]] = "dir" /\ chain[i] # Root
      BY <1>3, <1>6, NodeAssumption DEF TreeShape
    <3> QED BY <1>10, <3>1, <3>2
  <2>2. CASE Links(d, x) = {}
    <3>1. child'[d][x] = child[d][x] /\ child[d][x] \in Node
      BY <1>9, <2>2 DEF TypeOK
    <3> QED BY <1>3, <3>1 DEF TreeShape, LinksAreLive
  <2> QED BY <2>1, <2>2
<1> QED BY <1>12, <1>13, <1>14 DEF TreeShape

\* CreateDirectoryAsync keeps the forest.
LEMMA MkdirShape ==
  ASSUME TypeOK, TreeShape, NEW p \in Path, NEW recursive, CreateDirectoryAsync(p, recursive)
  PROVE  TreeShape'
<1>1. CASE \E err : Fail(err)
  BY <1>1, FailShape
<1>2. CASE UNCHANGED tree
  BY <1>2 DEF TreeShape, SingleParent, LinksAreLive, tree
<1>3. CASE \E k \in 0..Len(p) : \E m \in k..Len(p) : ExistingUpTo(p, k) /\ CreateChain(p, k, m)
  BY <1>3, ChainShape
<1> QED BY <1>1, <1>2, <1>3 DEF CreateDirectoryAsync

\* Whatever the operations do, the entries form a forest: no node has two names,
\* no entry leads to a removed node or back to the root, only directories have
\* entries.
THEOREM TreeShapeCorrect == Spec => []TreeShape
<1>1. Init => TreeShape
  BY NodeAssumption DEF Init, TreeShape, SingleParent, LinksAreLive
<1>2. TypeOK /\ TreeShape /\ [Next]_vars => TreeShape'
  <2> SUFFICES ASSUME TypeOK, TreeShape, [Next]_vars PROVE TreeShape'
    OBVIOUS
  <2>1. ASSUME NEW p \in Path, NEW bytes, NEW appending, WriteFileLocked(p, bytes, appending)
        PROVE  TreeShape'
    BY <2>1, WriteShape
  <2>2. ASSUME NEW p \in Path, NEW bytes, WriteFileAsync(p, bytes) \/ AppendFileAsync(p, bytes)
        PROVE  TreeShape'
    BY <2>1, <2>2 DEF WriteFileAsync, AppendFileAsync
  <2>3. ASSUME NEW p \in Path, NEW recursive, CreateDirectoryAsync(p, recursive)
        PROVE  TreeShape'
    BY <2>3, MkdirShape
  <2>4. ASSUME NEW p \in Path, NEW recursive, RemoveAsync(p, recursive)
        PROVE  TreeShape'
    BY <2>4, RemoveShape
  <2>5. ASSUME NEW from \in Path, NEW to \in Path, RenameAsync(from, to)
        PROVE  TreeShape'
    BY <2>5, RenameShape
  <2>6. ASSUME NEW from \in Path, NEW to \in Path, CopyAsync(from, to)
        PROVE  TreeShape'
    BY <2>1, <2>6, FailShape DEF CopyAsync
  <2>7. ASSUME NEW goal, NEW p \in Path, CreateSymlinkAsync(goal, p)
        PROVE  TreeShape'
    BY <2>7, SymlinkShape
  <2>8. CASE UNCHANGED vars
    BY <2>8 DEF vars, tree, TreeShape, SingleParent, LinksAreLive
  <2> QED BY <2>2, <2>3, <2>4, <2>5, <2>6, <2>7, <2>8 DEF Next
<1> QED BY <1>1, <1>2, TypeCorrect, PTL DEF Spec
(***************************************************************************)
(* Nothing is cut off, and the counters are exact                          *)
(*                                                                         *)
(* The counters are changed by what an operation adds or takes, and the    *)
(* promise is about a walk from the root.  The two meet in the nodes in    *)
(* use: while no entry was moved onto or into itself these are the nodes   *)
(* that hang from the root, and the counters count them.                   *)
(***************************************************************************)

Used == {n \in Node : kind[n] # "free"}

Attached == Used \subseteq Subtree(Root)

Counted ==
  /\ totalBytes = SumFunctionOnSet(size, Files) /\ totalBytes <= MaxTotalBytes
  /\ fileCount = Cardinality(Files) /\ fileCount <= MaxFiles
  /\ directoryCount = Cardinality(Directories)

Sound == aliasedMoves = 0 => Attached /\ Counted

\* The strengthening the links need: a link has a target.
LinksLead == \A n \in Node : kind[n] = "link" => target[n] \in Target

IInv == TypeOK /\ TreeShape /\ LinksLead /\ Sound

\* What hangs from the root is what is in use.
LEMMA AttachedIs ==
  ASSUME TypeOK, TreeShape, Attached
  PROVE  Subtree(Root) = Used
<1>1. Root \in Used /\ Used \in SUBSET Node
  BY NodeAssumption DEF Used, TreeShape
<1>2. ClosedUnderChildren(Used)
  <2> SUFFICES ASSUME NEW n \in Used, NEW m \in Name, child[n][m] # Absent
               PROVE  child[n][m] \in Used
    BY DEF ClosedUnderChildren, Children
  <2>1. n \in Node /\ child[n][m] \in Node \cup {Absent}
    BY DEF Used, TypeOK
  <2> QED BY <2>1 DEF Used, TreeShape, LinksAreLive
<1>3. Subtree(Root) \subseteq Used
  BY <1>1, <1>2, NodeAssumption, SubtreeLeast
<1> QED BY <1>3 DEF Attached

\* A node that has an entry is in use: it hangs from the root.
LEMMA AttachedIn ==
  ASSUME Attached, NEW n \in Node, kind[n] # "free",
         NEW S \in SUBSET Node, Root \in S, ClosedUnderChildren(S)
  PROVE  n \in S
<1>1. n \in Subtree(Root)
  BY DEF Attached, Used
<1> QED BY <1>1, NodeAssumption, SubtreeLeast

\* What has to be shown for nothing to be cut off.
LEMMA AttachedWhen ==
  ASSUME \A n \in Node, S \in SUBSET Node :
           kind'[n] # "free" /\ Root \in S
             /\ (\A d \in S, x \in Name : child'[d][x] # Absent => child'[d][x] \in S)
           => n \in S
  PROVE  Attached'
<1>1. \A S : ClosedUnderChildren(S)' <=>
               \A d \in S, x \in Name : child'[d][x] # Absent => child'[d][x] \in S
  BY DEF ClosedUnderChildren, Children
<1> QED BY <1>1 DEF Attached, Used, Subtree

\* A node that is made hangs where it was put.
LEMMA CreateAttached ==
  ASSUME TypeOK, TreeShape, Attached, NEW dir \in Node, NEW name \in Name,
         NEW k, NEW bytes, NEW goal, kind[dir] = "dir", child[dir][name] = Absent,
         Create(dir, name, k, bytes, goal)
  PROVE  Attached'
<1>1. /\ Fresh \in Node /\ kind[Fresh] = "free"
      /\ kind' = [kind EXCEPT ![Fresh] = k] /\ child' = [child EXCEPT ![dir][name] = Fresh]
  BY FreshIsFree DEF Create
<1>2. \A d \in Node, x \in Name :
        child'[d][x] = IF d = dir /\ x = name THEN Fresh ELSE child[d][x]
  BY <1>1 DEF TypeOK
<1>3. \A n \in Node : n # Fresh => kind'[n] = kind[n]
  BY <1>1 DEF TypeOK
<1> SUFFICES ASSUME NEW n \in Node, NEW S \in SUBSET Node, kind'[n] # "free", Root \in S,
                    \A d \in S, x \in Name : child'[d][x] # Absent => child'[d][x] \in S
             PROVE  n \in S
  BY AttachedWhen
<1>4. ClosedUnderChildren(S)
  <2> SUFFICES ASSUME NEW d \in S, NEW x \in Name, child[d][x] # Absent
               PROVE  child[d][x] \in S
    BY DEF ClosedUnderChildren, Children
  <2>1. child'[d][x] = child[d][x]
    BY <1>2
  <2> QED BY <2>1
<1>5. dir \in S
  BY <1>4, AttachedIn
<1>6. Fresh \in S
  <2>1. child'[dir][name] = Fresh /\ Fresh # Absent
    BY <1>1, <1>2, NodeAssumption
  <2> QED BY <1>5, <2>1
<1> QED BY <1>3, <1>4, <1>6, AttachedIn

\* Sets of nodes are finite, and what an element adds to a sum or a count.
LEMMA Counts ==
  ASSUME TypeOK
  PROVE  /\ \A S \in SUBSET Node : IsFiniteSet(S) /\ Cardinality(S) \in Nat
                                   /\ SumFunctionOnSet(size, S) \in Int
         /\ \A S, T \in SUBSET Node : T \subseteq S =>
               /\ SumFunctionOnSet(size, S) = SumFunctionOnSet(size, T) + SumFunctionOnSet(size, S \ T)
               /\ Cardinality(S \ T) = Cardinality(S) - Cardinality(T)
         /\ \A S \in SUBSET Node : \A n \in Node \ S : Cardinality(S \cup {n}) = Cardinality(S) + 1
<1>1. size \in [Node -> Int] /\ IsFiniteSet(Node)
  BY NodeAssumption DEF TypeOK
<1>2. \A S \in SUBSET Node : IsFiniteSet(S) /\ Cardinality(S) \in Nat
                             /\ SumFunctionOnSet(size, S) \in Int
  BY <1>1, FS_Subset, FS_CardinalityType, SumElement
<1>3. ASSUME NEW S \in SUBSET Node, NEW T \in SUBSET Node, T \subseteq S
      PROVE  /\ SumFunctionOnSet(size, S) = SumFunctionOnSet(size, T) + SumFunctionOnSet(size, S \ T)
             /\ Cardinality(S \ T) = Cardinality(S) - Cardinality(T)
  <2>1. SumFunctionOnSet(size, S) = SumFunctionOnSet(size, T) + SumFunctionOnSet(size, S \ T)
    <3>1. IsFiniteSet(S) /\ T \in SUBSET S
      BY <1>2, <1>3
    <3> QED BY <1>1, <3>1, SumParts
  <2>2. Cardinality(S \ T) = Cardinality(S) - Cardinality(S \cap T) /\ S \cap T = T
    BY <1>2, <1>3, FS_Difference
  <2> QED BY <2>1, <2>2
<1>4. \A S \in SUBSET Node : \A n \in Node \ S : Cardinality(S \cup {n}) = Cardinality(S) + 1
  BY <1>2, FS_AddElement
<1> QED BY <1>2, <1>3, <1>4
-----------------------------------------------------------------------------
\* Links.  A lookup is worth what its links lead to, one level less deep at each.
Looks(fuel, lookup) ==
  [origin \in Seq(Name) |-> [n \in Node |->
     IF kind[n] # "link" THEN n
     ELSE IF MaxSymlinkHops < 1 THEN "TooManySymlinks"
     ELSE IF fuel = 0 THEN "StackOverflow"
     ELSE LET goal == TargetPath(target[n], origin)
          IN Along(lookup[goal], goal)]]

\* Dereference is the recursive function its definition says.
LEMMA LookupUnfolds ==
  \A fuel \in 0..StackDepth : Dereference[fuel] = Looks(fuel, Dereference[fuel - 1])
<1> DEFINE Is(F, m) == F = [fuel \in 0..m |-> Looks(fuel, F[fuel - 1])]
           N == {m \in Nat : \E F : Is(F, m)}
<1>1. 0 \in N
  <2>1. \A E, G : Looks(0, E) = Looks(0, G)
    BY DEF Looks
  <2> DEFINE F == [fuel \in 0..0 |-> Looks(0, 0)]
  <2>2. \A fuel \in 0..0 : F[fuel] = Looks(fuel, F[fuel - 1])
    BY <2>1
  <2>3. Is(F, 0)
    BY <2>2
  <2> QED BY <2>3
<1>2. ASSUME NEW m \in Nat, m \in N
      PROVE  m + 1 \in N
  <2>1. PICK F : Is(F, m)
    BY <1>2
  <2> DEFINE G == [fuel \in 0..m + 1 |-> IF fuel = m + 1 THEN Looks(m + 1, F[m]) ELSE F[fuel]]
  <2>2. \A fuel \in 0..m : G[fuel] = F[fuel]
    OBVIOUS
  <2>3. ASSUME NEW fuel \in 0..m + 1
        PROVE  G[fuel] = Looks(fuel, G[fuel - 1])
    <3>1. CASE fuel = m + 1
      <4>1. fuel - 1 = m /\ m \in 0..m
        BY <3>1
      <4> QED BY <2>2, <3>1, <4>1
    <3>2. CASE fuel = 0
      <4>1. \A A, B : Looks(0, A) = Looks(0, B)
        BY DEF Looks
      <4>2. G[0] = F[0] /\ F[0] = Looks(0, F[0 - 1])
        BY <2>1, <2>2
      <4> QED BY <3>2, <4>1, <4>2
    <3>3. CASE fuel \in 1..m
      <4>1. G[fuel] = F[fuel] /\ G[fuel - 1] = F[fuel - 1] /\ F[fuel] = Looks(fuel, F[fuel - 1])
        BY <2>1, <2>2, <3>3
      <4> QED BY <4>1
    <3> QED BY <3>1, <3>2, <3>3
  <2>4. Is(G, m + 1)
    BY <2>3
  <2>5. m + 1 \in Nat
    OBVIOUS
  <2> HIDE DEF G, Is
  <2> QED BY <2>4, <2>5
<1>3. StackDepth \in N
  <2> HIDE DEF N
  <2> QED BY <1>1, <1>2, Inductive, LimitAssumption
<1>4. Dereference = CHOOSE F : Is(F, StackDepth)
  BY DEF Dereference, Looks
<1>5. Is(Dereference, StackDepth)
  <2>1. \E F : Is(F, StackDepth)
    BY <1>3
  <2> HIDE DEF Is
  <2> QED BY <1>4, <2>1
<1> QED BY <1>5
\* One segment of a link's target, as Along enters it.
Enters(lookup, cur, seg) ==
  IF cur \notin Node THEN cur
  ELSE IF kind[cur] # "dir" THEN "NotFound"
  ELSE IF child[cur][seg] = Absent THEN "NotFound"
  ELSE lookup[child[cur][seg]]

\* The fold over every set of positions in the target, as Folds.tla computes it.
Enterings(g, lookup, goal) ==
  g = [s \in SUBSET DOMAIN goal |->
         IF s = {} THEN Root
         ELSE Enters(lookup, g[s \ {Max(s)}], goal[Max(s)])]

\* A set of positions has a last one.
LEMMA LastPosition ==
  ASSUME NEW L \in Nat, NEW s \in SUBSET (1..L), s # {}
  PROVE  Max(s) \in s
<1> DEFINE N == {n \in Nat : \A t \in SUBSET (1..n) : t # {} => \E x \in t : \A y \in t : x >= y}
<1>1. 0 \in N
  <2>1. \A t \in SUBSET (1..0) : t = {}
    OBVIOUS
  <2> QED BY <2>1
<1>2. ASSUME NEW n \in Nat, n \in N
      PROVE  n + 1 \in N
  <2> SUFFICES ASSUME NEW t \in SUBSET (1..n + 1), t # {}
               PROVE  \E x \in t : \A y \in t : x >= y
    OBVIOUS
  <2>1. CASE n + 1 \in t
    BY <2>1
  <2>2. CASE n + 1 \notin t
    <3>1. t \in SUBSET (1..n)
      BY <2>2
    <3> QED BY <1>2, <3>1
  <2> QED BY <2>1, <2>2
<1>3. L \in N
  <2> HIDE DEF N
  <2> QED BY <1>1, <1>2, Inductive
<1> QED BY <1>3 DEF Max

\* There is such a function on the positions of every target.
LEMMA EnteringsSome ==
  ASSUME NEW lookup, NEW goal \in Seq(Name)
  PROVE  \E g : Enterings(g, lookup, goal)
<1> DEFINE S == DOMAIN goal
           D(n) == {s \in SUBSET S : Cardinality(s) <= n}
           Is(g, n) == g = [s \in D(n) |->
                              IF s = {} THEN Root
                              ELSE Enters(lookup, g[s \ {Max(s)}], goal[Max(s)])]
           N == {n \in Nat : \E g : Is(g, n)}
<1>1. Len(goal) \in Nat /\ S = 1..Len(goal) /\ IsFiniteSet(S)
  BY FS_Interval
<1>2. \A s \in SUBSET S : IsFiniteSet(s) /\ Cardinality(s) \in Nat
  BY <1>1, FS_Subset, FS_CardinalityType
<1>3. ASSUME NEW s \in SUBSET S, s # {}
      PROVE  /\ Max(s) \in s /\ s \ {Max(s)} \in SUBSET S
             /\ Cardinality(s \ {Max(s)}) = Cardinality(s) - 1
  <2>1. Max(s) \in s
    BY <1>1, <1>3, LastPosition
  <2>2. Cardinality(s \ {Max(s)}) = Cardinality(s) - 1
    BY <1>2, <2>1, FS_RemoveElement
  <2> QED BY <2>1, <2>2
<1> HIDE DEF S
<1>4. 0 \in N
  <2> DEFINE g == [s \in D(0) |-> Root]
  <2>1. \A s \in D(0) : s = {}
    BY <1>2, FS_EmptySet
  <2>2. Is(g, 0)
    BY <2>1
  <2> QED BY <2>2
<1>5. ASSUME NEW n \in Nat, n \in N
      PROVE  n + 1 \in N
  <2>1. PICK g : Is(g, n)
    BY <1>5
  <2> DEFINE F(f, s) == IF s = {} THEN Root
                        ELSE Enters(lookup, f[s \ {Max(s)}], goal[Max(s)])
             h == [s \in D(n + 1) |-> F(g, s)]
             k == [s \in D(n + 1) |-> F(h, s)]
  <2>2. \A s \in D(n) : g[s] = h[s]
    <3> TAKE s \in D(n)
    <3>1. s \in D(n + 1)
      BY <1>2
    <3>2. g[s] = F(g, s)
      BY <2>1
    <3> HIDE DEF F
    <3> QED BY <3>1, <3>2
  <2>3. \A s \in D(n + 1) : h[s] = k[s]
    <3> TAKE s \in D(n + 1)
    <3>1. CASE s = {}
      BY <3>1
    <3>2. CASE s # {}
      <4>1. s \ {Max(s)} \in D(n)
        <5>1. Cardinality(s) <= n + 1 /\ Cardinality(s) \in Nat
          BY <1>2
        <5>2. s \ {Max(s)} \in SUBSET S /\ Cardinality(s \ {Max(s)}) = Cardinality(s) - 1
          BY <1>3, <3>2
        <5>3. Cardinality(s \ {Max(s)}) <= n
          BY <5>1, <5>2
        <5> QED BY <5>2, <5>3
      <4>2. g[s \ {Max(s)}] = h[s \ {Max(s)}]
        BY <2>2, <4>1
      <4>3. F(g, s) = F(h, s)
        <5> HIDE DEF h
        <5> QED BY <4>2
      <4>4. h[s] = F(g, s) /\ k[s] = F(h, s)
        OBVIOUS
      <4> HIDE DEF h, k, F
      <4> QED BY <4>3, <4>4
    <3> QED BY <3>1, <3>2
  <2>4. h = k
    BY <2>3
  <2>5. Is(h, n + 1)
    <3> HIDE DEF h
    <3> QED BY <2>4
  <2>6. \E j : Is(j, n + 1)
    BY <2>5
  <2> HIDE DEF Is
  <2> QED BY <2>6
<1>6. Cardinality(S) \in N
  <2>1. Cardinality(S) \in Nat
    BY <1>2
  <2> HIDE DEF N
  <2> QED BY <1>4, <1>5, <2>1, Inductive
<1>7. PICK g : Is(g, Cardinality(S))
  BY <1>6
<1>8. D(Cardinality(S)) = SUBSET S
  <2> SUFFICES ASSUME NEW s \in SUBSET S PROVE Cardinality(s) <= Cardinality(S)
    OBVIOUS
  <2> QED BY <1>1, FS_Subset
<1>9. g = [s \in SUBSET S |-> IF s = {} THEN Root
                              ELSE Enters(lookup, g[s \ {Max(s)}], goal[Max(s)])]
  BY <1>7, <1>8
<1> QED BY <1>9 DEF Enterings, S

\* The walk along a target is what that function has for all its positions.
LEMMA AlongEnters ==
  ASSUME NEW lookup, NEW goal \in Seq(Name)
  PROVE  \E g : Enterings(g, lookup, goal) /\ Along(lookup, goal) = g[DOMAIN goal]
<1> DEFINE it == CHOOSE g : Enterings(g, lookup, goal)
<1>1. Enterings(it, lookup, goal)
  BY EnteringsSome
<1>2. Along(lookup, goal) = it[DOMAIN goal]
  BY DEF Along, FoldLeft, MapThenFoldSet, Enterings, Enters
<1> QED BY <1>1, <1>2
\* What a lookup ends with: an error, or a node in use that is not a link.
Settled(v) == v \in Node => kind[v] \in {"dir", "file"}

\* A walk along a target ends with what its last lookup ends with.
LEMMA AlongSettles ==
  ASSUME TypeOK, TreeShape, NEW lookup, NEW goal \in Seq(Name),
         \A n \in Node : kind[n] # "free" => Settled(lookup[n])
  PROVE  Settled(Along(lookup, goal))
<1>1. PICK g : Enterings(g, lookup, goal) /\ Along(lookup, goal) = g[DOMAIN goal]
  BY AlongEnters
<1> DEFINE S == DOMAIN goal
           N == {n \in Nat : \A s \in SUBSET S : Cardinality(s) = n => Settled(g[s])}
<1>2. Len(goal) \in Nat /\ S = 1..Len(goal) /\ IsFiniteSet(S) /\ \A i \in S : goal[i] \in Name
  BY FS_Interval
<1>3. \A s \in SUBSET S : IsFiniteSet(s) /\ Cardinality(s) \in Nat
  BY <1>2, FS_Subset, FS_CardinalityType
<1>4. \A s \in SUBSET S : g[s] = IF s = {} THEN Root
                                 ELSE Enters(lookup, g[s \ {Max(s)}], goal[Max(s)])
  BY <1>1 DEF Enterings
<1> HIDE DEF S
<1>5. 0 \in N
  <2>1. \A s \in SUBSET S : Cardinality(s) = 0 => s = {}
    BY <1>3, FS_EmptySet
  <2>2. Settled(Root)
    BY DEF Settled, TreeShape
  <2> QED BY <1>4, <2>1, <2>2
<1>6. ASSUME NEW n \in Nat, n \in N
      PROVE  n + 1 \in N
  <2> SUFFICES ASSUME NEW s \in SUBSET S, Cardinality(s) = n + 1
               PROVE  Settled(g[s])
    OBVIOUS
  <2>1. s # {}
    BY <1>3, FS_EmptySet
  <2>2. Max(s) \in s
    BY <1>2, <2>1, LastPosition
  <2>3. Cardinality(s \ {Max(s)}) = n /\ s \ {Max(s)} \in SUBSET S
    BY <1>3, <2>2, FS_RemoveElement
  <2> DEFINE cur == g[s \ {Max(s)}]
             seg == goal[Max(s)]
  <2>4. Settled(cur)
    BY <1>6, <2>3
  <2>5. g[s] = Enters(lookup, cur, seg) /\ seg \in Name
    BY <1>2, <1>4, <2>1, <2>2
  <2> HIDE DEF cur, seg
  <2>6. CASE cur \in Node /\ child[cur][seg] # Absent /\ kind[cur] = "dir"
    <3>1. child[cur][seg] \in Node /\ kind[child[cur][seg]] # "free"
      BY <2>5, <2>6 DEF TypeOK, TreeShape, LinksAreLive
    <3>2. g[s] = lookup[child[cur][seg]]
      BY <2>5, <2>6 DEF Enters
    <3> QED BY <3>1, <3>2
  <2>7. CASE cur \notin Node
    BY <2>5, <2>7 DEF Enters, Settled
  <2>8. "NotFound" \notin Node
    BY ErrorAssumption DEF ErrorKind
  <2>9. Settled("NotFound")
    BY <2>8 DEF Settled
  <2> QED BY <2>5, <2>6, <2>7, <2>9 DEF Enters
<1>7. Cardinality(S) \in N
  <2>1. Cardinality(S) \in Nat
    BY <1>3
  <2> HIDE DEF N
  <2> QED BY <1>5, <1>6, <2>1, Inductive
<1> QED BY <1>1, <1>7 DEF S

\* The path a link stands for is a path.
LEMMA TargetIsPath ==
  ASSUME NEW t \in Target, NEW origin \in Seq(Name)
  PROVE  TargetPath(t, origin) \in Seq(Name)
<1>1. t.path \in Seq(Name) /\ t.up \in Nat
  BY TargetAssumption
<1>2. SubSeq(origin, 1, Len(origin) - 1 - t.up) \in Seq(Name)
  BY <1>1, SubSeqProperties
<1> QED BY <1>1, <1>2, ConcatProperties DEF TargetPath

\* Following an entry ends at a file, at a directory, or with an error.
LEMMA FollowSettles ==
  ASSUME TypeOK, TreeShape, LinksLead, NEW n \in Node, kind[n] # "free",
         NEW origin \in Seq(Name)
  PROVE  Settled(Follow(n, origin))
<1> DEFINE Right(lookup) == \A x \in Node, o \in Seq(Name) :
                              kind[x] # "free" => Settled(lookup[o][x])
           N == {f \in Nat : f <= StackDepth => Right(Dereference[f])}
<1>1. ASSUME NEW fuel \in 0..StackDepth, NEW x \in Node, NEW o \in Seq(Name),
             kind[x] # "free", fuel # 0 => Right(Dereference[fuel - 1])
      PROVE  Settled(Dereference[fuel][o][x])
  <2> DEFINE goal == TargetPath(target[x], o)
             v == Dereference[fuel][o][x]
  <2>1. v = IF kind[x] # "link" THEN x
            ELSE IF MaxSymlinkHops < 1 THEN "TooManySymlinks"
            ELSE IF fuel = 0 THEN "StackOverflow"
            ELSE Along(Dereference[fuel - 1][goal], goal)
    <3>1. Dereference[fuel] = Looks(fuel, Dereference[fuel - 1])
      BY LookupUnfolds
    <3>2. Looks(fuel, Dereference[fuel - 1])[o][x]
            = IF kind[x] # "link" THEN x
              ELSE IF MaxSymlinkHops < 1 THEN "TooManySymlinks"
              ELSE IF fuel = 0 THEN "StackOverflow"
              ELSE Along(Dereference[fuel - 1][goal], goal)
      BY DEF Looks
    <3> QED BY <3>1, <3>2
  <2>2. {"TooManySymlinks", "StackOverflow"} \cap Node = {}
    BY ErrorAssumption DEF ErrorKind
  <2>3. kind[x] # "link" => kind[x] \in {"dir", "file"}
    BY <1>1 DEF TypeOK
  <2>4. CASE v = Along(Dereference[fuel - 1][goal], goal) /\ fuel # 0 /\ kind[x] = "link"
    <3>1. goal \in Seq(Name)
      BY <2>4, TargetIsPath DEF LinksLead
    <3> HIDE DEF goal
    <3>2. \A c \in Node : kind[c] # "free" => Settled(Dereference[fuel - 1][goal][c])
      BY <1>1, <2>4, <3>1
    <3> QED BY <2>4, <3>1, <3>2, AlongSettles
  <2> HIDE DEF goal, v
  <2>5. CASE v \in {"TooManySymlinks", "StackOverflow"}
    BY <2>2, <2>5 DEF Settled, v
  <2>6. CASE v = x /\ kind[x] # "link"
    BY <2>3, <2>6 DEF Settled, v
  <2> QED BY <2>1, <2>4, <2>5, <2>6 DEF v
<1>2. 0 \in N
  BY <1>1, LimitAssumption
<1>3. ASSUME NEW f \in Nat, f \in N
      PROVE  f + 1 \in N
  <2> SUFFICES ASSUME f + 1 <= StackDepth PROVE Right(Dereference[f + 1])
    OBVIOUS
  <2>1. f + 1 \in 0..StackDepth /\ (f + 1) - 1 = f /\ f <= StackDepth
    BY LimitAssumption
  <2>2. Right(Dereference[f])
    BY <1>3, <2>1
  <2> QED BY <1>1, <2>1, <2>2
<1>4. StackDepth \in N /\ StackDepth <= StackDepth
  <2> HIDE DEF N
  <2> QED BY <1>2, <1>3, Inductive, LimitAssumption
<1>5. Right(Dereference[StackDepth])
  BY <1>4
<1> QED BY <1>5 DEF Follow
-----------------------------------------------------------------------------
\* What every step has to keep, beside the types and the shape.
Kept == LinksLead /\ Sound

\* Nothing happens to the tree.
LEMMA StillKept ==
  ASSUME Kept, UNCHANGED <<tree, usage, aliasedMoves>>
  PROVE  Kept'
<1>1. UNCHANGED <<kind, child, size, target, totalBytes, fileCount, directoryCount, aliasedMoves>>
  BY DEF tree, usage
<1>2. Files' = Files /\ Directories' = Directories /\ Used' = Used
  BY <1>1 DEF Files, Directories, Used
<1>3. Subtree(Root)' = Subtree(Root)
  BY <1>1 DEF Subtree, ClosedUnderChildren, Children
<1>4. LinksLead'
  BY <1>1 DEF LinksLead, Kept
<1>5. Attached' <=> Attached
  BY <1>2, <1>3 DEF Attached
<1>6. Counted' <=> Counted
  BY <1>1, <1>2 DEF Counted
<1> QED BY <1>1, <1>4, <1>5, <1>6 DEF Sound, Kept

\* A refused operation keeps the counters and what hangs from the root.
LEMMA FailKept ==
  ASSUME Kept, NEW err, Fail(err)
  PROVE  Kept'
BY StillKept DEF Fail

\* A node is made: what the counters have to follow.
LEMMA CreateCounts ==
  ASSUME TypeOK, NEW dir \in Node, NEW name \in Name, NEW k \in {"file", "link"},
         NEW bytes \in Nat, NEW goal, Create(dir, name, k, bytes, goal)
  PROVE  /\ Directories' = Directories
         /\ k = "link" => /\ SumFunctionOnSet(size, Files)' = SumFunctionOnSet(size, Files)
                          /\ Cardinality(Files)' = Cardinality(Files)
         /\ k = "file" => /\ SumFunctionOnSet(size, Files)' = SumFunctionOnSet(size, Files) + bytes
                          /\ Cardinality(Files)' = Cardinality(Files) + 1
<1>1. /\ Fresh \in Node /\ kind[Fresh] = "free"
      /\ kind' = [kind EXCEPT ![Fresh] = k] /\ size' = [size EXCEPT ![Fresh] = bytes]
  BY FreshIsFree DEF Create
<1>2. /\ Directories' = Directories
      /\ k = "link" => Files' = Files
      /\ k = "file" => Files' = Files \cup {Fresh}
  BY <1>1 DEF Files, Directories, TypeOK
<1>3. Fresh \notin Files /\ Files \in SUBSET Node
  BY <1>1 DEF Files
<1>4. size' \in [Node -> Int] /\ size'[Fresh] = bytes /\ \A x \in Files : size'[x] = size[x]
  BY <1>1, <1>3 DEF TypeOK
<1>5. IsFiniteSet(Files) /\ IsFiniteSet(Files \cup {Fresh}) /\ Files \cup {Fresh} \in SUBSET Node
  BY <1>1, <1>3, NodeAssumption, FS_Subset
<1>6. SumFunctionOnSet(size', Files) = SumFunctionOnSet(size, Files)
  BY <1>4, <1>5, SumAgree
<1>7. SumFunctionOnSet(size', Files \cup {Fresh}) = SumFunctionOnSet(size', Files) + bytes
  <2>1. (Files \cup {Fresh}) \ {Fresh} = Files /\ Fresh \in Files \cup {Fresh}
    BY <1>3
  <2>2. SumFunctionOnSet(size', Files) \in Int
    BY <1>3, <1>4, <1>5, SumElement
  <2>3. SumFunctionOnSet(size', Files \cup {Fresh})
          = size'[Fresh] + SumFunctionOnSet(size', (Files \cup {Fresh}) \ {Fresh})
    BY <1>4, <1>5, <2>1, SumElement
  <2>4. SumFunctionOnSet(size', (Files \cup {Fresh}) \ {Fresh}) = SumFunctionOnSet(size', Files)
    BY <2>1
  <2>5. SumFunctionOnSet(size', Files \cup {Fresh}) = bytes + SumFunctionOnSet(size', Files)
    BY <1>4, <2>3, <2>4
  <2> QED BY <2>2, <2>5
<1>8. Cardinality(Files \cup {Fresh}) = Cardinality(Files) + 1
  BY <1>3, <1>5, FS_AddElement
<1> QED BY <1>2, <1>6, <1>7, <1>8

\* A write makes a file or changes one, within the caps.
LEMMA WriteKept ==
  ASSUME TypeOK, TreeShape, Kept, NEW p \in Path, NEW bytes \in Nat, NEW appending,
         WriteFileLocked(p, bytes, appending)
  PROVE  Kept'
<1> DEFINE parent == ResolveParent(p)
           entry == child[parent][Last(p)]
           file == Follow(entry, p)
           final == IF appending THEN size[file] + bytes ELSE bytes
<1>1. CASE \E err : Fail(err)
  BY <1>1, FailKept
<1>2. ASSUME WriteErrors(p, bytes, appending) = {}, UNCHANGED aliasedMoves,
             \/ entry = Absent /\ CreateFile(parent, Last(p), bytes)
             \/ entry # Absent /\ Overwrite(file, final)
      PROVE  Kept'
  <2>1. parent \in Node
    BY <1>2 DEF WriteErrors
  <2>2. Last(p) \in Name /\ kind[parent] = "dir" /\ p \in Seq(Name)
    BY <2>1, ParentIsDirectory, LastIsName DEF Path
  <2>3. CASE entry = Absent
    <3>1. Create(parent, Last(p), "file", bytes, Absent)
      BY <1>2, <2>3 DEF CreateFile
    <3>2. /\ totalBytes' = totalBytes + bytes /\ fileCount' = fileCount + 1
          /\ directoryCount' = directoryCount
      BY <1>2, <2>3 DEF CreateFile
    <3>3. LinksLead'
      <4>1. /\ kind' = [kind EXCEPT ![Fresh] = "file"]
            /\ target' = [target EXCEPT ![Fresh] = Absent]
        BY <3>1 DEF Create
      <4> QED BY <4>1 DEF LinksLead, Kept, TypeOK
    <3>4. Attached => Attached'
      BY <2>1, <2>2, <2>3, <3>1, CreateAttached
    <3>5. /\ Directories' = Directories
          /\ SumFunctionOnSet(size, Files)' = SumFunctionOnSet(size, Files) + bytes
          /\ Cardinality(Files)' = Cardinality(Files) + 1
      BY <2>1, <2>2, <3>1, CreateCounts
    <3>6. Counted => totalBytes + bytes <= MaxTotalBytes /\ fileCount + 1 <= MaxFiles
      <4>1. EnsureCapacity(bytes, bytes, TRUE) = {}
        BY <1>2, <2>3 DEF WriteErrors
      <4>2. SumFunctionOnSet(size, Files) \in Int
        BY Counts DEF Files
      <4> QED BY <4>1, <4>2, LimitAssumption DEF EnsureCapacity, Counted, TypeOK
    <3>7. Counted => Counted'
      BY <3>2, <3>5, <3>6 DEF Counted
    <3> QED BY <1>2, <3>3, <3>4, <3>7 DEF Kept, Sound
  <2>4. CASE entry # Absent
    <3>1. entry \in Node /\ kind[entry] # "free"
      BY <2>1, <2>2, <2>4 DEF TypeOK, TreeShape, LinksAreLive
    <3>2. file \in Node /\ kind[file] # "dir"
      BY <1>2, <2>1, <2>4 DEF WriteErrors
    <3>3. kind[file] = "file"
      <4>1. Settled(Follow(entry, p))
        BY <2>2, <3>1, FollowSettles DEF Kept
      <4> QED BY <3>2, <4>1 DEF Settled
    <3>4. /\ size' = [size EXCEPT ![file] = final] /\ totalBytes' = totalBytes + (final - size[file])
          /\ UNCHANGED <<kind, child, target, fileCount, directoryCount, aliasedMoves>>
      BY <1>2, <2>4 DEF Overwrite
    <3>5. Files' = Files /\ Directories' = Directories /\ Used' = Used
          /\ Subtree(Root)' = Subtree(Root)
      BY <3>4 DEF Files, Directories, Used, Subtree, ClosedUnderChildren, Children
    <3>6. Attached' <=> Attached
      BY <3>5 DEF Attached
    <3>7. LinksLead'
      BY <3>4 DEF LinksLead, Kept
    <3>8. final \in Nat /\ size[file] \in Nat
      BY <3>2 DEF TypeOK
    <3> HIDE DEF final, file
    <3>9. SumFunctionOnSet(size', Files)
            = SumFunctionOnSet(size, Files) + (final - size[file])
      <4>1. IsFiniteSet(Files) /\ Files \in SUBSET Node /\ file \in Files
        BY <3>2, <3>3, Counts DEF Files
      <4>2. size \in [Node -> Int] /\ size' \in [Node -> Int] /\ size'[file] = final
        BY <3>2, <3>4, <3>8 DEF TypeOK
      <4>3. SumFunctionOnSet(size', Files \ {file}) = SumFunctionOnSet(size, Files \ {file})
        <5>1. \A x \in Files \ {file} : size'[x] = size[x]
          BY <3>4 DEF TypeOK, Files
        <5>2. IsFiniteSet(Files \ {file})
          BY <4>1, FS_Subset
        <5> QED BY <5>1, <5>2, SumAgree
      <4>4. SumFunctionOnSet(size', Files) = final + SumFunctionOnSet(size', Files \ {file})
        BY <4>1, <4>2, SumElement
      <4>5. SumFunctionOnSet(size, Files) = size[file] + SumFunctionOnSet(size, Files \ {file})
        BY <4>1, <4>2, SumElement
      <4>6. SumFunctionOnSet(size, Files \ {file}) \in Int
        <5>1. Files \ {file} \in SUBSET Node
          BY <4>1
        <5> QED BY <5>1, Counts
      <4> QED BY <3>8, <4>3, <4>4, <4>5, <4>6
    <3>10. Counted => totalBytes + (final - size[file]) <= MaxTotalBytes
      <4>1. EnsureCapacity(final, final - size[file], FALSE) = {}
        BY <1>2, <2>1, <2>4, <3>2 DEF WriteErrors, final, file
      <4>2. SumFunctionOnSet(size, Files) \in Int
        BY Counts DEF Files
      <4> QED BY <3>8, <4>1, <4>2, LimitAssumption DEF EnsureCapacity, Counted
    <3>11. Counted => Counted'
      BY <3>4, <3>5, <3>9, <3>10 DEF Counted
    <3> QED BY <3>4, <3>6, <3>7, <3>11 DEF Kept, Sound
  <2> QED BY <2>3, <2>4
<1>3. CASE \E err \in WriteErrors(p, bytes, appending) : Fail(err)
  BY <1>3, FailKept
<1> QED BY <1>2, <1>3 DEF WriteFileLocked

\* A link adds nothing to the counters.
LEMMA SymlinkKept ==
  ASSUME TypeOK, TreeShape, Kept, NEW goal \in Target, NEW p \in Path, CreateSymlinkAsync(goal, p)
  PROVE  Kept'
<1> DEFINE parent == ResolveParent(p)
<1>1. CASE \E err : Fail(err)
  BY <1>1, FailKept
<1>2. ASSUME parent \in Node, child[parent][Last(p)] = Absent,
             Create(parent, Last(p), "link", 0, goal), UNCHANGED <<usage, aliasedMoves>>
      PROVE  Kept'
  <2>1. Last(p) \in Name /\ kind[parent] = "dir"
    BY <1>2, ParentIsDirectory, LastIsName
  <2>2. LinksLead'
    <3>1. /\ kind' = [kind EXCEPT ![Fresh] = "link"]
          /\ target' = [target EXCEPT ![Fresh] = goal]
      BY <1>2 DEF Create
    <3> QED BY <3>1 DEF LinksLead, Kept, TypeOK
  <2>3. Attached => Attached'
    BY <1>2, <2>1, CreateAttached
  <2>4. /\ Directories' = Directories
        /\ SumFunctionOnSet(size, Files)' = SumFunctionOnSet(size, Files)
        /\ Cardinality(Files)' = Cardinality(Files)
    <3>1. 0 \in Nat
      OBVIOUS
    <3> HIDE DEF parent
    <3> QED BY <1>2, <2>1, <3>1, CreateCounts
  <2>5. Counted => Counted'
    BY <1>2, <2>4 DEF Counted, usage
  <2> QED BY <1>2, <2>2, <2>3, <2>5 DEF Kept, Sound
<1> QED BY <1>1, <1>2 DEF CreateSymlinkAsync
\* Nodes are taken out of use: what the counters have to follow.
LEMMA ReclaimCounts ==
  ASSUME TypeOK, NEW S \in SUBSET Node, NEW links, Reclaim(S, links)
  PROVE  /\ SumFunctionOnSet(size, Files)' = SumFunctionOnSet(size, Files) - BytesIn(S)
         /\ Cardinality(Files)' = Cardinality(Files) - Cardinality(S \cap Files)
         /\ Cardinality(Directories)' = Cardinality(Directories) - Cardinality(S \cap Directories)
<1>1. /\ kind' = [n \in Node |-> IF n \in S THEN "free" ELSE kind[n]]
      /\ size' = [n \in Node |-> IF n \in S THEN 0 ELSE size[n]]
  BY DEF Reclaim
<1>2. Files' = Files \ S /\ Directories' = Directories \ S
  BY <1>1 DEF Files, Directories
<1>3. /\ Files \in SUBSET Node /\ S \cap Files \in SUBSET Node /\ S \cap Files \subseteq Files
      /\ Files \ (S \cap Files) = Files \ S /\ Files \ S \in SUBSET Node
  BY DEF Files
<1>4. /\ Directories \in SUBSET Node /\ S \cap Directories \in SUBSET Node
      /\ S \cap Directories \subseteq Directories
      /\ Directories \ (S \cap Directories) = Directories \ S
  BY DEF Directories
<1>5. /\ SumFunctionOnSet(size, Files)
           = SumFunctionOnSet(size, S \cap Files) + SumFunctionOnSet(size, Files \ S)
      /\ Cardinality(Files \ S) = Cardinality(Files) - Cardinality(S \cap Files)
  BY <1>3, Counts
<1>6. Cardinality(Directories \ S) = Cardinality(Directories) - Cardinality(S \cap Directories)
  BY <1>4, Counts
<1>7. SumFunctionOnSet(size', Files \ S) = SumFunctionOnSet(size, Files \ S)
  <2>1. IsFiniteSet(Files \ S) /\ \A x \in Files \ S : size'[x] = size[x]
    BY <1>1, <1>3, Counts
  <2> QED BY <2>1, SumAgree
<1>8. SumFunctionOnSet(size, S \cap Files) \in Int /\ SumFunctionOnSet(size, Files \ S) \in Int
  BY <1>3, Counts
<1> QED BY <1>2, <1>5, <1>6, <1>7, <1>8 DEF BytesIn

\* Counters that follow what is reclaimed stay exact and below the caps.
LEMMA ReclaimCounted ==
  ASSUME TypeOK, Counted, NEW S \in SUBSET Node, NEW links, Reclaim(S, links), ReleaseAccounting(S)
  PROVE  Counted'
<1>1. /\ S \cap Files \in SUBSET Node /\ S \cap Directories \in SUBSET Node
      /\ Files \in SUBSET Node /\ Directories \in SUBSET Node
  BY DEF Files, Directories
<1>2. BytesIn(S) \in Nat
  <2>1. IsFiniteSet(S \cap Files) /\ size \in [Node -> Nat]
    BY <1>1, Counts DEF TypeOK
  <2> QED BY <1>1, <2>1, SumIsNatural DEF BytesIn
<1>3. /\ Cardinality(S \cap Files) \in Nat /\ Cardinality(Files) \in Nat
      /\ SumFunctionOnSet(size, Files) \in Int
  BY <1>1, Counts
<1> QED BY <1>2, <1>3, ReclaimCounts, LimitAssumption DEF Counted, ReleaseAccounting

\* Taking nodes out of use leaves every link its target.
LEMMA ReclaimLinks ==
  ASSUME LinksLead, NEW S, NEW links, Reclaim(S, links)
  PROVE  LinksLead'
BY DEF LinksLead, Reclaim

\* A removal takes a whole subtree, and nothing that hangs elsewhere.
LEMMA RemoveKept ==
  ASSUME TypeOK, TreeShape, Kept, NEW p \in Path, NEW recursive, RemoveAsync(p, recursive)
  PROVE  Kept'
<1> DEFINE parent == ResolveParent(p)
           node == child[parent][Last(p)]
           dead == Subtree(node)
           links == [child EXCEPT ![parent][Last(p)] = Absent]
<1>1. CASE \E err : Fail(err)
  BY <1>1, FailKept
<1>2. ASSUME p # <<>>, parent \in Node, node # Absent, ReleaseAccounting(dead),
             Reclaim(dead, links), UNCHANGED aliasedMoves
      PROVE  Kept'
  <2>1. Last(p) \in Name /\ kind[parent] = "dir"
    BY <1>2, ParentIsDirectory, LastIsName
  <2>2. node \in Node
    BY <1>2, <2>1 DEF TypeOK
  <2>3. /\ dead \in SUBSET Node /\ node \in dead
        /\ \A d \in dead, x \in Name : child[d][x] # Absent => child[d][x] \in dead
    BY <2>2, SubtreeClosed DEF ClosedUnderChildren, Children
  <2>4. /\ \A n \in Node : kind'[n] = IF n \in dead THEN "free" ELSE kind[n]
        /\ \A d \in Node \ dead : child'[d] = links[d]
    BY <1>2 DEF Reclaim
  <2>5. \A d \in Node, x \in Name :
          links[d][x] = IF d = parent /\ x = Last(p) THEN Absent ELSE child[d][x]
    BY <1>2, <2>1 DEF TypeOK
  <2>6. LinksLead'
    BY <1>2, ReclaimLinks DEF Kept
  <2>7. Counted => Counted'
    BY <1>2, <2>3, ReclaimCounted
  <2>8. ASSUME Attached PROVE Attached'
    <3> HIDE DEF dead, links
    <3> SUFFICES ASSUME NEW n \in Node, NEW S \in SUBSET Node, kind'[n] # "free", Root \in S,
                        \A d \in S, x \in Name : child'[d][x] # Absent => child'[d][x] \in S
                 PROVE  n \in S
      BY AttachedWhen
    <3> DEFINE T == S \cup dead
    <3>1. ASSUME NEW d \in T, NEW x \in Name, child[d][x] # Absent
          PROVE  child[d][x] \in T
      <4>1. CASE d \in dead
        BY <2>3, <3>1, <4>1
      <4>2. CASE d \notin dead
        <5>1. child'[d][x] = links[d][x] /\ d \in S
          BY <2>4, <3>1, <4>2
        <5> QED BY <2>3, <2>5, <3>1, <5>1
      <4> QED BY <4>1, <4>2
    <3>2. ClosedUnderChildren(T)
      BY <3>1 DEF ClosedUnderChildren, Children
    <3>3. n \notin dead /\ kind[n] # "free"
      BY <2>4
    <3>4. T \in SUBSET Node /\ Root \in T
      BY <2>3
    <3>5. n \in T
      <4> HIDE DEF T
      <4> QED BY <2>8, <3>2, <3>3, <3>4, AttachedIn
    <3> QED BY <3>3, <3>5
  <2> QED BY <1>2, <2>6, <2>7, <2>8 DEF Kept, Sound
<1> QED BY <1>1, <1>2 DEF RemoveAsync
\* A rename moves a subtree under its new name, and takes the childless entry
\* that had the name; unless the entry goes onto or into itself.
LEMMA RenameKept ==
  ASSUME TypeOK, TreeShape, Kept, NEW from \in Path, NEW to \in Path, RenameAsync(from, to)
  PROVE  Kept'
<1> DEFINE fromParent == ResolveParent(from)
           node == child[fromParent][Last(from)]
           toParent == ResolveParent(to)
           existing == child[toParent][Last(to)]
           unlinked == [child EXCEPT ![fromParent][Last(from)] = Absent]
           relinked == [unlinked EXCEPT ![toParent][Last(to)] = node]
           aliased == existing = node \/ (toParent \in Subtree(node) /\ ~IsPrefix(from, to))
           gone == {existing} \cap Node
           D == Subtree(node)
<1>1. CASE \E err : Fail(err)
  BY <1>1, FailKept
<1>2. ASSUME RenameErrors(from, to) = {}, ReleaseAccounting(gone),
             Reclaim({existing} \ {node, Absent}, relinked),
             aliasedMoves' = IF aliased THEN aliasedMoves + 1 ELSE aliasedMoves
      PROVE  Kept'
  <2>1. fromParent \in Node /\ toParent \in Node /\ node # Absent
    BY <1>2 DEF RenameErrors
  <2>2. /\ Last(from) \in Name /\ kind[fromParent] = "dir"
        /\ Last(to) \in Name /\ kind[toParent] = "dir"
    BY <2>1, ParentIsDirectory, LastIsName
  <2>3. node \in Node /\ existing \in Node \cup {Absent}
    BY <2>1, <2>2 DEF TypeOK
  <2>4. LinksLead'
    BY <1>2, ReclaimLinks DEF Kept
  <2>5. CASE aliased
    <3>1. aliasedMoves' # 0
      BY <1>2, <2>5 DEF TypeOK
    <3> QED BY <2>4, <3>1 DEF Kept, Sound
  <2>6. CASE ~aliased
    <3>1. existing # node /\ aliasedMoves' = aliasedMoves
      BY <1>2, <2>6
    <3>2. {existing} \ {node, Absent} = gone /\ gone \in SUBSET Node
      BY <2>3, <3>1, NodeAssumption
    <3>3. toParent \notin D
      <4>1. CASE kind[node] = "dir"
        <5>1. ~IsPrefix(from, to)
          BY <1>2, <2>1, <4>1 DEF RenameErrors
        <5> QED BY <2>6, <5>1
      <4>2. CASE kind[node] # "dir"
        <5>1. \A x \in Name : child[node][x] = Absent
          BY <2>3, <4>2 DEF TreeShape, LinksAreLive
        <5>2. ClosedUnderChildren({node})
          BY <5>1 DEF ClosedUnderChildren, Children
        <5>3. D \subseteq {node}
          BY <2>3, <5>2, SubtreeLeast
        <5> QED BY <2>2, <4>2, <5>3
      <4> QED BY <4>1, <4>2
    <3>4. \A d \in gone, x \in Name : child[d][x] = Absent
      BY <1>2, <2>1, NodeAssumption DEF RenameErrors, Children
    <3>5. /\ D \in SUBSET Node /\ node \in D
          /\ \A d \in D, x \in Name : child[d][x] # Absent => child[d][x] \in D
      BY <2>3, SubtreeClosed DEF ClosedUnderChildren, Children
    <3>6. Reclaim(gone, relinked)
      BY <1>2, <3>2
    <3>7. \A d \in Node, x \in Name :
            relinked[d][x] = IF d = toParent /\ x = Last(to) THEN node
                             ELSE IF d = fromParent /\ x = Last(from) THEN Absent
                             ELSE child[d][x]
      BY <2>1, <2>2 DEF TypeOK
    <3>8. /\ \A n \in Node : kind'[n] = IF n \in gone THEN "free" ELSE kind[n]
          /\ \A d \in Node \ gone : child'[d] = relinked[d]
      BY <3>6 DEF Reclaim
    <3>9. Counted => Counted'
      <4> HIDE DEF gone, relinked
      <4> QED BY <1>2, <3>2, <3>6, ReclaimCounted
    <3>10. existing # Absent => existing \in gone
      BY <2>3
    <3>11. node \notin gone /\ toParent \notin gone
      <4>1. CASE existing = Absent
        BY <3>1, <4>1, NodeAssumption
      <4>2. CASE existing # Absent
        BY <2>2, <3>1, <3>4, <4>2
      <4> QED BY <4>1, <4>2
    <3> HIDE DEF D, gone, relinked, unlinked
    <3>12. ASSUME Attached PROVE Attached'
      <4> SUFFICES ASSUME NEW n \in Node, NEW S \in SUBSET Node, kind'[n] # "free", Root \in S,
                          \A d \in S, x \in Name : child'[d][x] # Absent => child'[d][x] \in S
                   PROVE  n \in S
        BY AttachedWhen
      <4> DEFINE T == S \cup D \cup gone
                 U == D \cap (S \cup gone)
      <4>1. ASSUME NEW d \in S \ gone, NEW x \in Name, child[d][x] # Absent,
                   ~(d = toParent /\ x = Last(to)), ~(d = fromParent /\ x = Last(from))
            PROVE  child[d][x] \in S
        <5>1. child'[d][x] = child[d][x]
          BY <3>7, <3>8, <4>1
        <5> QED BY <4>1, <5>1
      <4>2. ASSUME NEW d \in T, NEW x \in Name, child[d][x] # Absent
            PROVE  child[d][x] \in T
        <5>1. CASE d \in gone
          BY <3>4, <4>2, <5>1
        <5>2. CASE d \in D
          BY <3>5, <4>2, <5>2
        <5>3. CASE d \in S \ gone /\ d = toParent /\ x = Last(to)
          BY <3>10, <4>2, <5>3
        <5>4. CASE d \in S \ gone /\ d = fromParent /\ x = Last(from)
          BY <3>5, <5>4
        <5>5. CASE d \in S \ gone /\ ~(d = toParent /\ x = Last(to)) /\ ~(d = fromParent /\ x = Last(from))
          BY <4>1, <4>2, <5>5
        <5> QED BY <5>1, <5>2, <5>3, <5>4, <5>5
      <4>3. T \in SUBSET Node /\ Root \in T /\ ClosedUnderChildren(T)
        BY <3>2, <3>5, <4>2 DEF ClosedUnderChildren, Children
      <4>4. \A y \in Node : kind[y] # "free" => y \in T
        <5> HIDE DEF T
        <5> QED BY <3>12, <4>3, AttachedIn
      <4>5. toParent \in S
        BY <2>1, <2>2, <3>3, <3>11, <4>4
      <4>6. node \in S
        <5>1. child'[toParent][Last(to)] = node
          BY <2>1, <2>2, <3>7, <3>8, <3>11
        <5> QED BY <2>1, <2>2, <4>5, <5>1
      <4>7. ASSUME NEW d \in U, NEW x \in Name, child[d][x] # Absent
            PROVE  child[d][x] \in U
        <5>1. d \in S \ gone /\ d # toParent /\ child[d][x] \in D
          BY <3>3, <3>4, <3>5, <4>7
        <5>2. CASE d = fromParent /\ x = Last(from)
          BY <3>5, <4>6, <5>2
        <5>3. CASE ~(d = fromParent /\ x = Last(from))
          BY <4>1, <4>7, <5>1, <5>3
        <5> QED BY <5>2, <5>3
      <4>8. U \in SUBSET Node /\ node \in U /\ ClosedUnderChildren(U)
        BY <3>5, <4>6, <4>7 DEF ClosedUnderChildren, Children
      <4>9. D \subseteq U
        <5> HIDE DEF U
        <5> QED BY <2>3, <4>8, SubtreeLeast DEF D
      <4>10. n \notin gone /\ kind[n] # "free"
        BY <3>8
      <4> QED BY <4>4, <4>9, <4>10
    <3> QED BY <2>4, <3>1, <3>9, <3>12 DEF Kept, Sound
  <2> QED BY <2>5, <2>6
<1> QED BY <1>1, <1>2 DEF RenameAsync
\* Segments k + 1 to m of p are new directories, each under the one above it, and
\* whatever was there stays.
Hangs(p, k, m, chain, above) ==
  /\ \A i \in k + 1 .. m :
       /\ above[i] = IF i = k + 1 THEN Reach(p, k) ELSE chain[i - 1]
       /\ kind[chain[i]] = "free" /\ child'[above[i]][p[i]] = chain[i]
       /\ \A j \in k + 1 .. m : chain[i] = chain[j] => i = j
  /\ \A n \in Node : kind'[n] = IF \E i \in k + 1 .. m : chain[i] = n THEN "dir" ELSE kind[n]
  /\ \A d \in Node, x \in Name : child[d][x] # Absent => child'[d][x] = child[d][x]

\* mkdir: the chain hangs from the directory the walk stopped at, link by link,
\* under names that were not taken.
LEMMA ChainHangs ==
  ASSUME TypeOK, TreeShape, NEW p \in Path, NEW recursive, NEW k \in 0..Len(p), k < Len(p),
         NEW m \in k..Len(p), ExistingUpTo(p, k), MkdirErrors(p, k, recursive) = {},
         CreateChain(p, k, m)
  PROVE  \E chain, above \in [k + 1 .. m -> Node] : Hangs(p, k, m, chain, above)
<1> DEFINE Chains == {c \in [k + 1 .. m -> FreeNodes] : IsInjective(c)}
           chain == CHOOSE c \in Chains : TRUE
           Above(i) == IF i = k + 1 THEN Reach(p, k) ELSE chain[i - 1]
           Links(d, x) == {i \in k + 1 .. m : Above(i) = d /\ p[i] = x}
           Entry(d, x) == IF Links(d, x) # {} THEN chain[CHOOSE i \in Links(d, x) : TRUE]
                          ELSE child[d][x]
<1>1. k \in Nat /\ m \in Nat /\ k <= m /\ k + 1 \in 1..Len(p)
  BY PathLength
<1>2. chain \in [k + 1 .. m -> FreeNodes] /\ IsInjective(chain)
  BY DEF CreateChain
<1>3. \A n \in Node : kind'[n] = IF \E i \in k + 1 .. m : chain[i] = n THEN "dir" ELSE kind[n]
  BY DEF CreateChain
<1>4. \A d \in Node, x \in Name : child'[d][x] = Entry(d, x)
  BY DEF CreateChain
<1>5. Reach(p, k) \in Node /\ kind[Reach(p, k)] = "dir"
  BY ReachedIsDirectory, PathLength
<1>6. child[Reach(p, k)][p[k + 1]] = Absent
  BY DEF MkdirErrors
<1> HIDE DEF chain
<1>7. \A i \in k + 1 .. m : chain[i] \in Node /\ kind[chain[i]] = "free" /\ p[i] \in Name
  BY <1>1, <1>2, PathLength DEF FreeNodes
<1>8. \A i, j \in k + 1 .. m : chain[i] = chain[j] => i = j
  BY <1>2 DEF IsInjective
<1>9. \A d \in Node, x \in Name : kind[d] = "free" => child[d][x] = Absent
  BY DEF TreeShape, LinksAreLive
<1>10. ASSUME NEW i \in k + 1 .. m
       PROVE  /\ Above(i) \in Node /\ child[Above(i)][p[i]] = Absent
              /\ \A j \in k + 1 .. m : Above(j) = Above(i) => j = i
  <2>1. CASE i = k + 1
    <3>1. ASSUME NEW j \in k + 1 .. m, Above(j) = Above(i) PROVE j = i
      <4> SUFFICES ASSUME j # k + 1 PROVE FALSE
        BY <2>1
      <4>1. j - 1 \in k + 1 .. m /\ Above(j) = chain[j - 1]
        BY <1>1
      <4> QED BY <1>5, <1>7, <2>1, <3>1, <4>1
    <3> QED BY <1>5, <1>6, <2>1, <3>1
  <2>2. CASE i # k + 1
    <3>1. i - 1 \in k + 1 .. m /\ Above(i) = chain[i - 1]
      BY <1>1, <2>2
    <3>2. ASSUME NEW j \in k + 1 .. m, Above(j) = Above(i) PROVE j = i
      <4>1. j # k + 1
        BY <1>5, <1>7, <3>1, <3>2
      <4>2. j - 1 \in k + 1 .. m /\ Above(j) = chain[j - 1]
        BY <1>1, <4>1
      <4>3. j - 1 = i - 1
        BY <1>8, <3>1, <3>2, <4>2
      <4> QED BY <1>1, <4>3
    <3> QED BY <1>7, <1>9, <3>1, <3>2
  <2> QED BY <2>1, <2>2
<1> HIDE DEF Above
<1>11. ASSUME NEW i \in k + 1 .. m
       PROVE  child'[Above(i)][p[i]] = chain[i]
  <2>1. i \in Links(Above(i), p[i])
    OBVIOUS
  <2>2. (CHOOSE j \in Links(Above(i), p[i]) : TRUE) \in Links(Above(i), p[i])
    BY <2>1
  <2>3. (CHOOSE j \in Links(Above(i), p[i]) : TRUE) = i
    BY <1>10, <2>2
  <2> QED BY <1>4, <1>7, <1>10, <2>1, <2>3
<1>12. ASSUME NEW d \in Node, NEW x \in Name, child[d][x] # Absent
       PROVE  child'[d][x] = child[d][x]
  <2>1. Links(d, x) = {}
    BY <1>10, <1>12
  <2> QED BY <1>4, <2>1
<1> DEFINE above == [i \in k + 1 .. m |-> Above(i)]
<1>13. /\ chain \in [k + 1 .. m -> Node] /\ above \in [k + 1 .. m -> Node]
       /\ \A i \in k + 1 .. m : above[i] = IF i = k + 1 THEN Reach(p, k) ELSE chain[i - 1]
       /\ \A i \in k + 1 .. m : child'[above[i]][p[i]] = chain[i]
  BY <1>2, <1>7, <1>10, <1>11 DEF Above
<1> HIDE DEF above, Links
<1> QED BY <1>3, <1>7, <1>8, <1>12, <1>13 DEF Hangs

\* A chain that is made is in use and hangs from the root.
LEMMA ChainKept ==
  ASSUME TypeOK, TreeShape, Kept, NEW p \in Path, NEW recursive, NEW k \in 0..Len(p), k < Len(p),
         NEW m \in k..Len(p), ExistingUpTo(p, k), MkdirErrors(p, k, recursive) = {},
         CreateChain(p, k, m)
  PROVE  Kept'
<1>1. k \in Nat /\ m \in Nat /\ k <= m /\ \A i \in k + 1 .. m : p[i] \in Name
  BY PathLength
<1>2. PICK chain \in [k + 1 .. m -> Node], above \in [k + 1 .. m -> Node] :
        Hangs(p, k, m, chain, above)
  BY ChainHangs
<1> DEFINE made == {chain[i] : i \in k + 1 .. m}
<1>3. Reach(p, k) \in Node /\ kind[Reach(p, k)] = "dir"
  BY ReachedIsDirectory, PathLength
<1>4. /\ UNCHANGED <<size, target, totalBytes, fileCount, aliasedMoves>>
      /\ directoryCount' = directoryCount + (m - k)
  BY DEF CreateChain
<1>5. ASSUME Attached PROVE Attached'
  <2> SUFFICES ASSUME NEW n \in Node, NEW S \in SUBSET Node, kind'[n] # "free", Root \in S,
                      \A d \in S, x \in Name : child'[d][x] # Absent => child'[d][x] \in S
               PROVE  n \in S
    BY AttachedWhen
  <2>1. ClosedUnderChildren(S)
    BY <1>2 DEF ClosedUnderChildren, Children, Hangs
  <2>2. \A y \in Node : kind[y] # "free" => y \in S
    BY <1>5, <2>1, AttachedIn
  <2> DEFINE N == {j \in Nat : k + 1 + j <= m => chain[k + 1 + j] \in S}
  <2>3. ASSUME NEW i \in k + 1 .. m, above[i] \in S PROVE chain[i] \in S
    <3>1. child'[above[i]][p[i]] = chain[i] /\ chain[i] # Absent /\ p[i] \in Name
      BY <1>1, <1>2, NodeAssumption DEF Hangs
    <3> QED BY <2>3, <3>1
  <2>4. 0 \in N
    <3> SUFFICES ASSUME k + 1 <= m PROVE chain[k + 1] \in S
      BY <1>1
    <3>1. k + 1 \in k + 1 .. m /\ above[k + 1] = Reach(p, k)
      BY <1>1, <1>2 DEF Hangs
    <3> QED BY <1>3, <2>2, <2>3, <3>1
  <2>5. ASSUME NEW j \in Nat, j \in N PROVE j + 1 \in N
    <3> SUFFICES ASSUME k + 1 + (j + 1) <= m PROVE chain[k + 1 + (j + 1)] \in S
      OBVIOUS
    <3> DEFINE i == k + 1 + (j + 1)
    <3>1. i \in k + 1 .. m /\ i # k + 1 /\ i - 1 = k + 1 + j /\ k + 1 + j <= m
      BY <1>1
    <3>2. above[i] = chain[k + 1 + j]
      BY <1>2, <3>1 DEF Hangs
    <3>3. chain[k + 1 + j] \in S
      BY <2>5, <3>1
    <3> HIDE DEF i
    <3>4. chain[i] \in S
      BY <2>3, <3>1, <3>2, <3>3
    <3> QED BY <3>4 DEF i
  <2>6. Nat \subseteq N
    <3> HIDE DEF N
    <3> QED BY <2>4, <2>5, Inductive
  <2>7. ASSUME NEW i \in k + 1 .. m PROVE chain[i] \in S
    <3>1. i - (k + 1) \in Nat /\ k + 1 + (i - (k + 1)) = i /\ i <= m
      BY <1>1
    <3>2. i - (k + 1) \in N
      BY <2>6, <3>1
    <3> QED BY <3>1, <3>2
  <2> QED BY <1>2, <2>2, <2>7 DEF Hangs
<1>6. LinksLead'
  BY <1>2, <1>4 DEF LinksLead, Kept, Hangs
<1>7. ASSUME Counted PROVE Counted'
  <2>1. Files' = Files
    BY <1>2 DEF Files, Hangs
  <2>2. Directories' = Directories \cup made
    BY <1>2 DEF Directories, Hangs
  <2>3. Directories \cap made = {} /\ made \in SUBSET Node /\ Directories \in SUBSET Node
    BY <1>2 DEF Directories, Hangs
  <2>4. Cardinality(made) = m - k
    <3>1. ExistsBijection(k + 1 .. m, made)
      <4>1. \A i, j \in k + 1 .. m : chain[i] = chain[j] => i = j
        BY <1>2 DEF Hangs
      <4>2. chain \in [k + 1 .. m -> made] /\ \A n \in made : \E i \in k + 1 .. m : chain[i] = n
        OBVIOUS
      <4>3. chain \in Bijection(k + 1 .. m, made)
        BY <4>1, <4>2 DEF Bijection, Injection, Surjection, IsInjective
      <4> QED BY <4>3 DEF ExistsBijection
    <3>2. IsFiniteSet(k + 1 .. m) /\ Cardinality(k + 1 .. m) = m - k
      <4> DEFINE a == k + 1
      <4>1. a \in Int /\ m \in Int /\ a <= m + 1 /\ m - a + 1 = m - k
        BY <1>1
      <4> HIDE DEF a
      <4>2. IsFiniteSet(a .. m) /\ Cardinality(a .. m) = IF a > m THEN 0 ELSE m - a + 1
        BY <4>1, FS_Interval
      <4>3. Cardinality(a .. m) = m - a + 1
        BY <4>1, <4>2
      <4> QED BY <4>1, <4>2, <4>3 DEF a
    <3> QED BY <3>1, <3>2, FS_Bijection
  <2>5. Cardinality(Directories \cup made) = Cardinality(Directories) + (m - k)
    <3>1. IsFiniteSet(Directories) /\ IsFiniteSet(made) /\ Cardinality(Directories) \in Nat
      BY <2>3, Counts
    <3>2. Cardinality(Directories \cup made)
            = Cardinality(Directories) + Cardinality(made) - Cardinality(Directories \cap made)
      BY <3>1, FS_Union
    <3>3. Cardinality(Directories \cap made) = 0
      BY <2>3, FS_EmptySet
    <3> HIDE DEF made
    <3> QED BY <1>1, <2>4, <3>1, <3>2, <3>3
  <2> HIDE DEF made
  <2> QED BY <1>4, <1>7, <2>1, <2>2, <2>5 DEF Counted
<1> QED BY <1>4, <1>5, <1>6, <1>7 DEF Kept, Sound

\* CreateDirectoryAsync keeps the counters exact and cuts nothing off.
LEMMA MkdirKept ==
  ASSUME TypeOK, TreeShape, Kept, NEW p \in Path, NEW recursive, CreateDirectoryAsync(p, recursive)
  PROVE  Kept'
<1>1. CASE \E err : Fail(err)
  BY <1>1, FailKept
<1>2. CASE UNCHANGED <<tree, usage, aliasedMoves>>
  BY <1>2, StillKept
<1>3. CASE \E k \in 0..Len(p) : \E m \in k..Len(p) :
             /\ k < Len(p) /\ ExistingUpTo(p, k) /\ MkdirErrors(p, k, recursive) = {}
             /\ CreateChain(p, k, m)
  BY <1>3, ChainKept
<1> QED BY <1>1, <1>2, <1>3 DEF CreateDirectoryAsync
\* Every step keeps what the counters and the reachability rest on.
LEMMA StepKept ==
  ASSUME TypeOK, TreeShape, Kept, [Next]_vars
  PROVE  Kept'
<1>1. ASSUME NEW p \in Path, NEW bytes \in 0..MaxFileBytes + 1, WriteFileAsync(p, bytes)
      PROVE  Kept'
  <2>1. bytes \in Nat
    BY LimitAssumption
  <2> QED BY <1>1, <2>1, WriteKept DEF WriteFileAsync
<1>2. ASSUME NEW p \in Path, NEW bytes \in 0..MaxFileBytes, AppendFileAsync(p, bytes)
      PROVE  Kept'
  <2>1. bytes \in Nat
    BY LimitAssumption
  <2> QED BY <1>2, <2>1, WriteKept DEF AppendFileAsync
<1>3. ASSUME NEW p \in Path, NEW recursive \in BOOLEAN, CreateDirectoryAsync(p, recursive)
      PROVE  Kept'
  BY <1>3, MkdirKept
<1>4. ASSUME NEW p \in Path, NEW recursive \in BOOLEAN, RemoveAsync(p, recursive)
      PROVE  Kept'
  BY <1>4, RemoveKept
<1>5. ASSUME NEW from \in Path, NEW to \in Path, RenameAsync(from, to)
      PROVE  Kept'
  BY <1>5, RenameKept
<1>6. ASSUME NEW from \in Path, NEW to \in Path, CopyAsync(from, to)
      PROVE  Kept'
  <2>1. CASE \E err : Fail(err)
    BY <2>1, FailKept
  <2>2. CASE ResolveExisting(from) \in Node
             /\ WriteFileLocked(to, size[ResolveExisting(from)], FALSE)
    <3>1. size[ResolveExisting(from)] \in Nat
      BY <2>2 DEF TypeOK
    <3> QED BY <2>2, <3>1, WriteKept
  <2> QED BY <1>6, <2>1, <2>2 DEF CopyAsync
<1>7. ASSUME NEW goal \in Target, NEW p \in Path, CreateSymlinkAsync(goal, p)
      PROVE  Kept'
  BY <1>7, SymlinkKept
<1>8. CASE UNCHANGED vars
  BY <1>8, StillKept DEF vars
<1> QED BY <1>1, <1>2, <1>3, <1>4, <1>5, <1>6, <1>7, <1>8 DEF Next

\* The tree of the constructor: the root with /tmp in it, and nothing else.
LEMMA InitKept ==
  ASSUME Init
  PROVE  Kept
<1>1. TypeOK
  BY NodeAssumption, TargetAssumption DEF Init, TypeOK
<1>2. Files = {} /\ Directories = {Root, Tmp} /\ Used = {Root, Tmp}
  BY NodeAssumption DEF Init, Files, Directories, Used
<1>3. LinksLead
  BY DEF Init, LinksLead
<1>4. Attached
  <2>1. Root \in Node /\ TmpName \in Name /\ Tmp \in Node /\ Tmp # Absent
    BY NodeAssumption
  <2>2. child[Root][TmpName] = Tmp
    BY <2>1 DEF Init
  <2>3. Root \in Subtree(Root) /\ Children(Root) \subseteq Subtree(Root)
    BY <1>1, <2>1, SubtreeClosed DEF ClosedUnderChildren
  <2>4. Tmp \in Children(Root)
    BY <2>1, <2>2 DEF Children
  <2> QED BY <1>2, <2>3, <2>4 DEF Attached
<1>5. Counted
  <2>1. Cardinality({Root, Tmp}) = 2
    <3>1. Cardinality({Root}) = 1 /\ IsFiniteSet({Root})
      BY FS_Singleton
    <3>2. Tmp \notin {Root}
      BY NodeAssumption
    <3>4. Cardinality({Root} \cup {Tmp}) = Cardinality({Root}) + 1
      BY <3>1, <3>2, FS_AddElement
    <3>3. {Root} \cup {Tmp} = {Root, Tmp}
      OBVIOUS
    <3> QED BY <3>1, <3>3, <3>4
  <2>2. Cardinality({}) = 0
    BY FS_EmptySet
  <2>3. SumFunctionOnSet(size, {}) = 0
    <3>1. size \in [Node -> Int] /\ {} \in SUBSET Node /\ IsFiniteSet({})
      BY <1>1, FS_EmptySet DEF TypeOK
    <3> QED BY <3>1, SumElement
  <2> QED BY <1>2, <2>1, <2>2, <2>3, LimitAssumption DEF Counted, Init
<1> QED BY <1>3, <1>4, <1>5 DEF Kept, Sound

\* The inductive invariant: the types, the forest, links that have a target, and,
\* while no entry was moved onto or into itself, every node in use hanging from
\* the root with the counters counting them, below the caps.
THEOREM Invariant == Spec => []IInv
<1>1. Init => Kept
  BY InitKept
<1>2. TypeOK /\ TreeShape /\ Kept /\ [Next]_vars => Kept'
  BY StepKept
<1>3. TypeOK /\ TreeShape /\ Kept => IInv
  BY DEF IInv, Kept
<1> QED BY <1>1, <1>2, <1>3, TypeCorrect, TreeShapeCorrect, PTL DEF Spec

\* RenameAsync, RemoveAsync and CreateDirectoryCore never cut a node in use off
\* from the root, for any tree, any links and any lengths of paths; what the
\* theorem does not speak of is a tree in which an entry was moved onto itself,
\* or a directory into itself through a link.
THEOREM AllReachableCorrect == Spec => []AllReachable
<1>1. IInv => AllReachable
  BY DEF IInv, Sound, Attached, Used, AllReachable
<1> QED BY <1>1, Invariant, PTL

\* GetUsage answers what a walk from the root would count.
THEOREM AccountingExactCorrect == Spec => []AccountingExact
<1>1. IInv => AccountingExact
  <2> SUFFICES ASSUME IInv, aliasedMoves = 0
               PROVE  /\ totalBytes = BytesIn(Subtree(Root))
                      /\ fileCount = Cardinality(Subtree(Root) \cap Files)
                      /\ directoryCount = Cardinality(Subtree(Root) \cap Directories)
    BY DEF AccountingExact
  <2>1. Subtree(Root) = Used
    BY AttachedIs DEF IInv, Sound
  <2>2. Used \cap Files = Files /\ Used \cap Directories = Directories
    BY DEF Used, Files, Directories
  <2> QED BY <2>1, <2>2 DEF BytesIn, IInv, Sound, Counted
<1> QED BY <1>1, Invariant, PTL

\* EnsureCapacity: the caps bound what hangs from the root.
THEOREM QuotaHoldsCorrect == Spec => []QuotaHolds
<1>1. IInv => QuotaHolds
  <2> SUFFICES ASSUME IInv, aliasedMoves = 0
               PROVE  /\ BytesIn(Subtree(Root)) <= MaxTotalBytes
                      /\ Cardinality(Subtree(Root) \cap Files) <= MaxFiles
    BY DEF QuotaHolds, QuotaBoundsTree
  <2>1. Subtree(Root) = Used
    BY AttachedIs DEF IInv, Sound
  <2>2. Used \cap Files = Files
    BY DEF Used, Files
  <2> QED BY <2>1, <2>2 DEF BytesIn, IInv, Sound, Counted
<1> QED BY <1>1, Invariant, PTL

\* An operation that fails has taken nothing away: mkdir -p alone may leave
\* something, and that is new.
THEOREM FailureKeepsTreeCorrect == Spec => FailureKeepsTree
<1> DEFINE Keeps == outcome' # "ok" =>
             /\ UNCHANGED <<size, target, totalBytes, fileCount>>
             /\ \A n \in Node : kind[n] # "free" => kind'[n] = kind[n]
             /\ \A n \in Node, m \in Name : child[n][m] # Absent => child'[n][m] = child[n][m]
<1>1. ASSUME TypeOK, TreeShape, [Next]_vars, outcome' # "ok"
      PROVE  /\ UNCHANGED <<size, target, totalBytes, fileCount>>
             /\ \A n \in Node : kind[n] # "free" => kind'[n] = kind[n]
             /\ \A n \in Node, m \in Name : child[n][m] # Absent => child'[n][m] = child[n][m]
  <2>1. CASE \E err : Fail(err)
    BY <2>1 DEF Fail, tree, usage
  <2>2. CASE UNCHANGED vars
    BY <2>2 DEF vars, tree, usage
  <2>3. ASSUME NEW p \in Path, NEW recursive, NEW k \in 0..Len(p), NEW m \in k..Len(p),
               k < Len(p), ExistingUpTo(p, k), MkdirErrors(p, k, recursive) = {},
               CreateChain(p, k, m)
        PROVE  /\ UNCHANGED <<size, target, totalBytes, fileCount>>
               /\ \A n \in Node : kind[n] # "free" => kind'[n] = kind[n]
               /\ \A n \in Node, x \in Name : child[n][x] # Absent => child'[n][x] = child[n][x]
    <3>1. PICK chain \in [k + 1 .. m -> Node], above \in [k + 1 .. m -> Node] :
            Hangs(p, k, m, chain, above)
      BY <1>1, <2>3, ChainHangs
    <3>2. UNCHANGED <<size, target, totalBytes, fileCount>>
      BY <2>3 DEF CreateChain
    <3>3. \A i \in k + 1 .. m : kind[chain[i]] = "free"
      BY <3>1 DEF Hangs
    <3>4. \A n \in Node : kind[n] # "free" => kind'[n] = kind[n]
      BY <3>1, <3>3 DEF Hangs
    <3>5. \A n \in Node, x \in Name : child[n][x] # Absent => child'[n][x] = child[n][x]
      BY <3>1 DEF Hangs
    <3> QED BY <3>2, <3>4, <3>5
  <2>4. CASE \E p \in Path : \E bytes : WriteFileAsync(p, bytes) \/ AppendFileAsync(p, bytes)
    BY <1>1, <2>1, <2>4 DEF WriteFileAsync, AppendFileAsync, WriteFileLocked, Succeed
  <2>5. CASE \E from, to \in Path : CopyAsync(from, to)
    BY <1>1, <2>1, <2>5 DEF CopyAsync, WriteFileLocked, Succeed
  <2>6. CASE \E p \in Path, recursive \in BOOLEAN : RemoveAsync(p, recursive)
    BY <1>1, <2>1, <2>6 DEF RemoveAsync, Succeed
  <2>7. CASE \E from, to \in Path : RenameAsync(from, to)
    BY <1>1, <2>1, <2>7 DEF RenameAsync, Succeed
  <2>8. CASE \E goal \in Target, p \in Path : CreateSymlinkAsync(goal, p)
    BY <1>1, <2>1, <2>8 DEF CreateSymlinkAsync, Succeed
  <2>9. CASE \E p \in Path, recursive \in BOOLEAN : CreateDirectoryAsync(p, recursive)
    BY <1>1, <2>1, <2>3, <2>9 DEF CreateDirectoryAsync, Succeed
  <2> QED BY <1>1, <2>2, <2>4, <2>5, <2>6, <2>7, <2>8, <2>9 DEF Next
<1>2. TypeOK /\ TreeShape /\ [Next]_vars => [Keeps]_vars
  BY <1>1
<1> QED BY <1>2, TypeCorrect, TreeShapeCorrect, PTL DEF Spec, FailureKeepsTree
=============================================================================
