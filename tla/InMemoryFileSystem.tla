------------------------- MODULE InMemoryFileSystem -------------------------
(***************************************************************************)
(* The in-memory backend of the sandbox: a graph of nodes below one root,  *)
(* with counters (bytes, files, directories) kept beside it and caps that  *)
(* are enforced on the counters.  One lock guards the whole tree, so every *)
(* operation of the interface is one atomic step, whoever calls it.        *)
(*                                                                         *)
(* A path is an absolute, lexically normalised path: a sequence of names.  *)
(* File contents are abstracted to their sizes; modes and time stamps are  *)
(* left out.  A symbolic link's target is either absolute, or relative     *)
(* with a number of leading ".." segments.                                 *)
(***************************************************************************)
EXTENDS Integers, Sequences, FiniteSets, SequencesExt

CONSTANTS
  Node,           \* node identities: a bound on the nodes alive at once
  Root, Tmp,      \* the root directory and the /tmp every tree starts with
  Name, TmpName,  \* path components
  LongName,       \* those longer than MaxNameLength
  Absent,         \* "no such key" in a directory's children
  PathLen,        \* bound on the length of the paths a caller passes
  Target,         \* the link targets a caller passes
  MaxFileBytes, MaxTotalBytes, MaxFiles, MaxDepth, MaxSymlinkHops, \* FsLimits
  StackDepth,     \* bound on nested lookups: the host's call stack
  MaxAliasedMoves \* bound on aliasedMoves

ASSUME NodeAssumption ==
  /\ Root \in Node /\ Tmp \in Node /\ Root # Tmp
  /\ Absent \notin Node
  /\ TmpName \in Name \ LongName
  /\ IsFiniteSet(Node)

ASSUME LimitAssumption ==
  /\ {MaxFileBytes, MaxTotalBytes, MaxFiles, MaxDepth, MaxSymlinkHops} \subseteq Nat
  /\ PathLen \in Nat /\ StackDepth \in Nat /\ MaxAliasedMoves \in Nat
  /\ MaxDepth >= 1

ASSUME TargetAssumption ==
  /\ Target \subseteq [abs : BOOLEAN, up : Nat, path : Seq(Name)]
  /\ Absent \notin Target

ErrorKind ==
  {"NotFound", "AlreadyExists", "NotADirectory", "IsADirectory", "DirectoryNotEmpty",
   "InvalidArgument", "PermissionDenied", "QuotaExceeded", "NameTooLong",
   "TooManySymlinks", "StackOverflow"}

ASSUME ErrorAssumption == Node \cap (ErrorKind \cup {"ok", "missing"}) = {}

VARIABLES
  kind,           \* what each node is; "free" when it is not in use
  child,          \* DirectoryNode.Children
  size,           \* length of a file's content
  target,         \* SymlinkNode.Target
  totalBytes, fileCount, directoryCount,  \* the accounting
  outcome,        \* how the last operation ended
  aliasedMoves    \* history: renames of an entry onto itself, or of a directory into
                  \* itself along a path that goes through a link

tree == <<kind, child, size, target>>
usage == <<totalBytes, fileCount, directoryCount>>
vars == <<tree, usage, outcome, aliasedMoves>>

Path == UNION {[1..n -> Name] : n \in 0..PathLen}

-----------------------------------------------------------------------------
(* The tree *)

Files == {n \in Node : kind[n] = "file"}
Directories == {n \in Node : kind[n] = "dir"}
FreeNodes == {n \in Node : kind[n] = "free"}

Children(n) == {child[n][m] : m \in Name} \ {Absent}
ClosedUnderChildren(S) == \A n \in S : Children(n) \subseteq S

\* Everything that hangs from n, n included.
Subtree(n) ==
  {m \in Node : \A S \in SUBSET Node : n \in S /\ ClosedUnderChildren(S) => m \in S}

BytesIn(S) == SumFunctionOnSet(size, S \cap Files)

-----------------------------------------------------------------------------
(* Path resolution *)

\* VPath.Join on the parent of the path being resolved, or the absolute target.
TargetPath(t, origin) ==
  IF t.abs THEN t.path
  ELSE SubSeq(origin, 1, Len(origin) - 1 - t.up) \o t.path

\* The target's own path, segment by segment from the root, the nested lookup of
\* every entry included; a node, or how it failed.
Along(lookup, goal) ==
  LET Enter(cur, seg) ==
        IF cur \notin Node THEN cur
        ELSE IF kind[cur] # "dir" THEN "NotFound"
        ELSE IF child[cur][seg] = Absent THEN "NotFound"
        ELSE lookup[child[cur][seg]]
  IN FoldLeft(Enter, Root, goal)

\* The hop counter is local to a call.  The nested lookup follows every link of
\* the target's own path, its last one included, with a counter of its own.
Dereference[fuel \in 0..StackDepth] ==
  [origin \in Seq(Name) |-> [n \in Node |->
     IF kind[n] # "link" THEN n
     ELSE IF MaxSymlinkHops < 1 THEN "TooManySymlinks"
     ELSE IF fuel = 0 THEN "StackOverflow"
     ELSE LET goal == TargetPath(target[n], origin)
          IN Along(Dereference[fuel - 1][goal], goal)]]

Follow(n, origin) == Dereference[StackDepth][origin][n]

\* One segment after the other, links followed; a node, or how it failed.
Walk(segments, origin, absent, notDirectory) ==
  LET Enter(cur, seg) ==
        IF cur \notin Node THEN cur
        ELSE IF kind[cur] # "dir" THEN notDirectory
        ELSE IF child[cur][seg] = Absent THEN absent
        ELSE Follow(child[cur][seg], origin)
  IN FoldLeft(Enter, Root, segments)

TryResolve(p) == Walk(p, p, "missing", "missing")

ResolveExisting(p) ==
  LET n == TryResolve(p) IN IF n = "missing" THEN "NotFound" ELSE n

ResolveParent(p) ==
  IF p = <<>> THEN "InvalidArgument"
  ELSE LET n == Walk(Front(p), p, "NotFound", "NotADirectory")
       IN IF n \in Node /\ kind[n] # "dir" THEN "NotADirectory" ELSE n

-----------------------------------------------------------------------------
(* Steps shared by the operations *)

\* A stack overflow ends the process: nothing happens after it.
Running == outcome # "crashed"

Fail(err) ==
  /\ outcome' = IF err = "StackOverflow" THEN "crashed" ELSE "failed"
  /\ UNCHANGED <<tree, usage, aliasedMoves>>

Succeed == outcome' = "ok"

Fresh == CHOOSE n \in FreeNodes : TRUE

Unlinked == [m \in Name |-> Absent]

\* A new node of kind k with that size and target, under that name of dir.
Create(dir, name, k, bytes, goal) ==
  /\ FreeNodes # {}
  /\ kind' = [kind EXCEPT ![Fresh] = k]
  /\ child' = [child EXCEPT ![dir][name] = Fresh]
  /\ size' = [size EXCEPT ![Fresh] = bytes]
  /\ target' = [target EXCEPT ![Fresh] = goal]

\* The nodes of S are no longer in use; links is what is left of the children.
Reclaim(S, links) ==
  /\ kind' = [n \in Node |-> IF n \in S THEN "free" ELSE kind[n]]
  /\ child' = [n \in Node |-> IF n \in S THEN Unlinked ELSE links[n]]
  /\ size' = [n \in Node |-> IF n \in S THEN 0 ELSE size[n]]
  /\ target' = [n \in Node |-> IF n \in S THEN Absent ELSE target[n]]

\* Seeded fault: only the files of a removed subtree are taken off the counters.
ReleaseFilesOnly(S) ==
  /\ totalBytes' = totalBytes - BytesIn(S)
  /\ fileCount' = fileCount - Cardinality(S \cap Files)
  /\ UNCHANGED directoryCount

ReleaseAccounting(S) ==
  /\ totalBytes' = totalBytes - BytesIn(S)
  /\ fileCount' = fileCount - Cardinality(S \cap Files)
  /\ directoryCount' = directoryCount - Cardinality(S \cap Directories)

\* The checks below yield the set of what they refuse with: empty, or one error.
\* Seeded fault: the total is compared before the write is added to it.
EnsureCapacityLate(fileSize, delta, newFile) ==
  IF \/ fileSize > MaxFileBytes
     \/ totalBytes > MaxTotalBytes
     \/ newFile /\ fileCount + 1 > MaxFiles
  THEN {"QuotaExceeded"} ELSE {}

EnsureCapacity(fileSize, delta, newFile) ==
  IF \/ fileSize > MaxFileBytes
     \/ totalBytes + delta > MaxTotalBytes
     \/ newFile /\ fileCount + 1 > MaxFiles
  THEN {"QuotaExceeded"} ELSE {}

EnsureDepth(p) == IF Len(p) > MaxDepth THEN {"InvalidArgument"} ELSE {}

-----------------------------------------------------------------------------
(* The operations *)

WriteErrors(p, bytes, appending) ==
  LET parent == ResolveParent(p)
      entry == child[parent][Last(p)]
      file == Follow(entry, p)
      final == IF appending THEN size[file] + bytes ELSE bytes
  IN IF parent \notin Node THEN {parent}
     ELSE IF Last(p) \in LongName THEN {"NameTooLong"}
     ELSE IF EnsureDepth(p) # {} THEN EnsureDepth(p)
     ELSE IF entry = Absent THEN EnsureCapacity(bytes, bytes, TRUE)
     ELSE IF file \notin Node THEN {file}
     ELSE IF kind[file] = "dir" THEN {"IsADirectory"}
     ELSE EnsureCapacity(final, final - size[file], FALSE)

\* Seeded fault: the new length is stored as its distance to the old one.
OverwriteWithDelta(file, final) ==
  /\ size' = [size EXCEPT ![file] = final - size[file]]
  /\ totalBytes' = totalBytes + (final - size[file])
  /\ UNCHANGED <<kind, child, target, fileCount, directoryCount>>

Overwrite(file, final) ==
  /\ size' = [size EXCEPT ![file] = final]
  /\ totalBytes' = totalBytes + (final - size[file])
  /\ UNCHANGED <<kind, child, target, fileCount, directoryCount>>

CreateFile(dir, name, bytes) ==
  /\ Create(dir, name, "file", bytes, Absent)
  /\ totalBytes' = totalBytes + bytes
  /\ fileCount' = fileCount + 1
  /\ UNCHANGED directoryCount

\* Seeded fault: the old content is dropped before the capacity check.
TruncateThenCheck(p, bytes, appending) ==
  LET parent == ResolveParent(p)
      entry == child[parent][Last(p)]
      file == Follow(entry, p)
  IN \/ \E err \in WriteErrors(p, bytes, appending) :
          IF err = "QuotaExceeded" /\ entry # Absent
          THEN Overwrite(file, 0) /\ outcome' = "failed" /\ UNCHANGED aliasedMoves
          ELSE Fail(err)
     \/ /\ WriteErrors(p, bytes, appending) = {}
        /\ \/ entry = Absent /\ CreateFile(parent, Last(p), bytes)
           \/ entry # Absent /\ Overwrite(file, IF appending THEN size[file] + bytes ELSE bytes)
        /\ Succeed
        /\ UNCHANGED aliasedMoves

WriteFileLocked(p, bytes, appending) ==
  LET parent == ResolveParent(p)
      entry == child[parent][Last(p)]
      file == Follow(entry, p)
  IN \/ \E err \in WriteErrors(p, bytes, appending) : Fail(err)
     \/ /\ WriteErrors(p, bytes, appending) = {}
        /\ \/ entry = Absent /\ CreateFile(parent, Last(p), bytes)
           \/ entry # Absent /\ Overwrite(file, IF appending THEN size[file] + bytes ELSE bytes)
        /\ Succeed
        /\ UNCHANGED aliasedMoves

WriteFileAsync(p, bytes) == Running /\ WriteFileLocked(p, bytes, FALSE)

AppendFileAsync(p, bytes) == Running /\ WriteFileLocked(p, bytes, TRUE)

CopyAsync(from, to) ==
  LET source == ResolveExisting(from) IN
  /\ Running
  /\ \/ source \notin Node /\ Fail(source)
     \/ source \in Node /\ kind[source] # "file" /\ Fail("IsADirectory")
     \/ source \in Node /\ kind[source] = "file" /\ WriteFileLocked(to, size[source], FALSE)

RemoveAsync(p, recursive) ==
  LET parent == ResolveParent(p)
      node == child[parent][Last(p)]
      dead == Subtree(node)
  IN /\ Running
     /\ \/ p = <<>> /\ Fail("PermissionDenied")
        \/ p # <<>> /\ parent \notin Node /\ Fail(parent)
        \/ /\ p # <<>> /\ parent \in Node
           /\ \/ node = Absent /\ Fail("NotFound")
              \/ /\ node # Absent
                 /\ Children(node) # {} /\ ~recursive
                 /\ Fail("DirectoryNotEmpty")
              \/ /\ node # Absent
                 /\ Children(node) = {} \/ recursive
                 /\ ReleaseAccounting(dead)
                 /\ Reclaim(dead, [child EXCEPT ![parent][Last(p)] = Absent])
                 /\ Succeed
                 /\ UNCHANGED aliasedMoves

\* Seeded fault: no check that the directory does not move into itself.
RenameErrorsNoSelfCheck(from, to) ==
  LET fromParent == ResolveParent(from)
      node == child[fromParent][Last(from)]
      toParent == ResolveParent(to)
      existing == child[toParent][Last(to)]
  IN IF fromParent \notin Node THEN {fromParent}
     ELSE IF node = Absent THEN {"NotFound"}
     ELSE IF toParent \notin Node THEN {toParent}
     ELSE IF existing # Absent /\ Children(existing) # {} THEN {"DirectoryNotEmpty"}
     ELSE {}

\* The self-move check compares the two paths as text, links unresolved.
RenameErrors(from, to) ==
  LET fromParent == ResolveParent(from)
      node == child[fromParent][Last(from)]
      toParent == ResolveParent(to)
      existing == child[toParent][Last(to)]
  IN IF fromParent \notin Node THEN {fromParent}
     ELSE IF node = Absent THEN {"NotFound"}
     ELSE IF kind[node] = "dir" /\ IsPrefix(from, to) THEN {"InvalidArgument"}
     ELSE IF toParent \notin Node THEN {toParent}
     ELSE IF existing # Absent /\ Children(existing) # {} THEN {"DirectoryNotEmpty"}
     ELSE {}

\* Seeded fault: the entry is added under its new name and kept under the old.
RenameKeepsOldName(from, to) ==
  LET node == child[ResolveParent(from)][Last(from)]
      toParent == ResolveParent(to)
      existing == child[toParent][Last(to)]
  IN /\ Running
     /\ \/ \E err \in RenameErrors(from, to) : Fail(err)
        \/ /\ RenameErrors(from, to) = {}
           /\ ReleaseAccounting({existing} \cap Node)
           /\ Reclaim({existing} \ {node, Absent}, [child EXCEPT ![toParent][Last(to)] = node])
           /\ UNCHANGED aliasedMoves
           /\ Succeed

\* Seeded fault: a directory arrives at its new place without what was in it.
RenameEmptied(from, to) ==
  LET fromParent == ResolveParent(from)
      node == child[fromParent][Last(from)]
      toParent == ResolveParent(to)
      existing == child[toParent][Last(to)]
      content == Subtree(node) \ {node}
      moved == [child EXCEPT ![fromParent][Last(from)] = Absent, ![toParent][Last(to)] = node]
  IN /\ Running
     /\ \/ \E err \in RenameErrors(from, to) : Fail(err)
        \/ /\ RenameErrors(from, to) = {}
           /\ existing # node /\ toParent \notin Subtree(node)
           /\ ReleaseAccounting(({existing} \cap Node) \cup content)
           /\ Reclaim(({existing} \ {Absent}) \cup content, [moved EXCEPT ![node] = Unlinked])
           /\ UNCHANGED aliasedMoves
           /\ Succeed

RenameAsync(from, to) ==
  LET fromParent == ResolveParent(from)
      node == child[fromParent][Last(from)]
      toParent == ResolveParent(to)
      existing == child[toParent][Last(to)]
      unlinked == [child EXCEPT ![fromParent][Last(from)] = Absent]
      relinked == [unlinked EXCEPT ![toParent][Last(to)] = node]
      aliased == existing = node \/ (toParent \in Subtree(node) /\ ~IsPrefix(from, to))
  IN /\ Running
     /\ \/ \E err \in RenameErrors(from, to) : Fail(err)
        \/ /\ RenameErrors(from, to) = {}
           /\ ReleaseAccounting({existing} \cap Node)
           /\ Reclaim({existing} \ {node, Absent}, relinked)
           /\ IF aliased THEN aliasedMoves < MaxAliasedMoves ELSE TRUE
           /\ aliasedMoves' = IF aliased THEN aliasedMoves + 1 ELSE aliasedMoves
           /\ Succeed

CreateSymlinkAsync(goal, p) ==
  LET parent == ResolveParent(p) IN
  /\ Running
  /\ \/ parent \notin Node /\ Fail(parent)
     \/ /\ parent \in Node
        /\ \/ child[parent][Last(p)] # Absent /\ Fail("AlreadyExists")
           \/ /\ child[parent][Last(p)] = Absent
              /\ \/ Last(p) \in LongName /\ Fail("NameTooLong")
                 \/ Last(p) \notin LongName /\ \E err \in EnsureDepth(p) : Fail(err)
                 \/ /\ Last(p) \notin LongName /\ EnsureDepth(p) = {}
                    /\ Create(parent, Last(p), "link", 0, goal)
                    /\ Succeed
                    /\ UNCHANGED <<usage, aliasedMoves>>

\* mkdir.  The directory k segments of p lead to, or how the walk failed.
Reach(p, k) ==
  IF k = 0 THEN Root ELSE Walk(SubSeq(p, 1, k), p, "missing", "NotADirectory")

\* The first k segments of p, and no more, are directories that exist already.
ExistingUpTo(p, k) ==
  LET Exists(j) == Reach(p, j) \in Directories /\ p[j] \notin LongName
  IN (\A j \in 1..k : Exists(j)) /\ (k < Len(p) => ~Exists(k + 1))

\* Of the segments after the k-th, the m-th is the last one that passes the
\* checks made before creating it.
CreatableUpTo(p, k, m) ==
  LET Passes(j) == j <= MaxDepth /\ p[j] \notin LongName
  IN (\A j \in k + 1 .. m : Passes(j)) /\ (m < Len(p) => ~Passes(m + 1))

\* What stops the walk at the segment after the k-th, before anything is created.
MkdirErrors(p, k, recursive) ==
  LET last == k + 1 = Len(p)
      entry == child[Reach(p, k)][p[k + 1]]
      node == Follow(entry, p)
  IN IF p[k + 1] \in LongName THEN {"NameTooLong"}
     ELSE IF entry # Absent /\ node \notin Node THEN {node}
     ELSE IF entry # Absent
          THEN {IF last /\ ~recursive THEN "AlreadyExists" ELSE "NotADirectory"}
     ELSE IF ~last /\ ~recursive THEN {"NotFound"}
     ELSE {}

\* Segments k + 1 to m become a chain of directories below the k-th.  They stay
\* when the next segment fails its check.
CreateChain(p, k, m) ==
  LET Chains == {c \in [k + 1 .. m -> FreeNodes] : IsInjective(c)}
      chain == CHOOSE c \in Chains : TRUE
      Above(i) == IF i = k + 1 THEN Reach(p, k) ELSE chain[i - 1]
      Links(d, x) == {i \in k + 1 .. m : Above(i) = d /\ p[i] = x}
  IN /\ Chains # {}
     /\ kind' = [n \in Node |-> IF \E i \in k + 1 .. m : chain[i] = n THEN "dir" ELSE kind[n]]
     /\ child' = [d \in Node |-> [x \in Name |->
                    IF Links(d, x) # {} THEN chain[CHOOSE i \in Links(d, x) : TRUE]
                    ELSE child[d][x]]]
     /\ directoryCount' = directoryCount + (m - k)
     /\ outcome' = IF m = Len(p) THEN "ok" ELSE "failed"
     /\ UNCHANGED <<size, target, totalBytes, fileCount, aliasedMoves>>

CreateDirectoryAsync(p, recursive) ==
  /\ Running
  /\ \E k \in 0..Len(p) :
       /\ ExistingUpTo(p, k)
       /\ \/ k = Len(p) /\ ~recursive /\ Fail("AlreadyExists")
          \/ k = Len(p) /\ recursive /\ Succeed /\ UNCHANGED <<tree, usage, aliasedMoves>>
          \/ /\ k < Len(p)
             /\ \E err \in MkdirErrors(p, k, recursive) : Fail(err)
          \/ /\ k < Len(p)
             /\ MkdirErrors(p, k, recursive) = {}
             /\ \E m \in k..Len(p) : CreatableUpTo(p, k, m) /\ CreateChain(p, k, m)

-----------------------------------------------------------------------------
(* The constructor leaves a root with one directory, /tmp, in it. *)
Init ==
  /\ kind = [n \in Node |-> IF n \in {Root, Tmp} THEN "dir" ELSE "free"]
  /\ child = [n \in Node |-> [m \in Name |->
                IF n = Root /\ m = TmpName THEN Tmp ELSE Absent]]
  /\ size = [n \in Node |-> 0]
  /\ target = [n \in Node |-> Absent]
  /\ totalBytes = 0 /\ fileCount = 0 /\ directoryCount = 2
  /\ outcome = "ok"
  /\ aliasedMoves = 0

Next ==
  \/ \E p \in Path, bytes \in 0..MaxFileBytes + 1 : WriteFileAsync(p, bytes)
  \/ \E p \in Path, bytes \in 0..MaxFileBytes : AppendFileAsync(p, bytes)
  \/ \E p \in Path, recursive \in BOOLEAN : CreateDirectoryAsync(p, recursive)
  \/ \E p \in Path, recursive \in BOOLEAN : RemoveAsync(p, recursive)
  \/ \E from, to \in Path : RenameAsync(from, to)
  \/ \E from, to \in Path : CopyAsync(from, to)
  \/ \E goal \in Target, p \in Path : CreateSymlinkAsync(goal, p)

Spec == Init /\ [][Next]_vars
-----------------------------------------------------------------------------
(* Properties *)

TypeOK ==
  /\ kind \in [Node -> {"free", "dir", "file", "link"}]
  /\ child \in [Node -> [Name -> Node \cup {Absent}]]
  /\ size \in [Node -> Nat]
  /\ target \in [Node -> Target \cup {Absent}]
  /\ fileCount \in Int /\ directoryCount \in Int
  /\ outcome \in {"ok", "failed", "crashed"}
  /\ aliasedMoves \in Nat

\* Every node hangs under at most one name of at most one directory.
SingleParent ==
  \A d1, d2 \in Node, m1, m2 \in Name :
    child[d1][m1] = child[d2][m2] /\ child[d1][m1] # Absent => d1 = d2 /\ m1 = m2

LinksAreLive ==
  \A d \in Node, m \in Name :
    child[d][m] # Absent =>
      /\ kind[d] = "dir"
      /\ kind[child[d][m]] # "free"
      /\ child[d][m] # Root

\* The graph the operations leave is a forest of directories with the root as
\* one of its roots: no hard link, no entry of a file or of a removed directory.
TreeShape == kind[Root] = "dir" /\ SingleParent /\ LinksAreLive

\* RenameAsync, RemoveAsync, CreateDirectoryCore: no node in use is cut off from
\* the root, unless a rename moved an entry onto or into itself.
AllReachable ==
  aliasedMoves = 0 => \A n \in Node : kind[n] # "free" => n \in Subtree(Root)

\* GetUsage: the counters are what a walk of the tree from the root would count,
\* after any sequence of writes, appends, moves over, removals and failures.
AccountingExact ==
  aliasedMoves = 0 =>
    LET live == Subtree(Root) IN
    /\ totalBytes = BytesIn(live)
    /\ fileCount = Cardinality(live \cap Files)
    /\ directoryCount = Cardinality(live \cap Directories)

\* EnsureCapacity: the caps bound what the tree holds, not only the counters.
QuotaBoundsTree ==
  LET live == Subtree(Root) IN
  /\ BytesIn(live) <= MaxTotalBytes
  /\ Cardinality(live \cap Files) <= MaxFiles
QuotaHolds == aliasedMoves = 0 => QuotaBoundsTree

\* An operation that fails takes nothing away and changes no content: at most
\* mkdir -p leaves the directories it had made before the one that failed.
FailureKeepsTree ==
  [][outcome' # "ok" =>
       /\ UNCHANGED <<size, target, totalBytes, fileCount>>
       /\ \A n \in Node : kind[n] # "free" => kind'[n] = kind[n]
       /\ \A n \in Node, m \in Name : child[n][m] # Absent => child'[n][m] = child[n][m]]_vars

-----------------------------------------------------------------------------
(* The promise to the callers *)

\* The entry that a path without links names.  No path visits a node twice.
NodeAt(p) ==
  LET Enter(cur, seg) == IF cur = Absent THEN Absent ELSE child[cur][seg]
  IN FoldLeft(Enter, Root, p)
RealPaths == UNION {[1..n -> Name] : n \in 0 .. Cardinality(Node) - 1}

Entries ==
  [p \in {q \in RealPaths : NodeAt(q) # Absent} |->
     LET n == NodeAt(p)
     IN [kind |-> kind[n], size |-> size[n],
         goal |-> IF kind[n] = "link" THEN {target[n]} ELSE {}]]

Tree == INSTANCE PathTree WITH
  Names <- Name, Links <- Target, Longest <- Cardinality(Node) - 1,
  TotalCap <- MaxTotalBytes, FileCap <- MaxFiles, TmpDir <- TmpName,
  entries <- Entries

\* All the operations together: to its callers the graph of nodes is a tree of
\* paths, in which each operation changes what it names and nothing else, and the
\* caps hold of that tree; except for a rename of an entry onto or into itself.
ImplementsPathTree ==
  /\ Tree!Init
  /\ [][UNCHANGED tree \/ aliasedMoves' > 0 \/ [Tree!Next]_Entries]_vars

-----------------------------------------------------------------------------
(* What the documentation states and the code does not keep *)

\* "Maximum symlinks followed while resolving one path": a lookup that would
\* follow more links than that is refused, so none exhausts the call stack.
SymlinkHopsBounded == StackDepth > MaxSymlinkHops => outcome # "crashed"

\* "Moving a directory into itself would detach the subtree from the root and
\* leak it, so reject it": no node in use is cut off from the root.
NoSubtreeDetached == \A n \in Node : kind[n] # "free" => n \in Subtree(Root)
=============================================================================
