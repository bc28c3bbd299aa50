------------------------------- MODULE PathTree -------------------------------
(***************************************************************************)
(* What the in-memory file system promises its callers: a tree of entries *)
(* named by their paths, in which an operation puts, links, removes or    *)
(* moves the entry at one path, and caps on what the tree holds.  There   *)
(* are no nodes, no counters and no lookups here; InMemoryFileSystem,     *)
(* which has them, is checked to implement this.                          *)
(***************************************************************************)
EXTENDS Integers, FiniteSets, SequencesExt

CONSTANTS Names,         \* path components
          Links,         \* the targets of symbolic links
          Longest,       \* bound on the length of paths
          TotalCap,      \* the most bytes the tree may hold
          FileCap,       \* the most files
          TmpDir         \* the one directory that is there at the start

VARIABLE entries         \* the entry at each path that has one

Paths == UNION {[1 .. n -> Names] : n \in 0 .. Longest}

Directory == [kind |-> "dir", size |-> 0, goal |-> {}]
File(bytes) == [kind |-> "file", size |-> bytes, goal |-> {}]
Link(target) == [kind |-> "link", size |-> 0, goal |-> {target}]

IsDirectory(p) == p \in DOMAIN entries /\ entries[p].kind = "dir"
HasRoom(p) == p /= <<>> /\ IsDirectory(Front(p))
Below(p) == {q \in DOMAIN entries : IsPrefix(p, q)}
FilesIn(e) == {p \in DOMAIN e : e[p].kind = "file"}

WithinCaps(e) ==
    /\ SumFunctionOnSet([p \in DOMAIN e |-> e[p].size], DOMAIN e) <= TotalCap
    /\ Cardinality(FilesIn(e)) <= FileCap

Init == entries = [p \in {<<>>, <<TmpDir>>} |-> Directory]

\* A file is created, or gets a new content.
Put(p, bytes) ==
    /\ HasRoom(p)
    /\ p \in DOMAIN entries => entries[p].kind = "file"
    /\ entries' = (p :> File(bytes)) @@ entries
    /\ WithinCaps(entries')

\* The directories missing on the way to p, and p.
MakeDirectories(p) ==
    /\ \A n \in 0 .. Len(p) :
          SubSeq(p, 1, n) \in DOMAIN entries => IsDirectory(SubSeq(p, 1, n))
    /\ entries' = entries @@ [q \in Prefixes(p) |-> Directory]

MakeLink(target, p) ==
    /\ HasRoom(p) /\ p \notin DOMAIN entries
    /\ entries' = (p :> Link(target)) @@ entries

\* The entry at p goes, with everything below it.
RemoveEntry(p) ==
    /\ p /= <<>> /\ p \in DOMAIN entries
    /\ entries' = [q \in DOMAIN entries \ Below(p) |-> entries[q]]

(***************************************************************************)
(* The entry at from is found at to instead, everything below it keeps    *)
(* its place under it, and nothing else moves.  What was at to goes; it   *)
(* may not have had anything below it.                                    *)
(***************************************************************************)
Move(from, to) ==
    LET Rest(q) == SubSeq(q, Len(from) + 1, Len(q))
        gone == Below(from) \cup {to}
        moved == {to \o Rest(q) : q \in Below(from)}
    IN  /\ from /= <<>> /\ from \in DOMAIN entries
        /\ HasRoom(to) /\ ~IsPrefix(from, to)
        /\ Below(to) \subseteq {to}
        /\ entries' = [q \in (DOMAIN entries \ gone) \cup moved |->
                          IF q \in moved
                          THEN entries[from \o SubSeq(q, Len(to) + 1, Len(q))]
                          ELSE entries[q]]

Next ==
    \E p \in Paths :
        \/ \E bytes \in 0 .. TotalCap : Put(p, bytes)
        \/ MakeDirectories(p)
        \/ \E target \in Links : MakeLink(target, p)
        \/ RemoveEntry(p)
        \/ \E to \in Paths : Move(p, to)

Spec == Init /\ [][Next]_entries
=============================================================================
