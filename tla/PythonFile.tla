------------------------------ MODULE PythonFile ------------------------------
(***************************************************************************)
(* Files of Python programs over the shell's file system.  An open file is *)
(* a path, a position and a mode: every read takes the whole file from the *)
(* file system and every write appends to whatever the path names.  The    *)
(* file system serves one call at a time (its lock), and a host may give   *)
(* the same one to several sessions, so that programs interleave between   *)
(* the calls that one operation makes.                                     *)
(*                                                                         *)
(* Directories, links and the caps are InMemoryFileSystem's: here a call   *)
(* may be refused at any time, which changes nothing.                      *)
(***************************************************************************)
EXTENDS Naturals, Sequences

CONSTANTS Programs,
          Paths,
          MaxHandles,    \* bound on the files opened
          MaxLines,      \* bound on the lines written, each of them a number of its own
          Missing,       \* no entry at a path
          Idle,          \* a program that is not in the middle of an operation
          Odd            \* the unusual shapes that the programs may have, see Shapes

(***************************************************************************)
(* Shapes of programs for which an open file is known to behave otherwise  *)
(* than OpenFiles promises, each left out unless Odd has it:               *)
(*   late     a file appears between the check of open("a"), open("x") or  *)
(*            touch and their write, which empties it                      *)
(*   moved    a path is removed or renamed while a file is open on it      *)
(*   shared   a file opened with "w" or "x" is written where another       *)
(*            writer has lengthened or emptied it: the line goes at the    *)
(*            end and not at the offset                                    *)
(*   mixed    a read, a seek or a second loop before a loop over the lines *)
(*            has ended: they find the file at its end                     *)
(*   stale    a file is emptied while a loop over its lines is under way   *)
(*   closed   a loop or a writelines goes on after the file is closed      *)
(***************************************************************************)
Shapes == {"late", "moved", "shared", "mixed", "stale", "closed"}

ASSUME OddShapes == Odd \subseteq Shapes
ASSUME BoundsAreNatural == {MaxHandles, MaxLines} \subseteq Nat
ASSUME NoEntryIsNoFile == Missing \notin Seq(1 .. MaxLines)
ASSUME IdleIsNoOperation == Idle \notin [op : {"a", "x", "touch"}, path : Paths]

VARIABLES files,     \* the lines at each path, or Missing
          handles,   \* the PyFile objects made so far
          doing,     \* what a program is in the middle of
          history    \* see History

vars == <<files, handles, doing, history>>

(***************************************************************************)
(* Of each handle the offset that its file ought to have and what it read  *)
(* last, and the number of lines written.                                  *)
(***************************************************************************)
History == [offset : Seq(0 .. MaxLines + 1), got : Seq(Seq(1 .. MaxLines)), lines : 0 .. MaxLines]

Handle(g, path, mode) ==
    [by |-> g, path |-> path, mode |-> mode, closed |-> FALSE, position |-> 0, left |-> <<>>]

Init ==
    /\ files = [p \in Paths |-> Missing] /\ handles = <<>> /\ doing = [g \in Programs |-> Idle]
    /\ history = [offset |-> <<>>, got |-> <<>>, lines |-> 0]

(***************************************************************************)
(* The calls on the file system.                                           *)
(***************************************************************************)
Exists(p) == files[p] /= Missing
Content(p) == IF Exists(p) THEN files[p] ELSE <<>>
WriteFile(p, content) == files' = [files EXCEPT ![p] = content]

AppendFile(h, line) == WriteFile(handles[h].path, Append(Content(handles[h].path), line))

OpenOn(p) == {h \in DOMAIN handles : handles[h].path = p /\ ~handles[h].closed}
InLoop(h) == handles[h].left /= <<>>
Empties(p) == (\E h \in OpenOn(p) : InLoop(h)) => "stale" \in Odd
Quiet(p) == OpenOn(p) /= {} => "moved" \in Odd

(***************************************************************************)
(* PyFile's constructor.  "w" is one call; the others look first.          *)
(***************************************************************************)
Opened(g, p, mode) ==
    /\ Len(handles) < MaxHandles
    /\ handles' = Append(handles, Handle(g, p, mode))
    /\ history' = [history EXCEPT !.offset = Append(@, 0), !.got = Append(@, <<>>)]

OpenWrite(g) ==
    /\ doing[g] = Idle
    /\ \E p \in Paths : Empties(p) /\ WriteFile(p, <<>>) /\ Opened(g, p, "w")
    /\ UNCHANGED doing

CheckExists(g) ==
    /\ doing[g] = Idle
    /\ \E p \in Paths, op \in {"r", "a", "x", "touch"} :
          IF ~Exists(p)
          THEN /\ op /= "r" /\ doing' = [doing EXCEPT ![g] = [op |-> op, path |-> p]]
               /\ UNCHANGED <<handles, history>>
          ELSE op \in {"r", "a"} /\ Opened(g, p, op) /\ UNCHANGED doing
    /\ UNCHANGED files

\* The write after the check, which may be refused.
Create(g) ==
    /\ doing[g] /= Idle
    /\ doing' = [doing EXCEPT ![g] = Idle]
    /\ LET p == doing[g].path
       IN  \/ /\ Exists(p) => "late" \in Odd
              /\ WriteFile(p, <<>>)
              /\ IF doing[g].op = "touch"
                 THEN UNCHANGED <<handles, history>> ELSE Opened(g, p, doing[g].op)
           \/ UNCHANGED <<files, handles, history>>

(***************************************************************************)
(* Reading.                                                                *)
(***************************************************************************)
Usable(g, h) == doing[g] = Idle /\ handles[h].by = g /\ ~handles[h].closed
Reads(g, h) == Usable(g, h) /\ handles[h].mode = "r" /\ Exists(handles[h].path)
File(h) == files[handles[h].path]
Ends(h) == InLoop(h) => "mixed" \in Odd

Delivered(h, lines) ==
    [history EXCEPT !.got[h] = lines, !.offset[h] = @ + Len(lines)]

\* Seeded fault: the position moves by what was asked for.
ReadMovesOn(h, n) == handles' = [handles EXCEPT ![h].position = @ + n + 1]
Advanced(h, n) == handles' = [handles EXCEPT ![h].position = @ + n]

\* read(n), read(), readline().
Read(g) ==
    /\ \E h \in DOMAIN handles :
          /\ Reads(g, h) /\ Ends(h)
          /\ LET rest == SubSeq(File(h), handles[h].position + 1, Len(File(h)))
             IN  \E n \in {1, Len(rest)} :
                    /\ 0 < n /\ n <= Len(rest)
                    /\ Advanced(h, n)
                    /\ history' = Delivered(h, SubSeq(rest, 1, n))
    /\ UNCHANGED <<files, doing>>

\* Seeded fault: the position stays where the loop began.
LoopStays(h) == handles[h].position
\* Pieces: the first line asked for takes the file as it is, and the position to its
\* end.  A loop that finds no line changes nothing.
LoopPosition(h) == Len(File(h))

StartLoop(g) ==
    /\ \E h \in DOMAIN handles :
          /\ Reads(g, h) /\ Ends(h) /\ handles[h].position < Len(File(h))
          /\ LET rest == SubSeq(File(h), handles[h].position + 1, Len(File(h)))
             IN  /\ handles' = [handles EXCEPT ![h].left = Tail(rest), ![h].position = LoopPosition(h)]
                 /\ history' = Delivered(h, <<Head(rest)>>)
    /\ UNCHANGED <<files, doing>>

NextLine(g) ==
    /\ doing[g] = Idle
    /\ \E h \in DOMAIN handles :
          /\ handles[h].by = g /\ InLoop(h) /\ (handles[h].closed => "closed" \in Odd)
          /\ handles' = [handles EXCEPT ![h].left = Tail(@)]
          /\ history' = Delivered(h, <<Head(handles[h].left)>>)
    /\ UNCHANGED <<files, doing>>

Seek(g) ==
    /\ \E h \in DOMAIN handles, target \in 0 .. MaxLines + 1 :
          /\ Usable(g, h) /\ handles[h].mode = "r" /\ Ends(h)
          /\ handles' = [handles EXCEPT ![h].position = target]
          /\ history' = [history EXCEPT !.offset[h] = target]
    /\ UNCHANGED <<files, doing>>

(***************************************************************************)
(* Writing: at the end of what the path names now.  writelines does so for *)
(* each line of its argument, which may be a generator of the program: it  *)
(* does not look whether the file is still open, nor move the position.    *)
(***************************************************************************)
NewLine == history.lines + 1
Shared(h) == handles[h].mode /= "a" /\ history.offset[h] /= Len(Content(handles[h].path))

Appends(h) ==
    /\ NewLine <= MaxLines
    /\ Shared(h) => "shared" \in Odd
    /\ AppendFile(h, NewLine)
    /\ history' = [history EXCEPT !.lines = @ + 1, !.offset[h] = Len(files'[handles[h].path])]

Write(g) ==
    /\ \E h \in DOMAIN handles :
          Usable(g, h) /\ handles[h].mode /= "r" /\ Appends(h) /\ Advanced(h, 1)
    /\ UNCHANGED doing

WriteLines(g) ==
    /\ doing[g] = Idle
    /\ \E h \in DOMAIN handles :
          /\ handles[h].by = g /\ handles[h].mode /= "r"
          /\ handles[h].closed => "closed" \in Odd
          /\ Appends(h)
    /\ UNCHANGED <<handles, doing>>

Close(g) ==
    /\ \E h \in DOMAIN handles :
          Usable(g, h) /\ handles' = [handles EXCEPT ![h].closed = TRUE]
    /\ UNCHANGED <<files, doing, history>>

(***************************************************************************)
(* os.remove, os.rename and Path.write_text: one call each.                *)
(***************************************************************************)
Remove(g) ==
    /\ doing[g] = Idle
    /\ \E p \in Paths : Exists(p) /\ Quiet(p) /\ WriteFile(p, Missing)
    /\ UNCHANGED <<handles, doing, history>>

Rename(g) ==
    /\ doing[g] = Idle
    /\ \E p, q \in Paths :
          /\ p /= q /\ Exists(p) /\ Quiet(p) /\ Quiet(q)
          /\ files' = [files EXCEPT ![p] = Missing, ![q] = files[p]]
    /\ UNCHANGED <<handles, doing, history>>

WriteText(g) ==
    /\ doing[g] = Idle /\ NewLine <= MaxLines
    /\ \E p \in Paths : Empties(p) /\ WriteFile(p, <<NewLine>>)
    /\ history' = [history EXCEPT !.lines = @ + 1]
    /\ UNCHANGED <<handles, doing>>

Next ==
    \E g \in Programs :
        \/ OpenWrite(g) \/ CheckExists(g) \/ Create(g)
        \/ Read(g) \/ StartLoop(g) \/ NextLine(g) \/ Seek(g)
        \/ Write(g) \/ WriteLines(g) \/ Close(g)
        \/ Remove(g) \/ Rename(g) \/ WriteText(g)

Spec == Init /\ [][Next]_vars

(***************************************************************************)
(* Properties                                                              *)
(***************************************************************************)
\* Every file, handle and operation under way has its type.
TypeOK ==
    /\ files \in [Paths -> {Missing} \cup Seq(1 .. MaxLines)]
    /\ handles \in Seq([by : Programs, path : Paths, mode : {"r", "w", "a", "x"},
                        closed : BOOLEAN, position : 0 .. MaxLines + 1,
                        left : Seq(1 .. MaxLines)])
    /\ doing \in [Programs -> {Idle} \cup [op : {"a", "x", "touch"}, path : Paths]]
    /\ history \in History

(***************************************************************************)
(* What programs read and what the files hold is what OpenFiles allows:    *)
(* no line that was written is lost, doubled or moved, and reads, loops,   *)
(* writelines and seeks of one open file go on from each other, whatever   *)
(* the other programs do between the calls (PyFile, ShellFileSystem).      *)
(***************************************************************************)
Promise == INSTANCE OpenFiles
    WITH Lines <- 1 .. MaxLines, contents <- files,
         descriptors <- [h \in DOMAIN handles |->
             [path |-> handles[h].path, mode |-> handles[h].mode, open |-> ~handles[h].closed,
              offset |-> history.offset[h], got |-> history.got[h]]]

ImplementsOpenFiles == Promise!Spec
=============================================================================
