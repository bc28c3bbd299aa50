------------------------------- MODULE OpenFiles -------------------------------
(***************************************************************************)
(* What a Python program may rely on of its files: a file is a sequence of *)
(* lines, an open file has one offset that reads, loops and writes all     *)
(* move, opening is one indivisible step, and a file opened for appending  *)
(* writes at the end whoever else does.  Files are not removed or renamed  *)
(* while they are open.  PythonFile is checked to implement this.          *)
(***************************************************************************)
EXTENDS Naturals, Sequences

CONSTANTS Paths, Lines, Missing

VARIABLES contents,      \* the lines of each file, or Missing
          descriptors    \* the open files, in the order of their opening; got: what it read last

Open(path, mode) ==
    [path |-> path, mode |-> mode, open |-> TRUE, offset |-> 0, got |-> <<>>]

Init == contents = [p \in Paths |-> Missing] /\ descriptors = <<>>

Created(p) == IF contents[p] = Missing THEN [contents EXCEPT ![p] = <<>>] ELSE contents

OpenFile ==
    \E p \in Paths, mode \in {"r", "w", "a", "x"} :
        /\ mode = "r" => contents[p] /= Missing
        /\ mode = "x" => contents[p] = Missing
        /\ descriptors' = Append(descriptors, Open(p, mode))
        /\ contents' = CASE mode = "r" -> contents
                         [] mode = "a" -> Created(p)
                         [] OTHER -> [contents EXCEPT ![p] = <<>>]

\* A new line: at the end, or at the offset, which is then the end.
Write ==
    \E d \in DOMAIN descriptors, line \in Lines :
        LET f == descriptors[d]
        IN  /\ f.open /\ f.mode /= "r"
            /\ f.mode /= "a" => f.offset = Len(contents[f.path])
            /\ contents' = [contents EXCEPT ![f.path] = Append(@, line)]
            /\ descriptors' = [descriptors EXCEPT ![d].offset = Len(contents'[f.path])]

\* The next lines: one, or all there are.
Read ==
    \E d \in DOMAIN descriptors :
        LET f == descriptors[d]
            next == f.offset + 1
        IN  /\ f.open /\ f.mode = "r" /\ next <= Len(contents[f.path])
            /\ \E upto \in {next, Len(contents[f.path])} :
                  descriptors' = [descriptors EXCEPT
                      ![d].offset = upto, ![d].got = SubSeq(contents[f.path], next, upto)]
            /\ UNCHANGED contents

Seek ==
    \E d \in DOMAIN descriptors :
        /\ descriptors[d].open /\ descriptors[d].mode = "r"
        /\ descriptors'[d].offset \in Nat
        /\ descriptors' = [descriptors EXCEPT ![d].offset = descriptors'[d].offset]
        /\ UNCHANGED contents

Close ==
    \E d \in DOMAIN descriptors :
        descriptors' = [descriptors EXCEPT ![d].open = FALSE] /\ UNCHANGED contents

Unused(p) == \A d \in DOMAIN descriptors : descriptors[d].open => descriptors[d].path /= p

Remove ==
    \E p \in Paths :
        Unused(p) /\ contents' = [contents EXCEPT ![p] = Missing] /\ UNCHANGED descriptors

Rename ==
    \E p, q \in Paths :
        /\ p /= q /\ contents[p] /= Missing /\ Unused(p) /\ Unused(q)
        /\ contents' = [contents EXCEPT ![p] = Missing, ![q] = contents[p]]
        /\ UNCHANGED descriptors

\* Path.touch and Path.write_text.
Touch == \E p \in Paths : contents' = Created(p) /\ UNCHANGED descriptors
Replace ==
    \E p \in Paths, line \in Lines :
        contents' = [contents EXCEPT ![p] = <<line>>] /\ UNCHANGED descriptors

Next == OpenFile \/ Write \/ Read \/ Seek \/ Close \/ Remove \/ Rename \/ Touch \/ Replace
Spec == Init /\ [][Next]_<<contents, descriptors>>
=============================================================================
