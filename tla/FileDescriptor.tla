---------------------------- MODULE FileDescriptor ----------------------------
(***************************************************************************)
(* What a script may rely on of its standard input: a descriptor over open *)
(* files, each with one offset that all who share the file move.  A        *)
(* construct with an input of its own, a pipe stage and a subshell have a  *)
(* descriptor of their own, gone when they end; everything else uses the   *)
(* one it finds.  ShellInput is checked to implement this.                 *)
(***************************************************************************)
EXTENDS Naturals, SequencesExt

CONSTANTS Lines,     \* the lines of each file
          NoFile

VARIABLES scopes,    \* the file under each descriptor, innermost last
          taken      \* the lines that were read of each file opened so far, in order

Opened == DOMAIN taken

Init == scopes = <<NoFile>> /\ taken = <<>>

OpenNew == taken' = Append(taken, <<>>)
NewFile == Len(taken) + 1

\* A scope with a new file, or one that shares the file of the scope around it.
Enter ==
    \/ scopes' = Append(scopes, NewFile) /\ OpenNew
    \/ scopes' = Append(scopes, Last(scopes)) /\ UNCHANGED taken

Leave == Len(scopes) > 1 /\ scopes' = Front(scopes) /\ UNCHANGED taken

\* exec < file
Replace == scopes' = Append(Front(scopes), NewFile) /\ OpenNew

\* A command takes the lines that come next: one, or all there are.
Take ==
    /\ Last(scopes) \in Opened
    /\ LET file == Last(scopes)
           next == Len(taken[file]) + 1
       IN  \E upto \in {next, Lines} :
              /\ next <= Lines
              /\ taken' = [taken EXCEPT ![file] = [line \in 1 .. upto |-> line]]
    /\ UNCHANGED scopes

Next == Enter \/ Leave \/ Replace \/ Take
Spec == Init /\ [][Next]_<<scopes, taken>>
=============================================================================
