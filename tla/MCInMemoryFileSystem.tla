------------------------ MODULE MCInMemoryFileSystem ------------------------
EXTENDS InMemoryFileSystem

\* "../tmp", the only link the passing run makes; "tmp" and "/" for the findings.
MCTarget == {[abs |-> FALSE, up |-> 1, path |-> <<TmpName>>]}
SameDirectoryTarget == {[abs |-> FALSE, up |-> 0, path |-> <<TmpName>>]}
RootTarget == {[abs |-> TRUE, up |-> 0, path |-> <<>>]}
NoTarget == {}
=============================================================================
