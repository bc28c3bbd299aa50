------------------------ MODULE MCShellInterpreter ------------------------
EXTENDS ShellInterpreter
=============================================================================
