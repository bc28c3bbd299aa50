----------------------------- MODULE MCShellInput -----------------------------
EXTENDS ShellInput
=============================================================================
