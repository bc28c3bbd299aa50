---------------------------- MODULE MCPythonCalls ----------------------------
EXTENDS PythonCalls, TLC

CONSTANTS lib, other
MCNames == {lib, other}
Symmetry == Permutations(MCNames)
=============================================================================
