-------------------------- MODULE MCPythonRuntime --------------------------
EXTENDS PythonRuntime, TLC

CONSTANTS o1, r1, p1, p2
MCSeekers == {o1, r1}
MCTimeouts == {NoTimeout, 0, 1}
MCCandidates == <<p1, p2>>
=============================================================================
