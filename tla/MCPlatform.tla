----------------------------- MODULE MCPlatform -----------------------------
(* The addresses and words of the instance of Platform that TLC checks.    *)
EXTENDS Platform

DataWords      == {0}
StoredWords    == {-1, 5}
StackDepths    == {4, DEFAULT_STACK_SIZE}
LockWords      == {LOCK_BASE}
ProcessorWords == {PROC_BASE + 4 * n : n \in 0 .. NPROCS}
=============================================================================
