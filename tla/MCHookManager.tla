---------------------------- MODULE MCHookManager ----------------------------
(***************************************************************************)
(* Instances of HookManager for TLC.  The main binary exe defines f; the   *)
(* library lib defines g and another f, and can be loaded at two bases, so *)
(* a module can come back at a different address.  Addresses are integers *)
(* so that the pc arithmetic of the trap handlers is the code's.          *)
(***************************************************************************)
EXTENDS HookManager, TLC

CONSTANTS t1, t2, h1, h2, f, g, exe, lib

MCThreads1 == {t1}
MCThreads2 == {t1, t2}
MCHookIds  == {h1, h2}
MCFuncs    == {f, g}
MCPaths    == {exe, lib}
\* Module bases and function offsets are spaced so that no instruction of
\* length MCInsnLen overlaps another; r_brk lies in ld.so at MCNotifier.
MCBases    == {0, 10, 20}
MCOffsets  == {2, 6}
MCInsnLen  == 2
MCNotifier == 100
MCAddrs    == {b + o : b \in MCBases, o \in MCOffsets}
MCSymbols  == {<<exe, f, 2>>, <<lib, g, 2>>, <<lib, f, 6>>}

\* Hook handles and threads are interchangeable names.
MCSymmetry == Permutations(MCHookIds) \cup Permutations(MCThreads2)

=============================================================================
