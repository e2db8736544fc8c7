-------------------------- MODULE BreakpointManager --------------------------
(***************************************************************************)
(* breakpoint-manager.cc: software breakpoints as one patched byte.        *)
(*                                                                         *)
(* Memory is a function from the addresses that can carry a breakpoint to  *)
(* the first byte of the instruction there: its original byte, the trap    *)
(* opcode 0xcc, the byte 0 that Write returns on failure, or UNMAPPED      *)
(* when no module is mapped at the address.  A Breakpoint record is        *)
(* {address, data}: data is the byte Enable read before writing 0xcc.      *)
(*                                                                         *)
(* The SIGTRAP disposition is process wide: NormalTrapHandler, the         *)
(* ReenableTrapHandler installed during a re-arm, or SIG_DFL (the          *)
(* never-written oldAction of the static BreakpointManagerImpl).           *)
(* The handlers themselves act on thread state and are actions of          *)
(* HookManager; this module holds the operators they share.                *)
(***************************************************************************)

CONSTANTS
  Addrs,      \* code addresses at which a function may start
  Notifier,   \* r_debug.r_brk, the loader's "link map changed" hook
  NoAddr      \* address 0 of the zero-initialised re-arm slot

ORIG     == "orig"      \* the original first byte of an instruction
TRAP     == "int3"      \* the trap opcode 0xcc
ZERO     == "zero"      \* the byte 0 returned by a failed Write
UNMAPPED == "unmapped"  \* no page mapped at this address

Bytes    == {ORIG, TRAP, ZERO}
Memory   == Addrs \cup {Notifier}
Breakpoint == [address : Memory \cup {NoAddr}, data : Bytes]

\* Values of the SIGTRAP disposition (sigaction) and of oldAction.
Dispositions == {"Normal", "Reenable", "Default"}

\* BreakpointManager::Write(address, data) with both mprotect calls
\* succeeding: the byte is overwritten and the old byte is returned.
WriteMem(m, a, d) == [m EXCEPT ![a] = d]

\* BreakpointManager::Enable(address): the record returned, holding the
\* byte read before 0xcc is written, and the memory after the write.
Enable(m, a)    == [address |-> a, data |-> m[a]]
EnableMem(m, a) == WriteMem(m, a, TRAP)

\* BreakpointManager::Disable(bp): write back the saved byte.
DisableMem(m, bp) == WriteMem(m, bp.address, bp.data)

=============================================================================
