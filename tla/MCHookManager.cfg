\* One thread; no function is hooked twice.
CONSTANTS
  t1 = t1  t2 = t2  h1 = h1  h2 = h2  f = f  g = g
  exe = exe  lib = lib
  Notifier <- MCNotifier  InsnLen <- MCInsnLen  NoAddr = NoAddr  NoThread = NoThread  NoFunc = NoFunc
  Threads <- MCThreads1
  HookIds <- MCHookIds
  Funcs <- MCFuncs
  Paths <- MCPaths
  Exe = exe
  Unnamed = Unnamed  ProcSelfExe = exe  VdsoBase = 50
  Bases <- MCBases
  ExeBase = 0
  Offsets <- MCOffsets
  Addrs <- MCAddrs
  Symbols <- MCSymbols
  DistinctTargets = TRUE
SPECIFICATION Spec
INVARIANT TypeOK
INVARIANT BreakpointsMatchImage
INVARIANT SavedBytesOriginal
INVARIANT ArmedWhenQuiescent
INVARIANT NoCorruption
PROPERTY Rearmed
PROPERTY HookRegistryRefined
