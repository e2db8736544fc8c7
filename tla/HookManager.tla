----------------------------- MODULE HookManager -----------------------------
(***************************************************************************)
(* hook-manager.cc with the trap handlers of breakpoint-manager.cc, the    *)
(* threads that run into the patched code, and the dynamic loader whose    *)
(* link map the HookManager follows.                                       *)
(*                                                                         *)
(* A hook (HookManager::Hook) is a handle in m_hooks with a target         *)
(* function and a fileList: per loaded module Item <<path, base>> the      *)
(* Breakpoint records Enable returned.  Every dlopen/dlclose changes the   *)
(* loader's chain and then calls r_brk, whose byte is the permanent        *)
(* notifier breakpoint; its trap runs Update, which diffs the new LoadMap  *)
(* against m_currentLoadMap and drops/installs breakpoints.                *)
(*                                                                         *)
(* Each thread is idle, about to execute the instruction at .at ("exec"),  *)
(* or inside NormalTrapHandler between restoring the byte and installing   *)
(* ReenableTrapHandler ("handler").  .step is the single-step flag of its  *)
(* saved context and .fired the hooks whose callback ran during the        *)
(* current call.  Debug-info lookup (DebugFile::Lookup) is abstracted to   *)
(* the constant Symbols; hooks are registered with source "*".             *)
(***************************************************************************)
EXTENDS Naturals, Sequences, FiniteSets, LoadMap, BreakpointManager

SE == INSTANCE SequencesExt

CONSTANTS
  Threads,          \* threads of the host program
  HookIds,          \* Hook* handles; each is registered at most once, so
                    \* |HookIds| bounds the number of registrations
  Funcs,            \* qualified function names
  Paths,            \* module file names
  Exe,              \* the main binary, loaded first and never unloaded
  Bases,            \* load bases; Exe is at ExeBase
  ExeBase,
  VdsoBase,         \* l_addr of the vdso's link, which maps no hooked code
  Offsets,          \* function start offsets inside a module
  Symbols,          \* <<path, function, offset>>: what DebugFile::Lookup finds
  DistinctTargets,  \* usage restriction: no function is hooked twice in a run
  InsnLen,          \* length of the first instruction of a hooked function
  NoThread,
  NoFunc

ASSUME Exe \in Paths /\ ExeBase \in Bases
\* The main binary's Item is named "/proc/self/exe", and its debugging
\* information is read from that file.
ASSUME ProcSelfExe = Exe /\ Unnamed \notin Paths /\ VdsoBase \notin Bases
ASSUME Symbols \subseteq Paths \X Funcs \X Offsets
ASSUME Bases \cup Offsets \cup {Notifier} \subseteq Nat
ASSUME Addrs = {b + o : b \in Bases, o \in Offsets}
ASSUME InsnLen \in Nat /\ InsnLen >= 2
\* Distinct modules and instructions never overlap.
ASSUME \A a, c \in Memory : a # c => c \notin a..(a + InsnLen)
ASSUME DistinctTargets \in BOOLEAN

Items == Paths \X Bases
\* The links of the loader's chain: the main binary and the vdso unnamed.
Links == (Paths \cup {Unnamed}) \X (Bases \cup {VdsoBase})

\* The module a link maps, whatever Parse calls it: the head is Exe.
Module(chain, i) == IF i = 1 THEN Exe ELSE chain[i][1]

\* Address of offset o in a module loaded at base b (load_base + address).
AddrAt(b, o) == b + o

\* The breakpoint-capable addresses of a module loaded at base b.
ModuleAddrs(b) == {AddrAt(b, o) : o \in Offsets}

\* Where a thread that stepped over the instruction at a goes on: the rest
\* of the function, which the model does not follow.
AfterStep == {a + InsnLen : a \in Memory}

VARIABLES
  loaded,            \* the loader's link_map chain, in chain order
  loaderLock,        \* thread inside dlopen/dlclose (dl_load_lock), or NoThread
  loadMap,           \* HookManager::m_currentLoadMap
  hooks,             \* HookManager::m_hooks, in registration order
  target,            \* Hook::functionName; kept after DeleteHook, NoFunc
                     \* for a handle never registered
  files,             \* Hook::fileList
  notifierBp,        \* HookManager::m_loadMapNotifier
  destroyed,         \* ~HookManager has run; the handler context dangles
  mem,               \* first byte at every breakpoint-capable address
  sigAction,         \* current SIGTRAP disposition
  oldAction,         \* BreakpointManagerImpl::oldAction
  currentBreakpoint, \* BreakpointManagerImpl::currentBreakpoint, the re-arm slot
  th,                \* per-thread state and saved user context
  fault              \* how the process died, or "none"

vars == <<loaded, loaderLock, loadMap, hooks, target, files, notifierBp,
          destroyed, mem, sigAction, oldAction, currentBreakpoint, th, fault>>

FileEntry == [file : Items, bps : Seq(Breakpoint)]
ThreadState == [st : {"idle", "exec", "handler"},
                pc : Memory \cup AfterStep \cup {NoAddr},
                step : BOOLEAN, fired : SUBSET HookIds]
\* abort: no owner for a trap; killed: SIGTRAP under SIG_DFL; midinsn: resumed
\* inside an instruction; segv: unmapped code touched; uaf: the handler ran
\* with the context of a destroyed HookManager.
Faults == {"none", "abort", "killed", "midinsn", "segv", "uaf"}

Live == SE!ToSet(hooks)

(***************************************************************************)
(* The data HookManager's methods work on, gathered in one record so that  *)
(* a method that runs several helpers in sequence is a chain of operators. *)
(***************************************************************************)
HM == [hooks |-> hooks, target |-> target, files |-> files,
       map |-> loadMap, mem |-> mem]

\* The offsets DebugFile::Lookup returns for function f in module p.
Matches(p, f) == SE!SetToSeq({o \in Offsets : <<p, f, o>> \in Symbols})

\* Seeded fault: the loop steps past a matching File without erasing it.
NotifyDeletedKept(s, item, h) == s

\* HookManager::NotifyDeleted: erase every File of the hook whose filename
\* and load_base equal the deleted item's.
NotifyDeleted(s, item, h) ==
  [s EXCEPT !.files[h] = SelectSeq(@, LAMBDA e : e.file # item)]

\* Seeded fault: the branch that creates a missing File also Enables the
\* address before recursing, so the recursion reads back 0xcc.
AddBreakpointEnableTwice(s, h, item, off) ==
  LET fl   == s.files[h]
      idx  == SE!SelectInSeq(fl, LAMBDA e : e.file = item)
      fl1  == IF idx = 0 THEN Append(fl, [file |-> item, bps |-> <<>>]) ELSE fl
      i    == IF idx = 0 THEN Len(fl1) ELSE idx
      a    == AddrAt(item[2], off)
      mem1 == IF idx = 0 THEN EnableMem(s.mem, a) ELSE s.mem
  IN [s EXCEPT !.files[h] = [fl1 EXCEPT ![i].bps = Append(@, Enable(mem1, a))],
               !.mem = EnableMem(mem1, a)]

\* HookManager::AddBreakpoint: find the File of the item, creating it if
\* missing (the recursive call), then Enable load_base + address and append
\* the returned record to that File.
AddBreakpoint(s, h, item, off) ==
  LET fl  == s.files[h]
      idx == SE!SelectInSeq(fl, LAMBDA e : e.file = item)
      fl1 == IF idx = 0 THEN Append(fl, [file |-> item, bps |-> <<>>]) ELSE fl
      i   == IF idx = 0 THEN Len(fl1) ELSE idx
      a   == AddrAt(item[2], off)
  IN [s EXCEPT !.files[h] = [fl1 EXCEPT ![i].bps = Append(@, Enable(s.mem, a))],
               !.mem = EnableMem(s.mem, a)]

\* HookManager::NotifyAdded: one breakpoint per match of the hook's
\* function in the module.
NotifyAdded(s, item, h) ==
  SE!FoldLeft(LAMBDA acc, o : AddBreakpoint(acc, h, item, o), s,
              Matches(item[1], s.target[h]))

\* HookManager::Update: parse the link map, drop the Files of deleted
\* modules from every hook, add breakpoints for every hook in every added
\* module, then replace m_currentLoadMap.
Update(s) ==
  LET new     == Parse(loaded)
      deleted == GetEntriesDeleted(new, s.map)
      added   == GetEntriesAdded(new, s.map)
      s1 == SE!FoldLeft(LAMBDA acc, item :
                SE!FoldLeft(LAMBDA a2, h : NotifyDeleted(a2, item, h),
                            acc, acc.hooks), s, deleted)
      s2 == SE!FoldLeft(LAMBDA acc, item :
                SE!FoldLeft(LAMBDA a2, h : NotifyAdded(a2, item, h),
                            acc, acc.hooks), s1, added)
  IN [s2 EXCEPT !.map = new]

\* HookManager::DeleteHook on the record: Update, then erase the hook from
\* m_hooks and delete it.  Its breakpoints are neither disabled nor erased
\* from memory.
DeleteHookOp(s, h) ==
  LET s1 == Update(s)
  IN [s1 EXCEPT !.hooks = SE!RemoveFirst(@, h), !.files[h] = << >>]

\* Write a record produced by the operators above back to the variables.
Store(s) ==
  /\ hooks' = s.hooks /\ target' = s.target /\ files' = s.files
  /\ loadMap' = s.map /\ mem' = s.mem

\* Every <<hook, breakpoint>> in the order BreakpointHandler visits them.
AllBps ==
  LET perHook(h) == SE!FlattenSeq([i \in 1..Len(files[h]) |->
                      [k \in 1..Len(files[h][i].bps) |-> <<h, files[h][i].bps[k]>>]])
  IN SE!FlattenSeq([j \in 1..Len(hooks) |-> perHook(hooks[j])])

\* The breakpoint addresses a hook owns.
BpAddrs(h) == {AllBps[j][2].address : j \in {j \in 1..Len(AllBps) : AllBps[j][1] = h}}

\* BreakpointHandler's search: the position in AllBps of the first
\* breakpoint at address pc, or 0.
FindBreakpoint(pc) == SE!SelectInSeq(AllBps, LAMBDA x : x[2].address = pc)

\* Seeded fault: the callback is not invoked.
CallHookSkipped(fired, h) == fired

\* hook->function (): the callback of hook h runs in the trapping thread.
CallHook(fired, h) == fired \cup {h}

(***************************************************************************)
(* Initial state: the HookManager has been constructed with only the main  *)
(* binary loaded.  The constructor parsed the LoadMap, set the             *)
(* breakpoint handler (Peek installs NormalTrapHandler) and enabled the    *)
(* notifier breakpoint at r_brk.                                           *)
(***************************************************************************)
Init ==
  /\ loaded = << <<Unnamed, ExeBase>>, <<Unnamed, VdsoBase>> >>
  /\ loaderLock = NoThread
  /\ loadMap = Parse(loaded)
  /\ hooks = << >>
  /\ target = [h \in HookIds |-> NoFunc]
  /\ files = [h \in HookIds |-> << >>]
  /\ notifierBp = [address |-> Notifier, data |-> ORIG]
  /\ destroyed = FALSE
  /\ mem = [a \in Memory |-> IF a = Notifier THEN TRAP
                             ELSE IF a \in ModuleAddrs(ExeBase) THEN ORIG
                             ELSE UNMAPPED]
  /\ sigAction = "Normal"
  /\ oldAction = "Default"
  /\ currentBreakpoint = [address |-> NoAddr, data |-> ZERO]
  /\ th = [t \in Threads |-> [st |-> "idle", pc |-> NoAddr, step |-> FALSE,
                              fired |-> {}]]
  /\ fault = "none"

Alive == fault = "none"

\* The process dies with reason r; nothing else changes.
Die(r) ==
  /\ fault' = r
  /\ UNCHANGED <<loaded, loaderLock, loadMap, hooks, target, files, notifierBp,
                 destroyed, mem, sigAction, oldAction, currentBreakpoint, th>>

\* The thread is past the first instruction of the function it called and
\* runs the rest of it; a thread that was calling r_brk from dlopen/dlclose
\* returns and drops the loader lock.
Finish(t) ==
  /\ th' = [th EXCEPT ![t].st = "idle", ![t].pc = NoAddr, ![t].step = FALSE]
  /\ loaderLock' = IF loaderLock = t THEN NoThread ELSE loaderLock

\* A thread calls a function of a loaded module.
Call(t, a) ==
  /\ Alive /\ th[t].st = "idle"
  /\ th' = [th EXCEPT ![t] = [st |-> "exec", pc |-> a, step |-> FALSE,
                               fired |-> {}]]
  /\ UNCHANGED <<loaded, loaderLock, loadMap, hooks, target, files, notifierBp,
                 destroyed, mem, sigAction, oldAction, currentBreakpoint, fault>>

\* dlopen of a module not yet loaded: under the loader lock the module is
\* mapped and linked at the end of the chain, then r_brk is called.
Dlopen(t, p, b) ==
  /\ Alive /\ th[t].st = "idle" /\ loaderLock = NoThread
  /\ p # Exe /\ \A i \in 1..Len(loaded) : loaded[i][1] # p /\ loaded[i][2] # b
  /\ loaded' = Append(loaded, <<p, b>>)
  /\ mem' = [a \in Memory |-> IF a \in ModuleAddrs(b) THEN ORIG ELSE mem[a]]
  /\ loaderLock' = t
  /\ th' = [th EXCEPT ![t] = [st |-> "exec", pc |-> Notifier, step |-> FALSE,
                               fired |-> {}]]
  /\ UNCHANGED <<loadMap, hooks, target, files, notifierBp, destroyed,
                 sigAction, oldAction, currentBreakpoint, fault>>

\* dlclose of the last reference to a module: it is unlinked and its pages
\* unmapped, then r_brk is called.
Dlclose(t, i) ==
  /\ Alive /\ th[t].st = "idle" /\ loaderLock = NoThread
  /\ loaded[i][1] # Unnamed
  /\ loaded' = SE!RemoveAt(loaded, i)
  /\ mem' = [a \in Memory |-> IF a \in ModuleAddrs(loaded[i][2])
                             THEN UNMAPPED ELSE mem[a]]
  /\ loaderLock' = t
  /\ th' = [th EXCEPT ![t] = [st |-> "exec", pc |-> Notifier, step |-> FALSE,
                               fired |-> {}]]
  /\ UNCHANGED <<loadMap, hooks, target, files, notifierBp, destroyed,
                 sigAction, oldAction, currentBreakpoint, fault>>

\* HookManager::AddHookBySourceAndFunction (and AddHookByFunction, which
\* passes source "*"): append the hook, Update, then NotifyAdded for every
\* module of the current load map.
AddHookBySourceAndFunction(t, h, f) ==
  /\ Alive /\ th[t].st = "idle" /\ ~destroyed
  /\ target[h] = NoFunc
  /\ DistinctTargets => \A g \in HookIds : target[g] # f
  /\ LET s0 == [HM EXCEPT !.hooks = Append(@, h), !.target[h] = f,
                          !.files[h] = << >>]
         s1 == Update(s0)
     IN Store(SE!FoldLeft(LAMBDA acc, item : NotifyAdded(acc, item, h),
                          s1, s1.map))
  /\ UNCHANGED <<loaded, loaderLock, notifierBp, destroyed, sigAction,
                 oldAction, currentBreakpoint, th, fault>>

\* HookManager::DeleteHook.
DeleteHook(t, h) ==
  /\ Alive /\ th[t].st = "idle" /\ ~destroyed
  /\ h \in Live
  /\ Store(DeleteHookOp(HM, h))
  /\ UNCHANGED <<loaded, loaderLock, notifierBp, destroyed, sigAction,
                 oldAction, currentBreakpoint, th, fault>>

\* HookManager::~HookManager: DeleteHook on the front hook until m_hooks is
\* empty, then Disable the notifier.  The breakpoint handler and its
\* context stay installed.
Destroy(t) ==
  /\ Alive /\ th[t].st = "idle" /\ ~destroyed
  /\ LET s == SE!FoldLeft(DeleteHookOp, HM, hooks)
     IN Store([s EXCEPT !.mem = DisableMem(@, notifierBp)])
  /\ destroyed' = TRUE
  /\ UNCHANGED <<loaded, loaderLock, notifierBp, sigAction, oldAction,
                 currentBreakpoint, th, fault>>

\* Seeded fault: ReenableTrapHandler without the Enable of line 122.
ReenableTrapHandlerNoEnable(t, kpc) ==
  LET a == currentBreakpoint.address
  IN IF mem[a] = UNMAPPED THEN Die("segv")
     ELSE /\ sigAction' = oldAction
          /\ IF kpc \in AfterStep
             THEN Finish(t)
             ELSE /\ th' = [th EXCEPT ![t].pc = kpc, ![t].step = FALSE]
                  /\ UNCHANGED loaderLock
          /\ UNCHANGED <<loaded, loadMap, hooks, target, files, notifierBp,
                         destroyed, mem, oldAction, currentBreakpoint, fault>>

(***************************************************************************)
(* BreakpointManager::ReenableTrapHandler, meant for the SIGTRAP that      *)
(* follows one single-stepped instruction: clear the step flag, restore    *)
(* oldAction and Enable the slot's address again (Write reads the byte     *)
(* first, which faults if the module has been unmapped), then return to    *)
(* the trapping pc kpc.  After a step kpc is past the instruction and the  *)
(* call proceeds; after an int3 nothing rewinds kpc, which is inside the   *)
(* patched instruction.                                                    *)
(***************************************************************************)
ReenableTrapHandler(t, kpc) ==
  LET a == currentBreakpoint.address
  IN IF mem[a] = UNMAPPED THEN Die("segv")
     ELSE /\ sigAction' = oldAction
          /\ mem' = EnableMem(mem, a)
          /\ IF kpc \in AfterStep
             THEN Finish(t)
             ELSE /\ th' = [th EXCEPT ![t].pc = kpc, ![t].step = FALSE]
                  /\ UNCHANGED loaderLock
          /\ UNCHANGED <<loaded, loadMap, hooks, target, files, notifierBp,
                         destroyed, oldAction, currentBreakpoint, fault>>

\* Seeded fault: the saved pc is left at the trapping pc.
RewindPcKept(kpc) == kpc

\* user_context_set_pc (user_ctx, user_context_get_pc (user_ctx) - 1).
RewindPc(kpc) == kpc - 1

(***************************************************************************)
(* BreakpointManager::NormalTrapHandler up to the sigaction call, with     *)
(* HookManager::BreakpointHandler as the user handler: the hit address is  *)
(* kpc - 1; the notifier runs Update, any other address the callback of    *)
(* the first hook owning a breakpoint there; an address nobody owns        *)
(* aborts.  Then the saved byte is written back (Disable), the pc is       *)
(* rewound and the breakpoint is put in the re-arm slot.  Once the         *)
(* HookManager is destroyed the handler reads freed memory.                *)
(***************************************************************************)
NormalTrapHandler(t, kpc) ==
  LET pc  == kpc - 1
      isNotifier == pc = notifierBp.address
      idx == FindBreakpoint(pc)
      s   == IF isNotifier THEN Update(HM) ELSE HM
      bp  == IF isNotifier THEN notifierBp ELSE AllBps[idx][2]
  IN CASE destroyed -> Die("uaf")
       [] ~isNotifier /\ idx = 0 -> Die("abort")
       [] OTHER ->
          /\ Store([s EXCEPT !.mem = DisableMem(@, bp)])
          /\ currentBreakpoint' = bp
          /\ th' = [th EXCEPT ![t].st = "handler", ![t].pc = RewindPc(kpc),
                              ![t].fired = IF isNotifier THEN @
                                           ELSE CallHook(@, AllBps[idx][1])]
          /\ UNCHANGED <<loaded, loaderLock, notifierBp, destroyed, sigAction,
                         oldAction, fault>>

\* Seeded fault: sigaction called without an oldact, so oldAction keeps
\* its zero value (SIG_DFL).
NormalTrapHandlerResumeNoSave(t) ==
  /\ Alive /\ th[t].st = "handler"
  /\ sigAction' = "Reenable"
  /\ th' = [th EXCEPT ![t].st = "exec", ![t].step = TRUE]
  /\ UNCHANGED <<loaded, loaderLock, loadMap, hooks, target, files,
                 notifierBp, destroyed, mem, oldAction, currentBreakpoint, fault>>

\* Seeded fault: user_context_enable_step is not called.
NormalTrapHandlerResumeNoStep(t) ==
  /\ Alive /\ th[t].st = "handler"
  /\ oldAction' = sigAction
  /\ sigAction' = "Reenable"
  /\ th' = [th EXCEPT ![t].st = "exec"]
  /\ UNCHANGED <<loaded, loaderLock, loadMap, hooks, target, files,
                 notifierBp, destroyed, mem, currentBreakpoint, fault>>

\* The rest of NormalTrapHandler: install ReenableTrapHandler, saving the
\* current disposition in oldAction, and set the single-step flag.
NormalTrapHandlerResume(t) ==
  /\ Alive /\ th[t].st = "handler"
  /\ oldAction' = sigAction
  /\ sigAction' = "Reenable"
  /\ th' = [th EXCEPT ![t].st = "exec", ![t].step = TRUE]
  /\ UNCHANGED <<loaded, loaderLock, loadMap, hooks, target, files,
                 notifierBp, destroyed, mem, currentBreakpoint, fault>>

\* The kernel delivers SIGTRAP, with the thread's pc kpc, to the
\* disposition installed at that moment.
Trap(t, kpc) ==
  CASE sigAction = "Normal"   -> NormalTrapHandler(t, kpc)
    [] sigAction = "Reenable" -> ReenableTrapHandler(t, kpc)
    [] OTHER -> Die("killed")

\* The thread executes at its pc: 0xcc traps with the pc one byte on; an
\* original instruction runs, and traps afterwards with the pc past it when
\* the step flag is set; an unmapped page faults; a pc that is not the
\* start of an instruction executes garbage.
Execute(t) ==
  LET pc == th[t].pc
  IN /\ Alive /\ th[t].st = "exec"
     /\ CASE pc \notin Memory     -> Die("midinsn")
          [] mem[pc] = UNMAPPED   -> Die("segv")
          [] mem[pc] = TRAP       -> Trap(t, pc + 1)
          [] th[t].step           -> Trap(t, pc + InsnLen)
          [] OTHER ->
               /\ Finish(t)
               /\ UNCHANGED <<loaded, loadMap, hooks, target, files, notifierBp,
                              destroyed, mem, sigAction, oldAction,
                              currentBreakpoint, fault>>

\* The process is dead; nothing happens any more.
Terminated ==
  /\ ~Alive
  /\ UNCHANGED vars

Next ==
  \/ \E t \in Threads :
       \/ \E i \in 1..Len(loaded), sym \in Symbols :
            sym[1] = Module(loaded, i) /\ Call(t, AddrAt(loaded[i][2], sym[3]))
       \/ \E p \in Paths, b \in Bases : Dlopen(t, p, b)
       \/ \E i \in 1..Len(loaded) : Dlclose(t, i)
       \/ \E h \in HookIds, f \in Funcs : AddHookBySourceAndFunction(t, h, f)
       \/ \E h \in HookIds : DeleteHook(t, h)
       \/ Destroy(t)
       \/ Execute(t)
       \/ NormalTrapHandlerResume(t)
  \/ Terminated

(***************************************************************************)
(* A thread that has been delivered a signal keeps running: its pending    *)
(* instruction and the rest of its handler eventually execute.  Nothing    *)
(* forces a thread to call a function, load a module or (un)register.      *)
(***************************************************************************)
Fairness ==
  \A t \in Threads : WF_vars(Execute(t)) /\ WF_vars(NormalTrapHandlerResume(t))

Spec == Init /\ [][Next]_vars /\ Fairness

-----------------------------------------------------------------------------
(***************************************************************************)
(* Properties.                                                             *)
(***************************************************************************)

\* Every Breakpoint record the HookManager holds: the notifier's and every
\* hook's, and the addresses they patch.
\* A destroyed HookManager holds nothing.
Recorded    == IF destroyed THEN {}
               ELSE {notifierBp} \cup {AllBps[j][2] : j \in 1..Len(AllBps)}
RecordedAddrs == {bp.address : bp \in Recorded}

\* The hooks that own a breakpoint at address a.
HooksAt(a) == {h \in Live : a \in BpAddrs(h)}

\* The addresses hook h should patch given what the loader has mapped.
Expected(h) ==
  UNION {{AddrAt(loaded[i][2], o) :
            o \in {o \in Offsets : <<Module(loaded, i), target[h], o>> \in Symbols}} :
           i \in 1..Len(loaded)}

Quiescent == \A t \in Threads : th[t].st = "idle"

TypeOK ==
  /\ loaded \in Seq(Links) /\ loadMap \in Seq(Items)
  /\ loaderLock \in Threads \cup {NoThread}
  /\ hooks \in Seq(HookIds)
  /\ target \in [HookIds -> Funcs \cup {NoFunc}]
  /\ files \in [HookIds -> Seq(FileEntry)]
  /\ notifierBp \in Breakpoint /\ currentBreakpoint \in Breakpoint
  /\ destroyed \in BOOLEAN
  /\ mem \in [Memory -> Bytes \cup {UNMAPPED}]
  /\ sigAction \in Dispositions /\ oldAction \in Dispositions
  /\ th \in [Threads -> ThreadState]
  /\ fault \in Faults

(* Whenever no dlopen/dlclose is between changing the link map and its     *)
(* r_brk trap, m_currentLoadMap is the parsed chain and every live hook    *)
(* owns a breakpoint at exactly the addresses of its function in the       *)
(* loaded modules: Update, AddHookBySourceAndFunction and NotifyDeleted    *)
(* together neither miss a module nor keep one that is gone.               *)
BreakpointsMatchImage ==
  loaderLock = NoThread /\ ~destroyed =>
    /\ loadMap = Parse(loaded)
    /\ \A h \in Live : BpAddrs(h) = Expected(h)

(* Every Breakpoint record holds the instruction's original byte, never   *)
(* the 0xcc of an earlier Enable at the same address: Disable, run by      *)
(* NormalTrapHandler on every hit, writes it back into the code.           *)
SavedBytesOriginal ==
  \A bp \in Recorded : bp.data = ORIG

(* When no thread is inside a call, a hit or a re-arm, every recorded      *)
(* breakpoint (the notifier included) is armed: the re-arm protocol of     *)
(* NormalTrapHandler and ReenableTrapHandler puts 0xcc back after a hit.   *)
ArmedWhenQuiescent ==
  Quiescent => \A a \in RecordedAddrs : mem[a] = TRAP

(* No trap is ever delivered to the wrong handler or with the wrong pc:    *)
(* the process never resumes inside a patched instruction, is never killed *)
(* by SIG_DFL and never faults on unmapped code.  Allowed are the two     *)
(* reactions to a trap the HookManager no longer owns (breakpoints left   *)
(* by DeleteHook or ~HookManager, see NoOrphanTrap): BreakpointHandler    *)
(* finding no owner aborts, and a destroyed HookManager's dangling        *)
(* context is used.                                                        *)
NoCorruption ==
  fault \in {"none", "abort", "uaf"}

(* A breakpoint disarmed by a hit is eventually armed again, unless it is  *)
(* dropped or the process dies.                                            *)
Rearmed ==
  \A a \in Memory :
    (a \in RecordedAddrs /\ mem[a] = ORIG)
      ~> (mem[a] = TRAP \/ a \notin RecordedAddrs \/ ~Alive)

(* Every 0xcc in the code belongs to the notifier or to a live hook, so    *)
(* every trap finds its owner (spec: UnregisterHook disables and discards  *)
(* all breakpoints of the hook).                                           *)
NoOrphanTrap ==
  \A a \in Memory : mem[a] = TRAP => a \in RecordedAddrs

-----------------------------------------------------------------------------
(***************************************************************************)
(* Refinement mapping onto HookRegistry.  A thread is inside a call from   *)
(* Call until the step that lets the function proceed; a thread running    *)
(* r_brk for the loader is not inside a call.  The function of a call is  *)
(* the one at its pc in the loaded modules.                                *)
(***************************************************************************)
FuncAt(a) ==
  LET fs == {s[2] : s \in {s \in Symbols :
               \E i \in 1..Len(loaded) :
                 Module(loaded, i) = s[1] /\ AddrAt(loaded[i][2], s[3]) = a}}
  IN IF fs = {} THEN NoFunc ELSE CHOOSE fn \in fs : TRUE

CallOf(t) ==
  IF th[t].st = "idle" \/ th[t].pc = Notifier
  THEN [func |-> NoFunc, notified |-> {}]
  ELSE [func |-> FuncAt(th[t].pc), notified |-> th[t].fired]

Registry == INSTANCE HookRegistry
  WITH modules    <- {Module(loaded, i) : i \in 1..Len(loaded)} \ {Unnamed},
       registered <- Live,
       hookedOn   <- target,
       open       <- ~destroyed,
       calls      <- [t \in Threads |-> CallOf(t)]

(* HookManager implements the registry's promise: every step of the trap   *)
(* protocol, of Update and of the hook and loader calls is a step of       *)
(* HookRegistry or invisible to it, so in particular no call proceeds      *)
(* before the callbacks of all hooks registered on its function have run. *)
HookRegistryRefined == Registry!RegSpec

=============================================================================
