---------------------------- MODULE HookRegistry ----------------------------
(***************************************************************************)
(* What the HookRegistry promises its user, with no breakpoints, traps or  *)
(* link maps: hooks are registered on qualified function names and         *)
(* unregistered; modules are loaded and unloaded; a thread that calls a    *)
(* function of a loaded module has, by the time the call proceeds past its *)
(* entry, run the callback of every registered hook on that function.      *)
(* HookManager implements it (HookManager's HookRegistry refinement).      *)
(***************************************************************************)
EXTENDS FiniteSets

CONSTANTS Threads, HookIds, Funcs, Paths, Exe, Symbols, DistinctTargets,
          NoFunc

VARIABLES
  modules,    \* paths of the loaded modules
  registered, \* hooks registered and not unregistered
  hookedOn,   \* the function each handle was registered on, or NoFunc
  open,       \* the registry has not been destroyed
  calls       \* per thread: idle, or inside a call of .func, with .notified

regVars == <<modules, registered, hookedOn, open, calls>>

Idle == [func |-> NoFunc, notified |-> {}]

\* The registered hooks a call of f must notify.
HooksOn(f) == {h \in registered : hookedOn[h] = f}

Init ==
  /\ modules = {Exe}
  /\ registered = {}
  /\ hookedOn = [h \in HookIds |-> NoFunc]
  /\ open = TRUE
  /\ calls = [t \in Threads |-> Idle]

Load(p) ==
  /\ p \notin modules
  /\ modules' = modules \cup {p}
  /\ UNCHANGED <<registered, hookedOn, open, calls>>

Unload(p) ==
  /\ p \in modules \ {Exe}
  /\ modules' = modules \ {p}
  /\ UNCHANGED <<registered, hookedOn, open, calls>>

\* Each handle is registered at most once.
Register(h, f) ==
  /\ open /\ hookedOn[h] = NoFunc
  /\ DistinctTargets => \A g \in HookIds : hookedOn[g] # f
  /\ registered' = registered \cup {h}
  /\ hookedOn' = [hookedOn EXCEPT ![h] = f]
  /\ UNCHANGED <<modules, open, calls>>

Unregister(h) ==
  /\ open /\ h \in registered
  /\ registered' = registered \ {h}
  /\ UNCHANGED <<modules, hookedOn, open, calls>>

\* The registry is destroyed: every hook is unregistered.
Close ==
  /\ open
  /\ open' = FALSE /\ registered' = {}
  /\ UNCHANGED <<modules, hookedOn, calls>>

Enter(t, f) ==
  /\ calls[t] = Idle
  /\ \E p \in modules, s \in Symbols : s[1] = p /\ s[2] = f
  /\ calls' = [calls EXCEPT ![t] = [func |-> f, notified |-> {}]]
  /\ UNCHANGED <<modules, registered, hookedOn, open>>

\* A hook on the called function runs its callback.
Notify(t, h) ==
  /\ calls[t] # Idle /\ h \in HooksOn(calls[t].func)
  /\ calls' = [calls EXCEPT ![t].notified = @ \cup {h}]
  /\ UNCHANGED <<modules, registered, hookedOn, open>>

\* The call proceeds once every hook on the function has been notified.
Proceed(t) ==
  /\ calls[t] # Idle /\ HooksOn(calls[t].func) \subseteq calls[t].notified
  /\ calls' = [calls EXCEPT ![t] = Idle]
  /\ UNCHANGED <<modules, registered, hookedOn, open>>

RegNext ==
  \/ \E p \in Paths : Load(p) \/ Unload(p)
  \/ \E h \in HookIds : Unregister(h) \/ \E f \in Funcs : Register(h, f)
  \/ Close
  \/ \E t \in Threads : \/ \E f \in Funcs : Enter(t, f)
                        \/ \E h \in HookIds : Notify(t, h)
                        \/ Proceed(t)

RegSpec == Init /\ [][RegNext]_regVars

=============================================================================
