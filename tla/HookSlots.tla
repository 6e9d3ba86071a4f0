------------------------------ MODULE HookSlots ------------------------------
(***************************************************************************)
(* The two hook slots of the machine: a function and its argument each,     *)
(* written by the threads that hold the engine's mutex (sync_hooks_locked), *)
(* read by the machine thread without it (astro_machine_tick).              *)
(*                                                                          *)
(* Every store of a slot and every load of one is a step: nothing orders    *)
(* them. What the hooks do once they hold the mutex is DebugEngine's.       *)
(***************************************************************************)
EXTENDS Integers, Sequences

VARIABLES
  attached,   \* d->attached
  watching,   \* d->nwatch > 0
  machine,    \* the host's machine: none, starting, running, stopping
  hook,       \* m->instr_hook, m->bus_hook: the engine's function or NULL
  user,       \* m->instr_hook_user, m->bus_hook_user: the engine or NULL
  stores,     \* what the holder of the mutex has still to store; the mutex is
              \* free when there is nothing
  call        \* the machine thread's way into a hook

vars == <<attached, watching, machine, hook, user, stores, call>>
wants == <<attached, watching, machine>>

Slots == {"instr", "bus"}

Init ==
  /\ attached = FALSE /\ watching = FALSE /\ machine = "none"
  /\ hook = [s \in Slots |-> "NULL"] /\ user = [s \in Slots |-> "NULL"]
  /\ stores = <<>>
  /\ call = [at |-> "machine"]

-----------------------------------------------------------------------------
(* The threads that call the engine, one at a time under d->mtx. *)

\* sync_hooks_locked: each slot's argument, then its hook
SyncHooks(attach, watch, host) ==
  LET held == attach /\ host \in {"starting", "running"}
      instr == IF held THEN "engine" ELSE "NULL"
      bus == IF held /\ watch THEN "engine" ELSE "NULL"
  IN  << <<"user", "instr", instr>>, <<"hook", "instr", instr>>,
         <<"user", "bus", bus>>, <<"hook", "bus", bus>> >>

\* A call under the mutex that ends in sync_hooks_locked.
Locked(attach, watch, host) ==
  /\ stores = <<>>
  /\ attached' = attach /\ watching' = watch /\ machine' = host
  /\ stores' = SyncHooks(attach, watch, host)
  /\ UNCHANGED <<hook, user, call>>

Attach == ~attached /\ Locked(TRUE, watching, machine)

Detach == Locked(FALSE, watching, machine)

\* a breakpoint edit, through rebuild_locked
EditWatches == \E watch \in BOOLEAN : Locked(attached, watch, machine)

\* astrodebug_core_started and _stopping; the thread is made after the one and
\* joined after the other.
CoreStarted == machine = "none" /\ Locked(attached, watching, "starting")

CoreStopping == machine = "running" /\ Locked(attached, watching, "stopping")

\* the next store of astro_host_set_instr_hook or astro_host_set_bus_hook
Store ==
  /\ stores # <<>>
  /\ LET s == Head(stores) IN
       IF s[1] = "user" THEN user' = [user EXCEPT ![s[2]] = s[3]] /\ UNCHANGED hook
                        ELSE hook' = [hook EXCEPT ![s[2]] = s[3]] /\ UNCHANGED user
  /\ stores' = Tail(stores)
  /\ UNCHANGED <<wants, call>>

HostThread ==
  /\ stores = <<>>
  /\ \/ machine = "starting" /\ machine' = "running"
     \/ machine = "stopping" /\ call.at = "machine" /\ machine' = "none"
  /\ UNCHANGED <<attached, watching, hook, user, stores, call>>

-----------------------------------------------------------------------------
(* The machine thread. *)

\* if (m->instr_hook), or a bus cycle's if (m->bus_hook): the function is there
LoadHook(s) ==
  /\ machine \in {"running", "stopping"} /\ call.at = "machine"
  /\ hook[s] # "NULL"
  /\ call' = [at |-> "loaded", slot |-> s]
  /\ UNCHANGED <<wants, hook, user, stores>>

\* ... its argument is loaded, and the function is called with it
LoadUser ==
  /\ call.at = "loaded"
  /\ call' = [at |-> "called", slot |-> call.slot, with |-> user[call.slot]]
  /\ UNCHANGED <<wants, hook, user, stores>>

\* instr_hook and bus_hook, under the mutex of the engine they were given
HookBody ==
  /\ call.at = "called" /\ call.with = "engine"
  /\ stores = <<>>
  /\ call' = [at |-> "machine"]
  /\ UNCHANGED <<wants, hook, user, stores>>

Next ==
  \/ Attach \/ Detach \/ EditWatches \/ CoreStarted \/ CoreStopping
  \/ Store \/ HostThread
  \/ \E s \in Slots : LoadHook(s)
  \/ LoadUser \/ HookBody

Spec == Init /\ [][Next]_vars

-----------------------------------------------------------------------------
\* debugger.c says that the hooks take the mutex the UI threads take: a hook
\* that is called was given the engine that has it.
HooksTakeTheMutex == call.at = "called" => call.with = "engine"
=============================================================================
