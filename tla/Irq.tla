--------------------------------- MODULE Irq --------------------------------
(***************************************************************************)
(* External interrupts: the table of handlers (na/kernel/irq.cc), the      *)
(* PLIC driver (na/drivers/plic.cc) and the claim, dispatch, complete      *)
(* sequence of trap_handle (na/kernel/trap.cc), on several CPUs, while     *)
(* drivers register and unregister.                                        *)
(*                                                                         *)
(* A driver is its handler and, at the same time, the argument it          *)
(* registers with it.  The controller itself is hardware: it keeps an      *)
(* interrupt pending until a CPU claims it, gives it to one CPU, and does  *)
(* not signal it again before that CPU completes it.                       *)
(***************************************************************************)
EXTENDS Integers, FiniteSets, FiniteSetsExt

CONSTANTS IrqCpus, Sources, Drivers, NoDriver, NoIrq

ASSUME IrqAssumption ==
    NoDriver \notin Drivers /\ NoIrq \notin Sources \union IrqCpus /\ Sources \subseteq Nat \ {0}

VARIABLES
    handler_ptr,   \* [irq -> driver or NoDriver]
    arg,           \* [irq -> driver or NoDriver]
    owner,         \* [irq -> the driver whose registration succeeded]
    request,       \* [driver -> what it is in the middle of]
    enabled,       \* [cpu -> enabled sources of its S-mode context]
    pending,       \* sources the controller signals
    service,       \* [irq -> CPU that claimed it, or NoIrq]
    cpu            \* [cpu -> [at, irq, h, a]]

irqVars == <<handler_ptr, arg, owner, request, enabled, pending, service, cpu>>

Idle == [at |-> "idle", irq |-> NoIrq, h |-> NoDriver, a |-> NoDriver]
NoRequest == [at |-> "none", irq |-> NoIrq]

(* trap_init and plic_probe: no handlers, priorities and threshold open.   *)
IrqInit ==
    /\ handler_ptr = [i \in Sources |-> NoDriver]
    /\ arg = [i \in Sources |-> NoDriver]
    /\ owner = [i \in Sources |-> NoDriver]
    /\ request = [d \in Drivers |-> NoRequest]
    /\ enabled = [c \in IrqCpus |-> {}]
    /\ pending = {}
    /\ service = [i \in Sources |-> NoIrq]
    /\ cpu = [c \in IrqCpus |-> Idle]

-----------------------------------------------------------------------------
(* register_handler writes the argument ...                                *)
RegisterArg(d, i) ==
    /\ request[d] = NoRequest /\ owner[i] # d
    /\ arg' = [arg EXCEPT ![i] = d]
    /\ request' = [request EXCEPT ![d] = [at |-> "publish", irq |-> i]]
    /\ UNCHANGED <<handler_ptr, owner, enabled, pending, service, cpu>>

(* The compare-and-swap from 0.                                            *)
CasHandler(i, d) == IF handler_ptr[i] = NoDriver THEN [handler_ptr EXCEPT ![i] = d] ELSE handler_ptr

(* ... and then tries to publish the handler: success or -EBUSY.           *)
RegisterPublish(d) ==
    LET i == request[d].irq IN
    /\ request[d].at = "publish"
    /\ handler_ptr' = CasHandler(i, d)
    /\ owner' = IF handler_ptr[i] = NoDriver THEN [owner EXCEPT ![i] = d] ELSE owner
    /\ request' = [request EXCEPT ![d] = NoRequest]
    /\ UNCHANGED <<arg, enabled, pending, service, cpu>>

(* unregister_handler by the owner: first the handler, then the argument.  *)
UnregisterHandler(d, i) ==
    /\ request[d] = NoRequest /\ owner[i] = d
    /\ handler_ptr' = [handler_ptr EXCEPT ![i] = NoDriver]
    /\ owner' = [owner EXCEPT ![i] = NoDriver]
    /\ request' = [request EXCEPT ![d] = [at |-> "clear", irq |-> i]]
    /\ UNCHANGED <<arg, enabled, pending, service, cpu>>

UnregisterArg(d) ==
    /\ request[d].at = "clear"
    /\ arg' = [arg EXCEPT ![request[d].irq] = NoDriver]
    /\ request' = [request EXCEPT ![d] = NoRequest]
    /\ UNCHANGED <<handler_ptr, owner, enabled, pending, service, cpu>>

(* plic_enable and plic_disable change the calling CPU's context.          *)
plic_enable(c, i) ==
    /\ i \notin enabled[c]
    /\ enabled' = [enabled EXCEPT ![c] = @ \union {i}]
    /\ UNCHANGED <<handler_ptr, arg, owner, request, pending, service, cpu>>

plic_disable(c, i) ==
    /\ i \in enabled[c]
    /\ enabled' = [enabled EXCEPT ![c] = @ \ {i}]
    /\ UNCHANGED <<handler_ptr, arg, owner, request, pending, service, cpu>>

-----------------------------------------------------------------------------
(* A device raises its line.                                               *)
Raise(i) ==
    /\ i \notin pending
    /\ pending' = pending \union {i}
    /\ UNCHANGED <<handler_ptr, arg, owner, request, enabled, service, cpu>>

Signalled(c) == {i \in pending \intersect enabled[c] : service[i] = NoIrq}

(* trap_handle, IrqExternal: the CPU takes the interrupt ...               *)
TakeTrap(c) ==
    /\ cpu[c].at = "idle" /\ Signalled(c) # {}
    /\ cpu' = [cpu EXCEPT ![c].at = "claim"]
    /\ UNCHANGED <<handler_ptr, arg, owner, request, enabled, pending, service>>

(* ... claims it: the lowest number, or 0 when another CPU was faster ...  *)
plic_claim(c) ==
    /\ cpu[c].at = "claim"
    /\ IF Signalled(c) = {}
       THEN cpu' = [cpu EXCEPT ![c] = Idle] /\ UNCHANGED <<pending, service>>
       ELSE LET i == Min(Signalled(c)) IN
            /\ cpu' = [cpu EXCEPT ![c].at = "load", ![c].irq = i]
            /\ pending' = pending \ {i}
            /\ service' = [service EXCEPT ![i] = c]
    /\ UNCHANGED <<handler_ptr, arg, owner, request, enabled>>

(* ... dispatch loads the handler; without one the interrupt is ignored.   *)
DispatchLoad(c) ==
    /\ cpu[c].at = "load"
    /\ cpu' = [cpu EXCEPT ![c].h = handler_ptr[cpu[c].irq],
                          ![c].at = IF handler_ptr[cpu[c].irq] = NoDriver THEN "complete" ELSE "call"]
    /\ UNCHANGED <<handler_ptr, arg, owner, request, enabled, pending, service>>

(* Faulty variant: the interrupt is completed before the handler runs.     *)
ServiceInHandler_Early(i) == [service EXCEPT ![i] = NoIrq]

(* The interrupt stays claimed while its handler runs.                     *)
ServiceInHandler(i) == service

(* ... and calls it with the argument it reads at that moment.             *)
DispatchCall(c) ==
    /\ cpu[c].at = "call"
    /\ cpu' = [cpu EXCEPT ![c].a = arg[cpu[c].irq], ![c].at = "handler"]
    /\ service' = ServiceInHandler(cpu[c].irq)
    /\ UNCHANGED <<handler_ptr, arg, owner, request, enabled, pending>>

(* The handler returns.                                                    *)
HandlerReturns(c) ==
    /\ cpu[c].at = "handler"
    /\ cpu' = [cpu EXCEPT ![c].at = "complete"]
    /\ UNCHANGED <<handler_ptr, arg, owner, request, enabled, pending, service>>

(* Every claimed interrupt is completed, handler or not.                   *)
plic_complete(c) ==
    /\ cpu[c].at = "complete"
    /\ service' = [service EXCEPT ![cpu[c].irq] = NoIrq]
    /\ cpu' = [cpu EXCEPT ![c] = Idle]
    /\ UNCHANGED <<handler_ptr, arg, owner, request, enabled, pending>>

IrqNext ==
    \/ \E d \in Drivers :
          \/ \E i \in Sources : RegisterArg(d, i) \/ UnregisterHandler(d, i)
          \/ RegisterPublish(d) \/ UnregisterArg(d)
    \/ \E c \in IrqCpus :
          \/ \E i \in Sources : plic_enable(c, i) \/ plic_disable(c, i)
          \/ TakeTrap(c) \/ plic_claim(c) \/ DispatchLoad(c) \/ DispatchCall(c)
          \/ HandlerReturns(c) \/ plic_complete(c)
    \/ \E i \in Sources : Raise(i)

IrqSpec == IrqInit /\ [][IrqNext]_irqVars

-----------------------------------------------------------------------------
Claimed == {"load", "call", "handler", "complete"}

IrqTypeOK ==
    /\ handler_ptr \in [Sources -> Drivers \union {NoDriver}]
    /\ arg \in [Sources -> Drivers \union {NoDriver}]
    /\ owner \in [Sources -> Drivers \union {NoDriver}]
    /\ request \in [Drivers -> [at : {"publish", "clear"}, irq : Sources] \union {NoRequest}]
    /\ enabled \in [IrqCpus -> SUBSET Sources]
    /\ pending \subseteq Sources
    /\ service \in [Sources -> IrqCpus \union {NoIrq}]
    /\ cpu \in [IrqCpus -> [at : {"idle", "claim"} \union Claimed, irq : Sources \union {NoIrq},
                            h : Drivers \union {NoDriver}, a : Drivers \union {NoDriver}]]

(* Between claim and complete the controller holds the interrupt back for  *)
(* that CPU, so no second CPU can claim it meanwhile.                      *)
ClaimIsExclusive ==
    \A c \in IrqCpus : cpu[c].at \in Claimed => cpu[c].irq \in Sources /\ service[cpu[c].irq] = c

(* A handler never runs for one interrupt on two CPUs at a time.           *)
HandlerAlone ==
    \A c, b \in IrqCpus :
        c # b /\ cpu[c].at = "handler" /\ cpu[b].at = "handler" => cpu[c].irq # cpu[b].irq

(* An interrupt in service is in the hands of the CPU that claimed it, so  *)
(* it will be completed and can be signalled again: none is lost because   *)
(* nobody had registered for it or the registration went away meanwhile.   *)
ServiceHasCpu ==
    \A i \in Sources : service[i] # NoIrq => cpu[service[i]].irq = i /\ cpu[service[i]].at \in Claimed

(* Of the drivers that ask for one interrupt one is told it has it, and    *)
(* that one's handler is what dispatch finds, until it gives it up.        *)
OwnerIsPublished == \A i \in Sources : handler_ptr[i] = owner[i]

(* A source's handler never runs twice at once, whoever is being serviced  *)
(* has a CPU, and a published handler is the one that won the slot.        *)
IrqsServed == IrqTypeOK /\ ClaimIsExclusive /\ HandlerAlone /\ ServiceHasCpu /\ OwnerIsPublished
=============================================================================
