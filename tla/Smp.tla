-------------------------------- MODULE Smp --------------------------------
(***************************************************************************)
(* Bring-up of the processors by the bare-metal Root Court: kmain and      *)
(* kmain_on_kstack on the boot processor, ap_entry and ap_on_kstack on the *)
(* others, and isr_dispatch wherever interrupts are enabled (main.rs,      *)
(* idt.rs, apic.rs, gdt.rs, stack.rs).                                     *)
(*                                                                         *)
(* A step is one call of the code, or the delivery of one interrupt.  A    *)
(* local APIC keeps one pending bit per vector and drops what arrives      *)
(* before it is enabled.  Waiting is bounded by spins or by the time stamp *)
(* counter; on a slow machine the bound may be hit although the other side *)
(* would still answer.  On a faulty one any processor that has the         *)
(* interrupt table may take an exception between any two steps, also while *)
(* the boot processor is inside println and holds the lock of the serial   *)
(* port; a processor in the handler does nothing else any more.            *)
(***************************************************************************)
EXTENDS Naturals, Sequences, FiniteSets

CONSTANTS
  Processors, \* all there may be
  MpLists,    \* the processor lists the boot loader may report, <<>> for none
  Bsp,        \* the boot processor
  MAX_CPUS,   \* per-processor slots
  MaxTicks    \* bound on timer ticks, for model checking

\* The boot loader lists every processor once.
ASSUME SmpAssumption ==
  /\ Bsp \in Processors
  /\ MAX_CPUS \in Nat \ {0} /\ MaxTicks \in Nat /\ MaxTicks > 2
  /\ \A list \in MpLists :
       /\ list \in Seq(Processors)
       /\ list # <<>> => \E i \in DOMAIN list : list[i] = Bsp
       /\ \A i, j \in DOMAIN list : list[i] = list[j] => i = j

VARIABLES
  mp, dead, slow,  \* the machine: processors, those that never come up, speed
  x2apic, faulty,  \* whether it has x2APICs, and takes exceptions
  answers, memory, \* requests answered by the boot loader, allocations served
  boot,            \* program counter of the boot processor
  serial,          \* whether it is inside println and holds SERIAL
  cpu,             \* what each processor has loaded
  faulting,        \* the processors in the exception handler
  tops,            \* slot -> top of its kernel stack, 0 before alloc_all
  cr3,             \* ROOT_CR3
  AP_READY, IPI_PONG, TIMER_TICKS,
  pending,         \* processor -> vectors pending in its APIC
  timer,           \* whether the timer is unmasked
  pongs            \* processor -> IPIs it has answered

machine == <<mp, dead, slow, x2apic, faulty, answers, memory>>
counters == <<AP_READY, IPI_PONG, TIMER_TICKS, pongs>>
tables == <<tops, cr3>>
vars == <<machine, boot, serial, cpu, faulting, tables, counters, pending, timer>>

\* The answers the boot needs; it can do without the others.
Requests == {"firmware", "hhdm", "memmap", "executable"}

\* What the boot allocates, in this order; the scratch page is the first of
\* the region BumpAllocator::from_memmap chose, if there is one.
Allocations == <<"scratch", "tables", "stacks", "demo">>
HasRoom(what) == \E i \in 1 .. memory : Allocations[i] = what

Cpus == {Bsp} \cup {mp[i] : i \in DOMAIN mp}
Aps == Cpus \ {Bsp}
cpu_slot(c) == IF mp = <<>> THEN 1 ELSE CHOOSE i \in DOMAIN mp : mp[i] = c
cpu_count == IF mp = <<>> THEN 1 ELSE Len(mp)

\* Mutant: the boot processor is counted among those to wait for.
expected_apsAll == cpu_count

expected_aps == cpu_count - 1

\* Mutant: the answer to the self IPI is forgotten.
PongsWantedApsOnly == expected_aps

PongsWanted == 1 + expected_aps

Blank == [pc |-> "parked", cr3 |-> 0, gdt |-> 0, idt |-> FALSE, apic |-> FALSE,
          stack |-> 0, sti |-> FALSE]

Init ==
  /\ mp \in MpLists
  /\ dead \in SUBSET Aps
  /\ slow \in BOOLEAN /\ x2apic \in BOOLEAN /\ faulty \in BOOLEAN
  /\ answers \in SUBSET Requests
  /\ memory \in 0 .. Len(Allocations)
  /\ boot = "firmware" /\ serial = FALSE
  /\ cpu = [c \in Cpus |-> Blank] /\ faulting = {}
  /\ tops = [i \in 1 .. MAX_CPUS |-> 0]
  /\ cr3 = 0
  /\ AP_READY = 0 /\ IPI_PONG = 0 /\ TIMER_TICKS = 0
  /\ pending = [c \in Cpus |-> {}]
  /\ timer = FALSE
  /\ pongs = [c \in Cpus |-> 0]

-----------------------------------------------------------------------------
Running == boot \notin {"ok", "failed"}

\* The stages of the boot processor that println comes before.
Printing == {"pages", "tables", "count", "activate", "stacks", "start", "timer", "ticks",
             "ipi", "demo"}

\* The boot processor, in program order.  Its next step waits for println.
Boot(from, to) ==
  /\ boot = from /\ boot' = to
  /\ ~serial /\ serial' = (to \in Printing)
  /\ Bsp \notin faulting

\* write_fmt has written its line and drops the guard.
Printed ==
  /\ serial /\ Running /\ Bsp \notin faulting
  /\ serial' = FALSE
  /\ UNCHANGED <<machine, boot, cpu, faulting, tables, counters, pending, timer>>

Load(c, loaded) == cpu' = [cpu EXCEPT ![c] = loaded]
Send(to) == pending' = [c \in Cpus |-> IF c \in to /\ cpu[c].apic
                                        THEN pending[c] \cup {"ipi"} ELSE pending[c]]

\* qemu_exit_failure: an answer or memory is missing, there are more
\* processors than slots, or no x2APIC.
Refuses ==
  /\ \/ Boot("firmware", "failed") /\ ~({"firmware", "hhdm", "memmap"} \subseteq answers)
     \/ Boot("pages", "failed") /\ ~HasRoom("scratch")
     \/ Boot("tables", "failed") /\ ~("executable" \in answers /\ HasRoom("tables"))
     \/ Boot("count", "failed") /\ (cpu_count > MAX_CPUS \/ ~x2apic)
     \/ Boot("stacks", "failed") /\ ~HasRoom("stacks")
     \/ Boot("demo", "failed") /\ ~HasRoom("demo")
  /\ UNCHANGED <<machine, cpu, faulting, tables, counters, pending, timer>>

\* kmain up to its page tables: the boot loader's answers, the bump allocator
\* and a page of it, the executable's address, paging::build.
Prepare ==
  /\ \/ Boot("firmware", "pages") /\ {"firmware", "hhdm", "memmap"} \subseteq answers
     \/ Boot("pages", "tables") /\ HasRoom("scratch")
     \/ Boot("tables", "count") /\ "executable" \in answers /\ HasRoom("tables")
  /\ UNCHANGED <<machine, cpu, faulting, tables, counters, pending, timer>>

\* gdt::init and load, idt::init, enable_x2apic.
Tables ==
  /\ Boot("count", "activate") /\ cpu_count <= MAX_CPUS /\ x2apic
  /\ Load(Bsp, [cpu[Bsp] EXCEPT !.gdt = cpu_slot(Bsp), !.idt = TRUE, !.apic = TRUE])
  /\ UNCHANGED <<machine, faulting, tables, counters, pending, timer>>

\* Mutant: the boot processor loads its tables but does not publish them.
ActivateUnpublished ==
  /\ Boot("activate", "stacks")
  /\ Load(Bsp, [cpu[Bsp] EXCEPT !.cr3 = 1])
  /\ UNCHANGED <<machine, faulting, tables, counters, pending, timer>>

Activate ==
  /\ Boot("activate", "stacks")
  /\ cr3' = 1
  /\ Load(Bsp, [cpu[Bsp] EXCEPT !.cr3 = 1])
  /\ UNCHANGED <<machine, faulting, tops, counters, pending, timer>>

\* alloc_all gives each slot a stack of its own; then switch_to.
Stacks ==
  /\ Boot("stacks", "start") /\ HasRoom("stacks")
  /\ tops' = [i \in 1 .. MAX_CPUS |-> IF i <= cpu_count THEN i ELSE 0]
  /\ Load(Bsp, [cpu[Bsp] EXCEPT !.stack = tops'[cpu_slot(Bsp)]])
  /\ UNCHANGED <<machine, faulting, cr3, counters, pending, timer>>

\* One round of the loop over the processors: cpu.start(ap_entry).
Unstarted == {c \in Aps : cpu[c].pc = "parked"}
Start(c) ==
  /\ boot = "start" /\ ~serial /\ Bsp \notin faulting /\ c \in Unstarted
  /\ \A d \in Unstarted : cpu_slot(c) <= cpu_slot(d)
  /\ Load(c, [cpu[c] EXCEPT !.pc = "entry"])
  /\ UNCHANGED <<machine, boot, serial, faulting, tables, counters, pending, timer>>

Started ==
  /\ Boot("start", "spin") /\ Unstarted = {}
  /\ UNCHANGED <<machine, cpu, faulting, tables, counters, pending, timer>>

ApsReady ==
  /\ Boot("spin", "timer") /\ AP_READY = expected_aps
  /\ UNCHANGED <<machine, cpu, faulting, tables, counters, pending, timer>>

StartTimer ==
  /\ Boot("timer", "self")
  /\ timer' = TRUE
  /\ Load(Bsp, [cpu[Bsp] EXCEPT !.sti = TRUE])
  /\ UNCHANGED <<machine, faulting, tables, counters, pending>>

SelfIpi ==
  /\ Boot("self", "self_wait")
  /\ Send({Bsp})
  /\ UNCHANGED <<machine, cpu, faulting, tables, counters, timer>>

SelfPong ==
  /\ Boot("self_wait", "ticks") /\ IPI_PONG >= 1
  /\ UNCHANGED <<machine, cpu, faulting, tables, counters, pending, timer>>

\* Three ticks, then mask_timer; a tick may still be pending.
Ticked ==
  /\ Boot("ticks", "ipi") /\ TIMER_TICKS >= 3
  /\ timer' = FALSE
  /\ UNCHANGED <<machine, cpu, faulting, tables, counters, pending>>

IpiAll ==
  /\ Boot("ipi", "pong_wait")
  /\ Send(Aps)
  /\ UNCHANGED <<machine, cpu, faulting, tables, counters, timer>>

\* Mutant: the interrupts stay on.
PongedOpen ==
  /\ Boot("pong_wait", "demo") /\ IPI_PONG >= PongsWanted
  /\ UNCHANGED <<machine, cpu, faulting, tables, counters, pending, timer>>

\* wait_atomic returns, cli, and run_demo begins.
Ponged ==
  /\ Boot("pong_wait", "demo") /\ IPI_PONG >= PongsWanted
  /\ Load(Bsp, [cpu[Bsp] EXCEPT !.sti = FALSE])
  /\ UNCHANGED <<machine, faulting, tables, counters, pending, timer>>

\* run_demo returns and BOOT_OK is printed.
BootOk ==
  /\ Boot("demo", "ok") /\ HasRoom("demo")
  /\ UNCHANGED <<machine, cpu, faulting, tables, counters, pending, timer>>

Waiting == {"spin", "self_wait", "ticks", "pong_wait"}
MayTimeOut == slow \/ dead # {}

\* AP_READY is read once more after the last spin; wait_atomic returns on the
\* clock whatever came in since it looked.  Nobody waits for no processor.
Expires ==
  /\ MayTimeOut
  /\ boot = "spin" => AP_READY # expected_aps
  /\ boot = "pong_wait" => expected_aps > 0

Timeout ==
  /\ boot \in Waiting /\ Expires /\ Boot(boot, "failed")
  /\ UNCHANGED <<machine, cpu, faulting, tables, counters, pending, timer>>

BspStep ==
  \/ Printed \/ Refuses \/ Prepare \/ Tables \/ Activate \/ Stacks \/ (\E c \in Cpus : Start(c)) \/ Started
  \/ ApsReady \/ StartTimer \/ SelfIpi \/ SelfPong \/ Ticked \/ IpiAll \/ Ponged \/ BootOk
  \/ Timeout

-----------------------------------------------------------------------------
\* The other processors.  hcf stands for a processor that stopped itself.
Up(c) == c \in Aps \ (dead \cup faulting) /\ Running
Ap(c, from, loaded) ==
  /\ Up(c) /\ cpu[c].pc = from
  /\ Load(c, loaded)
  /\ UNCHANGED <<machine, boot, serial, faulting, tables, pending, timer>>

load_published(c) ==
  /\ Ap(c, "entry", IF cr3 = 0 THEN [cpu[c] EXCEPT !.pc = "hcf"]
                    ELSE [cpu[c] EXCEPT !.pc = "gdt", !.cr3 = cr3])
  /\ UNCHANGED counters

gdt_load(c) ==
  /\ Ap(c, "gdt", IF cpu_slot(c) > MAX_CPUS THEN [cpu[c] EXCEPT !.pc = "hcf"]
                  ELSE [cpu[c] EXCEPT !.pc = "idt", !.gdt = cpu_slot(c)])
  /\ UNCHANGED counters

idt_load(c) == Ap(c, "idt", [cpu[c] EXCEPT !.pc = "apic", !.idt = TRUE]) /\ UNCHANGED counters

\* Mutant: interrupts are enabled with the APIC, on the boot loader's stack.
enable_x2apicSti(c) ==
  /\ Ap(c, "apic", [cpu[c] EXCEPT !.pc = "stack", !.apic = TRUE, !.sti = TRUE])
  /\ UNCHANGED counters

enable_x2apic(c) ==
  /\ Ap(c, "apic", IF ~x2apic THEN [cpu[c] EXCEPT !.pc = "hcf"]
                   ELSE [cpu[c] EXCEPT !.pc = "stack", !.apic = TRUE])
  /\ UNCHANGED counters

switch_to(c) ==
  /\ Ap(c, "stack", IF tops[cpu_slot(c)] = 0 THEN [cpu[c] EXCEPT !.pc = "hcf"]
                    ELSE [cpu[c] EXCEPT !.pc = "sti", !.stack = tops[cpu_slot(c)]])
  /\ UNCHANGED counters

sti(c) == Ap(c, "sti", [cpu[c] EXCEPT !.pc = "ready", !.sti = TRUE]) /\ UNCHANGED counters

Ready(c) ==
  /\ Ap(c, "ready", [cpu[c] EXCEPT !.pc = "hlt"])
  /\ AP_READY' = AP_READY + 1
  /\ UNCHANGED <<IPI_PONG, TIMER_TICKS, pongs>>

ApStep(c) ==
  \/ load_published(c) \/ gdt_load(c) \/ idt_load(c) \/ enable_x2apic(c)
  \/ switch_to(c) \/ sti(c) \/ Ready(c)

-----------------------------------------------------------------------------
\* The timer's tick becomes pending on the boot processor.
Tick ==
  /\ timer /\ Running /\ TIMER_TICKS < MaxTicks
  /\ pending' = [pending EXCEPT ![Bsp] = @ \cup {"timer"}]
  /\ UNCHANGED <<machine, boot, serial, cpu, faulting, tables, counters, timer>>

\* isr_dispatch, on the vectors of the APIC.  It takes no lock, so it runs in
\* the middle of println as well.
isr_dispatch(c, vector) ==
  /\ Running /\ c \notin faulting
  /\ cpu[c].sti /\ vector \in pending[c]
  /\ pending' = [pending EXCEPT ![c] = @ \ {vector}]
  /\ IF vector = "ipi"
     THEN /\ IPI_PONG' = IPI_PONG + 1
          /\ pongs' = [pongs EXCEPT ![c] = @ + 1]
          /\ UNCHANGED <<AP_READY, TIMER_TICKS>>
     ELSE /\ TIMER_TICKS' = TIMER_TICKS + 1
          /\ UNCHANGED <<AP_READY, IPI_PONG, pongs>>
  /\ UNCHANGED <<machine, boot, serial, cpu, faulting, tables, timer>>

\* A processor takes an exception.
Exception(c) ==
  /\ Running /\ faulty /\ cpu[c].idt /\ c \notin faulting
  /\ faulting' = faulting \cup {c}
  /\ UNCHANGED <<machine, boot, serial, cpu, tables, counters, pending, timer>>

\* Mutant: the handler prints through the locked printer.
ReportLocked(c) ==
  /\ Running /\ c \in faulting /\ ~serial
  /\ boot' = "failed"
  /\ UNCHANGED <<machine, serial, cpu, faulting, tables, counters, pending, timer>>

\* The rest of isr_dispatch, on any other vector: print_raw, which takes no
\* lock, and qemu_exit_failure.
Report(c) ==
  /\ Running /\ c \in faulting
  /\ boot' = "failed"
  /\ UNCHANGED <<machine, serial, cpu, faulting, tables, counters, pending, timer>>

\* A waiting processor spins; a stopped machine stays as it is.
Spin ==
  /\ boot \in Waiting \cup {"ok", "failed"} \/ faulting # {}
  /\ UNCHANGED vars

Interrupt(c) == \E vector \in {"ipi", "timer"} : isr_dispatch(c, vector)

Next ==
  \/ BspStep \/ Tick \/ Spin
  \/ \E c \in Cpus : ApStep(c) \/ Interrupt(c) \/ Exception(c) \/ Report(c)

\* Every processor that is up runs, the timer ticks, a pending interrupt is
\* taken where interrupts are enabled, and a handler runs to its end.
Spec ==
  /\ Init /\ [][Next]_vars
  /\ WF_vars(BspStep) /\ WF_vars(Tick)
  /\ \A c \in Processors :
       /\ WF_vars(c \in Cpus /\ ApStep(c))
       /\ WF_vars(c \in Cpus /\ Interrupt(c))
       /\ WF_vars(c \in Cpus /\ Report(c))

-----------------------------------------------------------------------------
\* A processor that takes interrupts is ready for them: it runs on the
\* published page tables, has its own descriptor table and the interrupt
\* table loaded, and left the boot loader's stack for one nobody else is on.
ReadyForInterrupts ==
  \A c \in Cpus : cpu[c].sti =>
    /\ cpu[c].idt /\ cpu[c].apic
    /\ cpu[c].cr3 = cr3 /\ cr3 # 0
    /\ cpu[c].gdt = cpu_slot(c)
    /\ cpu[c].stack = tops[cpu_slot(c)] /\ cpu[c].stack # 0
    /\ \A d \in Cpus \ {c} : cpu[d].stack # cpu[c].stack

\* No processor stops itself: published tables, slot and stack are there by
\* the time ap_entry looks for them.
NobodyHangs == \A c \in Cpus : cpu[c].pc # "hcf"

\* The counter stands for the processors: when the demo begins, each of them
\* has reported itself and has answered one IPI, none of them two.
DemoMeansAllAnswered ==
  boot \in {"demo", "ok"} =>
    /\ \A c \in Aps : cpu[c].pc = "hlt"
    /\ \A c \in Cpus : pongs[c] = 1

\* No interrupt is taken any more once the demo has begun, although a tick
\* may have been pending when the timer was masked: the courtlets, which run
\* on the boot processor with other page tables, are not interrupted.
DemoUndisturbed == [][boot = "demo" => UNCHANGED counters]_vars

\* The boot always ends, with a processor that never comes up as well, and
\* with exceptions that hit the boot processor inside println.
BootEnds == <>(boot \in {"ok", "failed"})

\* It ends well on a machine that is fast enough, takes no exception, has
\* x2APICs and memory, and whose processors all come up, if they are not too
\* many: no IPI, tick or report is lost.
BootSucceeds ==
  /\ ~MayTimeOut /\ ~faulty /\ x2apic /\ cpu_count <= MAX_CPUS
  /\ answers = Requests /\ memory = Len(Allocations)
  => <>(boot = "ok")
-----------------------------------------------------------------------------
\* The stages of the boot from one on, as far as it goes well.
FromPong == {"demo", "ok"}
FromIpis == {"pong_wait"} \cup FromPong
FromSelfPong == {"ticks", "ipi"} \cup FromIpis
FromSelfIpi == {"self_wait"} \cup FromSelfPong
FromReady == {"timer", "self"} \cup FromSelfIpi
FromStacks == {"start", "spin"} \cup FromReady
FromActivate == {"stacks"} \cup FromStacks
FromTables == {"activate"} \cup FromActivate
Stages == {"firmware", "pages", "tables", "count", "failed"} \cup FromTables

\* The stages of another processor from one on.
FromSti == {"ready", "hlt"}
FromStack == {"sti"} \cup FromSti
FromApic == {"stack"} \cup FromStack
FromIdt == {"apic"} \cup FromApic
FromGdt == {"idt"} \cup FromIdt
FromCr3 == {"gdt"} \cup FromGdt
FromEntry == {"entry"} \cup FromCr3

CpuState == [pc : {"parked"} \cup FromEntry, cr3 : {0, 1}, gdt : Nat, idt : BOOLEAN,
             apic : BOOLEAN, stack : Nat, sti : BOOLEAN]

\* What the variables the proofs are about may be.
BringUpType ==
  /\ mp \in MpLists /\ boot \in Stages /\ cr3 \in {0, 1}
  /\ cpu \in [Cpus -> CpuState]
  /\ AP_READY \in Nat /\ IPI_PONG \in Nat /\ TIMER_TICKS \in Nat
  /\ pending \in [Cpus -> SUBSET {"ipi", "timer"}]
  /\ pongs \in [Cpus -> {0, 1}]

\* activate and alloc_all have run.
Published ==
  /\ cr3 = 1 /\ x2apic /\ cpu_count <= MAX_CPUS
  /\ tops = [i \in 1 .. MAX_CPUS |-> IF i <= cpu_count THEN i ELSE 0]

Loaded(c) == cpu[c].idt /\ cpu[c].apic /\ cpu[c].gdt = cpu_slot(c)

\* The boot processor loads and publishes in order, and keeps what it has.
BspLoads ==
  /\ cpu[Bsp].pc = "parked"
  /\ boot \in FromTables => Loaded(Bsp) /\ x2apic /\ cpu_count <= MAX_CPUS
  /\ boot \in FromActivate => cr3 = 1 /\ cpu[Bsp].cr3 = 1
  /\ boot \in FromStacks => Published /\ cpu[Bsp].stack = cpu_slot(Bsp)
  /\ cpu[Bsp].sti =>
       Loaded(Bsp) /\ Published /\ cpu[Bsp].cr3 = 1 /\ cpu[Bsp].stack = cpu_slot(Bsp)

\* So does every other one, which finds everything published.
ApHas(c, loaded) ==
  /\ loaded.pc \in FromEntry => Published
  /\ loaded.pc \in FromCr3 => loaded.cr3 = 1
  /\ loaded.pc \in FromGdt => loaded.gdt = cpu_slot(c)
  /\ loaded.pc \in FromIdt => loaded.idt
  /\ loaded.pc \in FromApic => loaded.apic
  /\ loaded.pc \in FromStack => loaded.stack = cpu_slot(c)
  /\ loaded.sti <=> loaded.pc \in FromSti

ApLoads == \A c \in Aps : ApHas(c, cpu[c])

OwnStacks == \A c \in Cpus : cpu[c].stack \in {0, cpu_slot(c)}

Reported == {c \in Aps : cpu[c].pc = "hlt"}
Answered == {c \in Cpus : pongs[c] = 1}

\* The counters count processors, each once.
Counted ==
  /\ AP_READY = Cardinality(Reported) /\ IPI_PONG = Cardinality(Answered)
  /\ boot \in FromReady => Reported = Aps
  /\ \A c \in Cpus : "ipi" \in pending[c] => c \notin Answered
  /\ \A c \in Aps : "timer" \notin pending[c]
  /\ boot \notin FromSelfIpi \cup {"failed"} => Bsp \notin Answered /\ "ipi" \notin pending[Bsp]
  /\ boot \notin FromIpis \cup {"failed"} =>
       \A c \in Aps : c \notin Answered /\ "ipi" \notin pending[c]
  /\ boot \in FromSelfPong => Bsp \in Answered
  /\ boot \in FromPong => Answered = Cpus /\ ~cpu[Bsp].sti

\* Why bring-up works: what ap_entry looks for was published before start is
\* called, each processor loads its own tables and stack in the order of the
\* code, and AP_READY and IPI_PONG count processors, each of them once.
BringUp == BringUpType /\ BspLoads /\ ApLoads /\ OwnStacks /\ Counted
=============================================================================
