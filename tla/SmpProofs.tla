----------------------------- MODULE SmpProofs -----------------------------
(***************************************************************************)
(* Bring-up works on a machine of any number of processors, in whatever    *)
(* order they run: the invariant BringUp is kept by every step, and the    *)
(* safety properties of Smp follow from it.                                *)
(***************************************************************************)
EXTENDS Smp, FiniteSetTheorems, TLAPS

\* Every listed processor has a slot of its own, as fill_meta numbers them.
LEMMA Slots ==
  ASSUME mp \in MpLists
  PROVE  /\ Bsp \in Cpus
         /\ cpu_count \in Nat \ {0}
         /\ \A c \in Cpus : cpu_slot(c) \in 1 .. cpu_count
         /\ \A c, d \in Cpus : cpu_slot(c) = cpu_slot(d) => c = d
<1>1. Bsp \in Cpus
  BY Zenon DEF Cpus
<1>2. CASE mp = <<>>
  <2>1. DOMAIN mp = {}
    BY <1>2
  <2>2. Cpus = {Bsp}
    BY <2>1, Zenon DEF Cpus
  <2> QED
    BY <1>1, <1>2, <2>2 DEF cpu_slot, cpu_count
<1>3. CASE mp # <<>>
  <2>1. /\ mp \in Seq(Processors) /\ Len(mp) \in Nat /\ DOMAIN mp = 1 .. Len(mp)
        /\ \E i \in DOMAIN mp : mp[i] = Bsp
    BY <1>3, SmpAssumption
  <2>2. \A c \in Cpus : \E i \in DOMAIN mp : mp[i] = c
    BY <2>1, Zenon DEF Cpus
  <2>3. \A c \in Cpus : cpu_slot(c) \in DOMAIN mp /\ mp[cpu_slot(c)] = c
    BY <1>3, <2>2, Zenon DEF cpu_slot
  <2>4. cpu_count = Len(mp)
    BY <1>3, Zenon DEF cpu_count
  <2>5. cpu_count \in Nat \ {0}
    BY <2>1, <2>4
  <2>6. \A c, d \in Cpus : cpu_slot(c) = cpu_slot(d) => c = d
    BY <2>3, Zenon
  <2> QED
    BY <1>1, <2>1, <2>3, <2>4, <2>5, <2>6, Zenon
<1> QED
  BY <1>2, <1>3, Zenon

\* mp_response counts every processor once.
LEMMA Counting ==
  ASSUME mp \in MpLists
  PROVE  /\ IsFiniteSet(Cpus) /\ Cardinality(Cpus) = cpu_count
         /\ IsFiniteSet(Aps) /\ Cardinality(Aps) = expected_aps
<1>1. IsFiniteSet(Cpus) /\ Cardinality(Cpus) = cpu_count
  <2>1. CASE mp = <<>>
    <3>1. Cpus = {Bsp}
      BY <2>1 DEF Cpus
    <3> QED
      BY <2>1, <3>1, FS_Singleton, Zenon DEF cpu_count
  <2>2. CASE mp # <<>>
    <3>1. /\ mp \in Seq(Processors) /\ Len(mp) \in Nat /\ DOMAIN mp = 1 .. Len(mp)
          /\ \E i \in DOMAIN mp : mp[i] = Bsp
          /\ \A i, j \in DOMAIN mp : mp[i] = mp[j] => i = j
      BY <2>2, SmpAssumption
    <3>2. Cpus = {mp[i] : i \in 1 .. Len(mp)}
      BY <3>1, Zenon DEF Cpus
    <3>3. mp \in [1 .. Len(mp) -> Cpus]
      BY <3>1, <3>2
    <3>a. mp \in Injection(1 .. Len(mp), Cpus)
      BY <3>1, <3>3, Zenon DEF Injection, IsInjective
    <3>b. mp \in Surjection(1 .. Len(mp), Cpus)
      BY <3>2, <3>3, Zenon DEF Surjection
    <3>4. mp \in Bijection(1 .. Len(mp), Cpus)
      BY <3>a, <3>b, Zenon DEF Bijection
    <3>5. ExistsBijection(1 .. Len(mp), Cpus)
      BY <3>4, Zenon DEF ExistsBijection
    <3>6. IsFiniteSet(1 .. Len(mp))
      BY <3>1, FS_Interval
    <3>7. IsFiniteSet(Cpus)
      BY <3>5, <3>6, FS_Bijection, Zenon
    <3> QED
      BY <2>2, <3>1, <3>5, <3>7, FS_CountingElements, Zenon DEF cpu_count
  <2> QED
    BY <2>1, <2>2, Zenon
<1>2. Bsp \in Cpus /\ cpu_count \in Nat
  BY Slots, Zenon
<1> QED
  BY <1>1, <1>2, FS_RemoveElement, Zenon DEF Aps, expected_aps

\* Counting one more.
LEMMA OneMore ==
  ASSUME NEW S, IsFiniteSet(S), NEW x, x \notin S
  PROVE  Cardinality(S \cup {x}) = Cardinality(S) + 1
BY FS_AddElement, Zenon

\* No step changes the machine.
LEMMA SameMachine ==
  ASSUME UNCHANGED machine
  PROVE  /\ UNCHANGED <<mp, Cpus, Aps, cpu_count, expected_aps, x2apic>>
         /\ \A c : UNCHANGED cpu_slot(c)
BY DEF machine, Cpus, Aps, cpu_count, expected_aps, cpu_slot
\* It starts with every processor parked and every counter at zero.
LEMMA InitBringUp == Init => BringUp
<1> SUFFICES ASSUME Init PROVE BringUp
  BY Zenon
<1>1. /\ mp \in MpLists /\ boot = "firmware" /\ cr3 = 0
      /\ cpu = [c \in Cpus |-> Blank]
      /\ AP_READY = 0 /\ IPI_PONG = 0 /\ TIMER_TICKS = 0
      /\ pending = [c \in Cpus |-> {}] /\ pongs = [c \in Cpus |-> 0]
  BY Zenon DEF Init
<1>2. Bsp \in Cpus /\ Aps \subseteq Cpus
  BY <1>1, Slots, Zenon DEF Aps
<1>3. \A c \in Cpus : cpu[c] = Blank
  BY <1>1, Zenon
<1>4. BringUpType
  BY <1>1, Zenon DEF BringUpType, CpuState, Blank, Stages, FromEntry
<1>5. BspLoads
  BY <1>1, <1>2, <1>3, Zenon DEF BspLoads, Blank, FromTables, FromActivate, FromStacks, FromReady,
    FromSelfIpi, FromSelfPong, FromIpis, FromPong
<1>6. ApLoads
  BY <1>2, <1>3 DEF ApLoads, ApHas, Blank, FromEntry, FromCr3, FromGdt, FromIdt, FromApic, FromStack,
    FromSti
<1>7. OwnStacks
  BY <1>3 DEF OwnStacks, Blank
<1>8. Counted
  <2>1. Reported = {} /\ Answered = {}
    BY <1>1, <1>2, <1>3 DEF Reported, Answered, Blank
  <2> QED
    BY <1>1, <1>2, <2>1, FS_EmptySet, Zenon DEF Counted, FromReady, FromSelfIpi, FromSelfPong,
      FromIpis, FromPong
<1> QED
  BY <1>4, <1>5, <1>6, <1>7, <1>8, Zenon DEF BringUp

\* A step of the boot processor that leaves processors and tables alone, and
\* sends nothing, keeps all but what says how far the boot has come.
LEMMA QuietInv ==
  ASSUME BringUp, UNCHANGED <<machine, cpu, tables, counters, pending>>, 
         \/ boot' \in {boot, "failed"}
         \/ boot \in {"firmware", "pages", "tables"} /\ boot' \in {"pages", "tables", "count"}
         \/ boot = "start" /\ boot' = "spin"
         \/ boot = "spin" /\ boot' = "timer" /\ Reported = Aps
         \/ boot = "self_wait" /\ boot' = "ticks" /\ Bsp \in Answered
         \/ boot = "ticks" /\ boot' = "ipi"
         \/ boot = "demo" /\ boot' = "ok"
  PROVE  BringUp'
<1> boot \in Stages
  BY Zenon DEF BringUp, BringUpType
<1>a. /\ boot' \in Stages
      /\ boot' \in FromTables => boot \in FromTables
      /\ boot' \in FromActivate => boot \in FromActivate
      /\ boot' \in FromStacks => boot \in FromStacks
  BY Zenon DEF Stages, FromTables, FromActivate, FromStacks, FromReady, FromSelfIpi, FromSelfPong,
    FromIpis, FromPong
<1>b. /\ boot' \in FromReady => boot \in FromReady \/ Reported = Aps
      /\ boot' \notin FromSelfIpi \cup {"failed"} => boot \notin FromSelfIpi \cup {"failed"}
      /\ boot' \notin FromIpis \cup {"failed"} => boot \notin FromIpis \cup {"failed"}
      /\ boot' \in FromSelfPong => boot \in FromSelfPong \/ Bsp \in Answered
      /\ boot' \in FromPong => boot \in FromPong
  BY Zenon DEF FromReady, FromSelfIpi, FromSelfPong, FromIpis, FromPong
<1>1. /\ UNCHANGED <<mp, Cpus, Aps, cpu_count, expected_aps, x2apic>>
      /\ \A c : UNCHANGED cpu_slot(c)
  BY SameMachine, Zenon
<1>2. UNCHANGED <<cpu, tops, cr3, AP_READY, IPI_PONG, TIMER_TICKS, pending, pongs>>
  BY Zenon DEF tables, counters
<1>3. BringUpType'
  BY <1>a, <1>1, <1>2, Zenon DEF BringUp, BringUpType
<1>4. BspLoads'
  <2>1. BspLoads
    BY Zenon DEF BringUp
  <2>2. UNCHANGED Published /\ UNCHANGED Loaded(Bsp)
    BY <1>1, <1>2, Zenon DEF Published, Loaded
  <2> QED
    BY <1>a, <1>1, <1>2, <2>1, <2>2, Zenon DEF BspLoads
<1>5. ApLoads'
  <2>1. UNCHANGED Published
    BY <1>1, <1>2, Zenon DEF Published
  <2> QED
    BY <1>1, <1>2, <2>1, Zenon DEF BringUp, ApLoads, ApHas
<1>6. OwnStacks'
  BY <1>1, <1>2, Zenon DEF BringUp, OwnStacks
<1>7. Counted'
  <2>1. UNCHANGED <<Reported, Answered>>
    BY <1>1, <1>2, Zenon DEF Reported, Answered
  <2> QED
    BY <1>b, <1>1, <1>2, <2>1, Zenon DEF BringUp, Counted
<1> QED
  BY <1>3, <1>4, <1>5, <1>6, <1>7, Zenon DEF BringUp
\* What the boot processor loads, and publishes for the others.
LEMMA BspLoadInv ==
  ASSUME BringUp, UNCHANGED <<machine, counters, pending>>,
         NEW loaded \in CpuState, Load(Bsp, loaded), loaded.stack \in {0, cpu_slot(Bsp)},
         cr3' \in {0, 1}, Published => Published', BspLoads',
         \/ boot = "count" /\ boot' = "activate"
         \/ boot = "activate" /\ boot' = "stacks"
         \/ boot = "stacks" /\ boot' = "start"
         \/ boot = "timer" /\ boot' = "self"
         \/ boot = "pong_wait" /\ boot' = "demo" /\ Answered = Cpus /\ ~loaded.sti
  PROVE  BringUp'
<1>1. /\ UNCHANGED <<mp, Cpus, Aps, cpu_count, expected_aps, x2apic>>
      /\ \A c : UNCHANGED cpu_slot(c)
  BY SameMachine, Zenon
<1>2. UNCHANGED <<AP_READY, IPI_PONG, TIMER_TICKS, pending, pongs>>
  BY Zenon DEF counters
<1>3. /\ mp \in MpLists /\ cpu \in [Cpus -> CpuState]
      /\ Bsp \in Cpus /\ Aps \subseteq Cpus /\ Bsp \notin Aps
  BY Slots, Zenon DEF BringUp, BringUpType, Aps
<1>4. cpu'[Bsp] = loaded /\ \A c \in Aps : cpu'[c] = cpu[c]
  BY <1>3, Zenon DEF Load
<1>5. BringUpType'
  <2>1. boot' \in Stages
    BY Zenon DEF Stages, FromTables, FromActivate, FromStacks, FromReady, FromSelfIpi, FromSelfPong,
      FromIpis, FromPong
  <2>2. cpu' \in [Cpus -> CpuState]
    BY <1>3, Zenon DEF Load
  <2> QED
    BY <1>1, <1>2, <2>1, <2>2, Zenon DEF BringUp, BringUpType
<1>6. ApLoads'
  BY <1>1, <1>4 DEF BringUp, ApLoads, ApHas
<1>7. OwnStacks'
  BY <1>1, <1>3, <1>4, Zenon DEF BringUp, OwnStacks, Aps
<1>8. Counted'
  <2>1. UNCHANGED <<Reported, Answered>>
    BY <1>1, <1>2, <1>4, Zenon DEF Reported, Answered
  <2>2. /\ boot' \in FromReady => boot \in FromReady
        /\ boot' \notin FromSelfIpi \cup {"failed"} => boot \notin FromSelfIpi \cup {"failed"}
        /\ boot' \notin FromIpis \cup {"failed"} => boot \notin FromIpis \cup {"failed"}
        /\ boot' \in FromSelfPong => boot \in FromSelfPong
        /\ boot' \in FromPong => Answered = Cpus /\ ~loaded.sti
    BY Zenon DEF FromReady, FromSelfIpi, FromSelfPong, FromIpis, FromPong
  <2> QED
    BY <1>1, <1>2, <1>4, <2>1, <2>2, Zenon DEF BringUp, Counted
<1> QED
  BY <1>5, <1>6, <1>7, <1>8, Zenon DEF BringUp

\* What another processor loads, up to its report.
LEMMA ApLoadInv ==
  ASSUME BringUp, UNCHANGED <<machine, boot, tables, pending, IPI_PONG, TIMER_TICKS, pongs>>,
         NEW c \in Aps, NEW loaded \in CpuState, Load(c, loaded), ApHas(c, loaded),
         loaded.stack \in {0, cpu_slot(c)}, cpu[c].pc # "hlt",
         AP_READY' = (IF loaded.pc = "hlt" THEN AP_READY + 1 ELSE AP_READY)
  PROVE  BringUp'
<1>1. /\ UNCHANGED <<mp, Cpus, Aps, cpu_count, expected_aps, x2apic>>
      /\ \A d : UNCHANGED cpu_slot(d)
  BY SameMachine, Zenon
<1>2. UNCHANGED <<boot, tops, cr3, IPI_PONG, TIMER_TICKS, pending, pongs, Published>>
  BY <1>1, Zenon DEF tables, Published
<1>3. /\ mp \in MpLists /\ cpu \in [Cpus -> CpuState]
      /\ Bsp \in Cpus /\ c \in Cpus /\ c # Bsp /\ Aps \subseteq Cpus
  BY Slots, Zenon DEF BringUp, BringUpType, Aps
<1>4. cpu'[c] = loaded /\ \A d \in Cpus \ {c} : cpu'[d] = cpu[d]
  BY <1>3, Zenon DEF Load
<1>5. UNCHANGED cpu[Bsp]
  BY <1>3, <1>4, Zenon
<1>6. BringUpType'
  <2>1. cpu' \in [Cpus -> CpuState]
    BY <1>3, Zenon DEF Load
  <2>2. AP_READY' \in Nat
    BY DEF BringUp, BringUpType
  <2> QED
    BY <1>1, <1>2, <2>1, <2>2, Zenon DEF BringUp, BringUpType
<1>7. BspLoads'
  <2>1. UNCHANGED Loaded(Bsp)
    BY <1>1, <1>5, Zenon DEF Loaded
  <2> QED
    BY <1>1, <1>2, <1>5, <2>1, Zenon DEF BringUp, BspLoads
<1>8. ApLoads'
  BY <1>1, <1>2, <1>3, <1>4, SMTT(30) DEF BringUp, ApLoads, ApHas
<1>9. OwnStacks'
  BY <1>1, <1>4, Zenon DEF BringUp, OwnStacks
<1>10. Counted'
  <2>1. Answered' = Answered
    BY <1>1, <1>2, Zenon DEF Answered
  <2>2. c \notin Reported /\ Reported' = (IF loaded.pc = "hlt" THEN Reported \cup {c} ELSE Reported)
    BY <1>1, <1>3, <1>4, Zenon DEF Reported
  <2>3. boot \notin FromReady
    BY <2>2, Zenon DEF BringUp, Counted
  <2>4. IsFiniteSet(Reported)
    BY <1>3, Counting, FS_Subset, Zenon DEF Reported
  <2>5. AP_READY' = Cardinality(Reported')
    <3>1. AP_READY = Cardinality(Reported)
      BY Zenon DEF BringUp, Counted
    <3>2. Cardinality(Reported \cup {c}) = Cardinality(Reported) + 1
      BY <2>2, <2>4, OneMore, Zenon
    <3> QED
      BY <2>2, <3>1, <3>2, Zenon
  <2>6. Counted
    BY Zenon DEF BringUp
  <2> QED
    BY <1>1, <1>2, <1>5, <2>1, <2>3, <2>5, <2>6, Zenon DEF Counted
<1> QED
  BY <1>6, <1>7, <1>8, <1>9, <1>10, Zenon DEF BringUp
\* What changes pending interrupts and the counters of the handlers only.
LEMMA InterruptInv ==
  ASSUME BringUp, UNCHANGED <<machine, cpu, tables, AP_READY>>, BringUpType',
         boot' = boot \/ (boot = "self" /\ boot' = "self_wait")
           \/ (boot = "ipi" /\ boot' = "pong_wait"),
         IPI_PONG' = Cardinality(Answered'), Answered \subseteq Answered',
         \A c \in Cpus : "ipi" \in pending'[c] => c \notin Answered',
         \A c \in Aps : "timer" \notin pending'[c],
         boot' \notin FromSelfIpi \cup {"failed"} =>
           Bsp \notin Answered' /\ "ipi" \notin pending'[Bsp],
         boot' \notin FromIpis \cup {"failed"} =>
           \A c \in Aps : c \notin Answered' /\ "ipi" \notin pending'[c]
  PROVE  BringUp'
<1>1. /\ UNCHANGED <<mp, Cpus, Aps, cpu_count, expected_aps, x2apic>>
      /\ \A c : UNCHANGED cpu_slot(c)
  BY SameMachine, Zenon
<1>2. UNCHANGED <<cpu, tops, cr3, AP_READY, Published, Loaded(Bsp)>>
  BY <1>1, Zenon DEF tables, Published, Loaded
<1>3. /\ boot' \in FromTables => boot \in FromTables
      /\ boot' \in FromActivate => boot \in FromActivate
      /\ boot' \in FromStacks => boot \in FromStacks
      /\ boot' \in FromReady => boot \in FromReady
      /\ boot' \in FromSelfPong => boot \in FromSelfPong
      /\ boot' \in FromPong => boot \in FromPong
  BY Zenon DEF FromTables, FromActivate, FromStacks, FromReady, FromSelfIpi, FromSelfPong, FromIpis,
    FromPong
<1>4. BspLoads'
  <2>1. BspLoads
    BY Zenon DEF BringUp
  <2> QED
    BY <1>1, <1>2, <1>3, <2>1, Zenon DEF BspLoads
<1>5. ApLoads'
  BY <1>1, <1>2, Zenon DEF BringUp, ApLoads, ApHas
<1>6. OwnStacks'
  BY <1>1, <1>2, Zenon DEF BringUp, OwnStacks
<1>7. Counted'
  <2>1. Reported' = Reported
    BY <1>1, <1>2, Zenon DEF Reported
  <2>2. Answered' \subseteq Cpus
    BY <1>1, Zenon DEF Answered
  <2>3. Counted
    BY Zenon DEF BringUp
  <2> QED
    BY <1>1, <1>2, <1>3, <2>1, <2>2, <2>3, Zenon DEF Counted
<1> QED
  BY <1>4, <1>5, <1>6, <1>7, Zenon DEF BringUp

\* An IPI becomes pending only where none was sent before.
LEMMA SendInv ==
  ASSUME BringUp, UNCHANGED <<machine, cpu, tables, counters>>,
         \/ boot = "self" /\ boot' = "self_wait" /\ Send({Bsp})
         \/ boot = "ipi" /\ boot' = "pong_wait" /\ Send(Aps)
  PROVE  BringUp'
<1>1. UNCHANGED <<mp, Cpus, Aps>>
  BY SameMachine, Zenon
<1>2. /\ mp \in MpLists /\ pending \in [Cpus -> SUBSET {"ipi", "timer"}]
      /\ Bsp \in Cpus /\ Aps = Cpus \ {Bsp}
  BY Slots, Zenon DEF BringUp, BringUpType, Aps
<1>3. PICK to \in {{Bsp}, Aps} : Send(to) /\ (to = Aps => boot = "ipi" /\ boot' = "pong_wait")
                            /\ (to = {Bsp} => boot = "self" /\ boot' = "self_wait")
  BY <1>2, Zenon
<1>4. \A c \in Cpus : pending'[c] \in {pending[c], pending[c] \cup {"ipi"}}
  BY <1>1, <1>3, Zenon DEF Send
<1>5. \A c \in Cpus \ to : pending'[c] = pending[c]
  BY <1>1, <1>3, Zenon DEF Send
<1>6. UNCHANGED <<IPI_PONG, TIMER_TICKS, AP_READY, pongs, Answered, cr3>>
  BY <1>1, Zenon DEF counters, Answered, tables
<1>7. \A c \in to : c \notin Answered
  BY <1>3, Zenon DEF BringUp, Counted, FromSelfIpi, FromSelfPong, FromIpis, FromPong
<1>8. BringUpType'
  <2>1. pending' \in [Cpus -> SUBSET {"ipi", "timer"}]
    BY <1>2, <1>3, Zenon DEF Send
  <2>2. boot' \in Stages
    BY Zenon DEF Stages, FromTables, FromActivate, FromStacks, FromReady, FromSelfIpi, FromSelfPong,
      FromIpis
  <2> QED
    BY <1>1, <1>6, <2>1, <2>2, Zenon DEF BringUp, BringUpType
<1>9. boot' \notin FromIpis \cup {"failed"} =>
        \A c \in Aps : c \notin Answered' /\ "ipi" \notin pending'[c]
  BY <1>2, <1>3, <1>5, <1>6, Zenon DEF BringUp, Counted, FromIpis, FromPong
<1>10. boot' \in FromSelfIpi
  BY Zenon DEF FromSelfIpi, FromSelfPong, FromIpis
<1>11. IPI_PONG' = Cardinality(Answered')
  BY <1>6, Zenon DEF BringUp, Counted
<1>12. \A c \in Cpus : "ipi" \in pending'[c] => c \notin Answered'
  BY <1>5, <1>6, <1>7, Zenon DEF BringUp, Counted
<1>13. \A c \in Aps : "timer" \notin pending'[c]
  BY <1>2, <1>4, SMTT(30) DEF BringUp, Counted
<1> QED
  BY <1>6, <1>8, <1>9, <1>10, <1>11, <1>12, <1>13, InterruptInv, Zenon
\* Only the boot processor has a timer.
LEMMA TickInv ==
  ASSUME BringUp, Tick
  PROVE  BringUp'
<1>1. UNCHANGED machine /\ UNCHANGED <<boot, cpu, tables, counters>>
  BY Zenon DEF Tick
<1>2. UNCHANGED <<mp, Cpus, Aps>>
  BY <1>1, SameMachine, Zenon
<1>3. UNCHANGED <<boot, cpu, cr3, AP_READY, IPI_PONG, TIMER_TICKS, pongs, Answered>>
  BY <1>1, <1>2, Zenon DEF tables, counters, Answered
<1>4. /\ mp \in MpLists /\ pending \in [Cpus -> SUBSET {"ipi", "timer"}]
      /\ Bsp \in Cpus /\ Aps = Cpus \ {Bsp}
  BY Slots, Zenon DEF BringUp, BringUpType, Aps
<1>5. pending' = [pending EXCEPT ![Bsp] = pending[Bsp] \cup {"timer"}]
  BY Zenon DEF Tick
<1>6. \A c \in Cpus : "ipi" \in pending'[c] <=> "ipi" \in pending[c]
  BY <1>4, <1>5, Zenon
<1>7. \A c \in Aps : pending'[c] = pending[c]
  BY <1>4, <1>5, Zenon
<1>8. BringUpType'
  <2>1. pending' \in [Cpus -> SUBSET {"ipi", "timer"}]
    BY <1>4, <1>5, Zenon
  <2> QED
    BY <1>2, <1>3, <2>1, Zenon DEF BringUp, BringUpType
<1>9. Counted
  BY Zenon DEF BringUp
<1>10. /\ IPI_PONG' = Cardinality(Answered')
       /\ \A c \in Cpus : "ipi" \in pending'[c] => c \notin Answered'
       /\ \A c \in Aps : "timer" \notin pending'[c]
  BY <1>3, <1>6, <1>7, <1>9, Zenon DEF Counted
<1>11. /\ boot' \notin FromSelfIpi \cup {"failed"} =>
            Bsp \notin Answered' /\ "ipi" \notin pending'[Bsp]
       /\ boot' \notin FromIpis \cup {"failed"} =>
            \A c \in Aps : c \notin Answered' /\ "ipi" \notin pending'[c]
  BY <1>3, <1>4, <1>6, <1>9, Zenon DEF Counted
<1> QED
  BY <1>1, <1>3, <1>8, <1>10, <1>11, InterruptInv, Zenon

\* A processor answers its IPI once.
LEMMA DispatchInv ==
  ASSUME BringUp, NEW c \in Cpus, NEW vector \in {"ipi", "timer"}, isr_dispatch(c, vector)
  PROVE  BringUp'
<1>1. UNCHANGED machine /\ UNCHANGED <<boot, cpu, tables, AP_READY>>
  BY Zenon DEF isr_dispatch
<1>2. UNCHANGED <<mp, Cpus, Aps, cr3>>
  BY <1>1, SameMachine, Zenon DEF tables
<1>3. /\ mp \in MpLists /\ pending \in [Cpus -> SUBSET {"ipi", "timer"}]
      /\ pongs \in [Cpus -> {0, 1}] /\ IPI_PONG \in Nat /\ TIMER_TICKS \in Nat
      /\ Bsp \in Cpus /\ Aps = Cpus \ {Bsp}
  BY Slots, Zenon DEF BringUp, BringUpType, Aps
<1>4. vector \in pending[c] /\ pending' = [pending EXCEPT ![c] = pending[c] \ {vector}]
  BY Zenon DEF isr_dispatch
<1>5. pending' \in [Cpus -> SUBSET {"ipi", "timer"}] /\ \A d \in Cpus : pending'[d] \subseteq pending[d]
  BY <1>3, <1>4, Zenon
<1>6. Counted
  BY Zenon DEF BringUp
<1>7. CASE vector = "ipi"
  <2>1. pongs[c] = 0 /\ c \notin Answered
    BY <1>3, <1>4, <1>6, <1>7, Zenon DEF Counted, Answered
  <2>2. pongs' = [pongs EXCEPT ![c] = 1] /\ IPI_PONG' = IPI_PONG + 1 /\ TIMER_TICKS' = TIMER_TICKS
    BY <1>7, <2>1 DEF isr_dispatch
  <2>3. Answered' = Answered \cup {c}
    BY <1>2, <1>3, <2>2, Zenon DEF Answered
  <2>4. IPI_PONG' = Cardinality(Answered')
    <3>1. IsFiniteSet(Answered)
      BY <1>3, Counting, FS_Subset, Zenon DEF Answered
    <3>2. Cardinality(Answered \cup {c}) = Cardinality(Answered) + 1
      BY <2>1, <3>1, OneMore, Zenon
    <3>3. IPI_PONG = Cardinality(Answered)
      BY <1>6, Zenon DEF Counted
    <3> QED
      BY <2>2, <2>3, <3>2, <3>3, Zenon
  <2>5. BringUpType'
    BY <1>1, <1>2, <1>5, <2>2 DEF BringUp, BringUpType
  <2>6. "ipi" \in pending[c] /\ "ipi" \notin pending'[c]
    BY <1>3, <1>4, <1>7, Zenon
  <2>7. /\ \A d \in Cpus : "ipi" \in pending'[d] => d \notin Answered'
        /\ \A d \in Aps : "timer" \notin pending'[d]
    BY <1>3, <1>5, <1>6, <2>3, <2>6, Zenon DEF Counted
  <2>8. /\ boot' \notin FromSelfIpi \cup {"failed"} =>
             Bsp \notin Answered' /\ "ipi" \notin pending'[Bsp]
        /\ boot' \notin FromIpis \cup {"failed"} =>
             \A d \in Aps : d \notin Answered' /\ "ipi" \notin pending'[d]
    BY <1>1, <1>3, <1>5, <1>6, <2>3, <2>6, Zenon DEF Counted
  <2> QED
    BY <1>1, <2>3, <2>4, <2>5, <2>7, <2>8, InterruptInv, Zenon
<1>8. CASE vector = "timer"
  <2>1. UNCHANGED <<pongs, IPI_PONG>> /\ TIMER_TICKS' = TIMER_TICKS + 1
    BY <1>8, Zenon DEF isr_dispatch
  <2>2. Answered' = Answered
    BY <1>2, <2>1, Zenon DEF Answered
  <2>3. BringUpType'
    BY <1>1, <1>2, <1>3, <1>5, <2>1, SMTT(30) DEF BringUp, BringUpType
  <2>4. /\ IPI_PONG' = Cardinality(Answered')
        /\ \A d \in Cpus : "ipi" \in pending'[d] => d \notin Answered'
        /\ \A d \in Aps : "timer" \notin pending'[d]
    BY <1>3, <1>5, <1>6, <2>1, <2>2, Zenon DEF Counted
  <2>5. /\ boot' \notin FromSelfIpi \cup {"failed"} =>
             Bsp \notin Answered' /\ "ipi" \notin pending'[Bsp]
        /\ boot' \notin FromIpis \cup {"failed"} =>
             \A d \in Aps : d \notin Answered' /\ "ipi" \notin pending'[d]
    BY <1>1, <1>3, <1>5, <1>6, <2>2, Zenon DEF Counted
  <2> QED
    BY <1>1, <2>2, <2>3, <2>4, <2>5, InterruptInv, Zenon
<1> QED
  BY <1>7, <1>8, Zenon
\* What the boot processor loads itself, stage by stage.
LEMMA BspInv ==
  ASSUME BringUp, Tables \/ Activate \/ Stacks \/ StartTimer \/ Ponged
  PROVE  BringUp'
<1>1. UNCHANGED machine /\ UNCHANGED <<counters, pending>>
  BY Zenon DEF Tables, Activate, Stacks, StartTimer, Ponged
<1>2. /\ UNCHANGED <<mp, Cpus, Aps, cpu_count, expected_aps, x2apic>>
      /\ \A c : UNCHANGED cpu_slot(c)
  BY <1>1, SameMachine, Zenon
<1>3. /\ mp \in MpLists /\ cpu \in [Cpus -> CpuState] /\ cr3 \in {0, 1} /\ Bsp \in Cpus
      /\ cpu_slot(Bsp) \in 1 .. cpu_count /\ cpu_count \in Nat
  BY Slots, Zenon DEF BringUp, BringUpType
<1>4. /\ BspLoads /\ cpu[Bsp] \in CpuState
      /\ cpu[Bsp].stack \in {0, cpu_slot(Bsp)}
  BY <1>3, Zenon DEF BringUp, OwnStacks
<1>5. CASE Tables
  <2> DEFINE loaded == [cpu[Bsp] EXCEPT !.gdt = cpu_slot(Bsp), !.idt = TRUE, !.apic = TRUE]
  <2>1. /\ Load(Bsp, loaded) /\ boot = "count" /\ boot' = "activate" /\ UNCHANGED <<tops, cr3>>
        /\ x2apic /\ cpu_count <= MAX_CPUS
    BY <1>5, Zenon DEF Tables, Boot, tables
  <2>a. cpu_slot(Bsp) \in Nat
    BY <1>3
  <2>b. loaded \in CpuState
    BY <1>4, <2>a, Zenon DEF CpuState
  <2>2. loaded \in CpuState /\ loaded.stack \in {0, cpu_slot(Bsp)} /\ loaded.pc = cpu[Bsp].pc
        /\ loaded.sti = cpu[Bsp].sti /\ loaded.cr3 = cpu[Bsp].cr3 /\ loaded.stack = cpu[Bsp].stack
        /\ loaded.idt /\ loaded.apic /\ loaded.gdt = cpu_slot(Bsp)
    BY <1>4, <2>b, Zenon DEF CpuState
  <2>3. cpu'[Bsp] = loaded
    BY <1>3, <2>1, Zenon DEF Load
  <2>4. UNCHANGED Published
    BY <1>2, <2>1, Zenon DEF Published
  <2> HIDE DEF loaded
  <2>5. BspLoads'
    BY <1>2, <1>4, <2>1, <2>2, <2>3, <2>4, Zenon DEF BspLoads, Loaded, FromActivate, FromStacks,
      FromReady, FromSelfIpi, FromSelfPong, FromIpis, FromPong
  <2> QED
    BY <1>1, <1>3, <2>1, <2>2, <2>4, <2>5, BspLoadInv, Zenon
<1>6. CASE Activate
  <2> DEFINE loaded == [cpu[Bsp] EXCEPT !.cr3 = 1]
  <2>1. Load(Bsp, loaded) /\ boot = "activate" /\ boot' = "stacks" /\ tops' = tops /\ cr3' = 1
    BY <1>6, Zenon DEF Activate, Boot
  <2>2. loaded \in CpuState /\ loaded.stack \in {0, cpu_slot(Bsp)} /\ loaded.pc = cpu[Bsp].pc
        /\ loaded.sti = cpu[Bsp].sti /\ loaded.cr3 = 1 /\ loaded.stack = cpu[Bsp].stack
        /\ loaded.idt = cpu[Bsp].idt /\ loaded.apic = cpu[Bsp].apic /\ loaded.gdt = cpu[Bsp].gdt
    BY <1>3, <1>4, Zenon DEF CpuState
  <2>3. cpu'[Bsp] = loaded
    BY <1>3, <2>1, Zenon DEF Load
  <2>4. Published => Published'
    BY <1>2, <2>1, Zenon DEF Published
  <2> HIDE DEF loaded
  <2>5. UNCHANGED Loaded(Bsp)
    BY <1>2, <2>2, <2>3, Zenon DEF Loaded
  <2>6. boot \in FromTables /\ boot' \notin FromStacks
    BY <2>1, Zenon DEF FromTables, FromStacks, FromReady, FromSelfIpi, FromSelfPong, FromIpis,
      FromPong
  <2>7. BspLoads'
    BY <1>2, <1>4, <2>1, <2>2, <2>3, <2>4, <2>5, <2>6, Zenon DEF BspLoads
  <2> QED
    BY <1>1, <2>1, <2>2, <2>4, <2>7, BspLoadInv, Zenon
<1>7. CASE Stacks
  <2> DEFINE loaded == [cpu[Bsp] EXCEPT !.stack = cpu_slot(Bsp)]
  <2>1. /\ boot = "stacks" /\ boot' = "start" /\ cr3' = cr3
        /\ tops' = [i \in 1 .. MAX_CPUS |-> IF i <= cpu_count THEN i ELSE 0]
        /\ Load(Bsp, [cpu[Bsp] EXCEPT !.stack = tops'[cpu_slot(Bsp)]])
    BY <1>7, Zenon DEF Stacks, Boot
  <2>2. /\ Loaded(Bsp) /\ x2apic /\ cpu_count <= MAX_CPUS /\ cr3 = 1 /\ cpu[Bsp].cr3 = 1
    BY <1>4, <2>1, Zenon DEF BspLoads, FromTables, FromActivate
  <2>3. tops'[cpu_slot(Bsp)] = cpu_slot(Bsp)
    BY <1>3, <2>1, <2>2, SmpAssumption
  <2>4. Load(Bsp, loaded)
    BY <2>1, <2>3, Zenon
  <2>5. loaded \in CpuState /\ loaded.stack = cpu_slot(Bsp) /\ loaded.pc = cpu[Bsp].pc
        /\ loaded.sti = cpu[Bsp].sti /\ loaded.cr3 = cpu[Bsp].cr3
        /\ loaded.idt = cpu[Bsp].idt /\ loaded.apic = cpu[Bsp].apic /\ loaded.gdt = cpu[Bsp].gdt
    BY <1>3, <1>4 DEF CpuState
  <2>6. cpu'[Bsp] = loaded
    BY <1>3, <2>4, Zenon DEF Load
  <2>7. Published'
    BY <1>2, <2>1, <2>2, Zenon DEF Published
  <2> HIDE DEF loaded
  <2>8. Loaded(Bsp)'
    BY <1>2, <2>2, <2>5, <2>6, Zenon DEF Loaded
  <2>9. BspLoads'
    BY <1>2, <1>4, <2>1, <2>2, <2>5, <2>6, <2>7, <2>8, Zenon DEF BspLoads
  <2> QED
    BY <1>1, <1>3, <2>1, <2>4, <2>5, <2>7, <2>9, BspLoadInv, Zenon
<1>8. CASE StartTimer \/ Ponged
  <2>1. PICK enabled \in BOOLEAN : Load(Bsp, [cpu[Bsp] EXCEPT !.sti = enabled])
                                 /\ (StartTimer => enabled) /\ (Ponged => ~enabled)
    BY <1>8, Zenon DEF StartTimer, Ponged, Boot
  <2> DEFINE loaded == [cpu[Bsp] EXCEPT !.sti = enabled]
  <2>2. /\ UNCHANGED <<tops, cr3>>
        /\ \/ boot = "timer" /\ boot' = "self"
           \/ boot = "pong_wait" /\ boot' = "demo" /\ Ponged
    BY <1>8, Zenon DEF StartTimer, Ponged, Boot, tables
  <2>3. loaded \in CpuState /\ loaded.sti = enabled /\ loaded.pc = cpu[Bsp].pc
        /\ loaded.stack = cpu[Bsp].stack /\ loaded.cr3 = cpu[Bsp].cr3
        /\ loaded.idt = cpu[Bsp].idt /\ loaded.apic = cpu[Bsp].apic /\ loaded.gdt = cpu[Bsp].gdt
    BY <1>4, Zenon DEF CpuState
  <2>4. cpu'[Bsp] = loaded
    BY <1>3, <2>1, Zenon DEF Load
  <2>5. UNCHANGED Published
    BY <1>2, <2>2, Zenon DEF Published
  <2> HIDE DEF loaded
  <2>6. UNCHANGED Loaded(Bsp)
    BY <1>2, <2>3, <2>4, Zenon DEF Loaded
  <2>7. boot \in FromTables /\ boot \in FromActivate /\ boot \in FromStacks
    BY <2>2, Zenon DEF FromTables, FromActivate, FromStacks, FromReady, FromSelfIpi, FromSelfPong,
      FromIpis, FromPong
  <2>8. BspLoads'
    BY <1>2, <1>4, <2>2, <2>3, <2>4, <2>5, <2>6, <2>7, Zenon DEF BspLoads
  <2>9. Ponged => Answered = Cpus
    <3> SUFFICES ASSUME Ponged PROVE Answered = Cpus
      BY Zenon
    <3>1. IPI_PONG >= 1 + (cpu_count - 1) /\ IPI_PONG = Cardinality(Answered)
      BY Zenon DEF Ponged, PongsWanted, expected_aps, BringUp, Counted
    <3>2. IsFiniteSet(Cpus) /\ Cardinality(Cpus) = cpu_count
      BY <1>3, Counting, Zenon
    <3>3. Answered \in SUBSET Cpus
      BY Zenon DEF Answered
    <3>4. Cardinality(Answered) <= Cardinality(Cpus) /\ Cardinality(Answered) \in Nat
      BY <3>2, <3>3, FS_Subset, FS_CardinalityType, Zenon
    <3>5. Cardinality(Answered) = Cardinality(Cpus)
      BY <1>3, <3>1, <3>2, <3>4
    <3> QED
      BY <3>2, <3>3, <3>5, FS_Subset, Zenon
  <2>10. cr3' \in {0, 1} /\ loaded.stack \in {0, cpu_slot(Bsp)} /\ (Published => Published')
    BY <1>3, <1>4, <2>2, <2>3, <2>5, Zenon
  <2>11. \/ boot = "timer" /\ boot' = "self"
         \/ boot = "pong_wait" /\ boot' = "demo" /\ Answered = Cpus /\ ~loaded.sti
    BY <2>1, <2>2, <2>3, <2>9, Zenon
  <2>12. Load(Bsp, loaded)
    BY <2>1, Zenon DEF loaded
  <2> QED
    BY <1>1, <2>3, <2>8, <2>10, <2>11, <2>12, BspLoadInv, Zenon
<1> QED
  BY <1>5, <1>6, <1>7, <1>8, Zenon
\* The other processors find what they need, so that none of them stops.
LEMMA ApInv ==
  ASSUME BringUp, NEW c \in Cpus, ApStep(c)
  PROVE  BringUp'
<1>1. c \in Aps /\ UNCHANGED machine /\ UNCHANGED <<boot, tables, pending, IPI_PONG, TIMER_TICKS, pongs>>
  BY Zenon DEF ApStep, load_published, gdt_load, idt_load, enable_x2apic, switch_to, sti, Ready, Ap,
    Up, counters
<1>2. /\ mp \in MpLists /\ cpu[c] \in CpuState /\ cr3 \in {0, 1}
      /\ cpu_slot(c) \in 1 .. cpu_count /\ cpu_count \in Nat /\ cpu_slot(c) \in Nat
  BY Slots DEF BringUp, BringUpType
<1>3. ApHas(c, cpu[c]) /\ cpu[c].stack \in {0, cpu_slot(c)}
  BY <1>1, Zenon DEF BringUp, ApLoads, OwnStacks
<1>4. cpu[c].pc \in FromEntry => Published
  BY <1>3, Zenon DEF ApHas
<1>5. CASE load_published(c)
  <2> DEFINE loaded == [cpu[c] EXCEPT !.pc = "gdt", !.cr3 = 1]
  <2>1. cpu[c].pc = "entry" /\ AP_READY' = AP_READY
    BY <1>5, Zenon DEF load_published, Ap, counters
  <2>2. Published /\ cr3 = 1
    BY <1>4, <2>1, Zenon DEF FromEntry, Published
  <2>3. Load(c, loaded)
    BY <1>5, <2>2 DEF load_published, Ap
  <2>4. loaded \in CpuState
    BY <1>2, Zenon DEF CpuState, FromEntry, FromCr3
  <2>5. /\ loaded.pc = "gdt" /\ loaded.cr3 = 1 /\ loaded.stack = cpu[c].stack
        /\ loaded.sti = cpu[c].sti
    BY <1>2, Zenon DEF CpuState
  <2> HIDE DEF loaded
  <2>6. ApHas(c, loaded)
    BY <1>3, <2>1, <2>2, <2>5, Zenon DEF ApHas, FromEntry, FromCr3, FromGdt, FromIdt, FromApic,
      FromStack, FromSti
  <2> QED
    BY <1>1, <1>3, <2>1, <2>3, <2>4, <2>5, <2>6, ApLoadInv, Zenon
<1>6. CASE gdt_load(c)
  <2> DEFINE loaded == [cpu[c] EXCEPT !.pc = "idt", !.gdt = cpu_slot(c)]
  <2>1. cpu[c].pc = "gdt" /\ AP_READY' = AP_READY
    BY <1>6, Zenon DEF gdt_load, Ap, counters
  <2>2. Published /\ ~(cpu_slot(c) > MAX_CPUS)
    BY <1>2, <1>4, <2>1, SmpAssumption DEF FromEntry, FromCr3, Published
  <2>3. Load(c, loaded)
    BY <1>6, <2>2, Zenon DEF gdt_load, Ap
  <2>4. loaded \in CpuState
    BY <1>2, Zenon DEF CpuState, FromEntry, FromCr3, FromGdt
  <2>5. /\ loaded.pc = "idt" /\ loaded.cr3 = cpu[c].cr3 /\ loaded.gdt = cpu_slot(c)
        /\ loaded.stack = cpu[c].stack /\ loaded.sti = cpu[c].sti
    BY <1>2, Zenon DEF CpuState
  <2> HIDE DEF loaded
  <2>6. ApHas(c, loaded)
    BY <1>3, <2>1, <2>2, <2>5, Zenon DEF ApHas, FromEntry, FromCr3, FromGdt, FromIdt, FromApic,
      FromStack, FromSti
  <2> QED
    BY <1>1, <1>3, <2>1, <2>3, <2>4, <2>5, <2>6, ApLoadInv, Zenon
<1>7. CASE idt_load(c)
  <2> DEFINE loaded == [cpu[c] EXCEPT !.pc = "apic", !.idt = TRUE]
  <2>1. cpu[c].pc = "idt" /\ AP_READY' = AP_READY /\ Load(c, loaded)
    BY <1>7, Zenon DEF idt_load, Ap, counters
  <2>2. Published
    BY <1>4, <2>1, Zenon DEF FromEntry, FromCr3, FromGdt
  <2>4. loaded \in CpuState
    BY <1>2, Zenon DEF CpuState, FromEntry, FromCr3, FromGdt, FromIdt
  <2>5. /\ loaded.pc = "apic" /\ loaded.cr3 = cpu[c].cr3 /\ loaded.gdt = cpu[c].gdt /\ loaded.idt
        /\ loaded.stack = cpu[c].stack /\ loaded.sti = cpu[c].sti
    BY <1>2, Zenon DEF CpuState
  <2> HIDE DEF loaded
  <2>6. ApHas(c, loaded)
    BY <1>3, <2>1, <2>2, <2>5, Zenon DEF ApHas, FromEntry, FromCr3, FromGdt, FromIdt, FromApic,
      FromStack, FromSti
  <2> QED
    BY <1>1, <1>3, <2>1, <2>4, <2>5, <2>6, ApLoadInv, Zenon
<1>8. CASE enable_x2apic(c)
  <2> DEFINE loaded == [cpu[c] EXCEPT !.pc = "stack", !.apic = TRUE]
  <2>1. cpu[c].pc = "apic" /\ AP_READY' = AP_READY
    BY <1>8, Zenon DEF enable_x2apic, Ap, counters
  <2>2. Published /\ x2apic
    BY <1>4, <2>1, Zenon DEF FromEntry, FromCr3, FromGdt, FromIdt, Published
  <2>3. Load(c, loaded)
    BY <1>8, <2>2, Zenon DEF enable_x2apic, Ap
  <2>4. loaded \in CpuState
    BY <1>2, Zenon DEF CpuState, FromEntry, FromCr3, FromGdt, FromIdt, FromApic
  <2>5. /\ loaded.pc = "stack" /\ loaded.cr3 = cpu[c].cr3 /\ loaded.gdt = cpu[c].gdt
        /\ loaded.idt = cpu[c].idt /\ loaded.apic
        /\ loaded.stack = cpu[c].stack /\ loaded.sti = cpu[c].sti
    BY <1>2, Zenon DEF CpuState
  <2> HIDE DEF loaded
  <2>6. ApHas(c, loaded)
    BY <1>3, <2>1, <2>2, <2>5, Zenon DEF ApHas, FromEntry, FromCr3, FromGdt, FromIdt, FromApic,
      FromStack, FromSti
  <2> QED
    BY <1>1, <1>3, <2>1, <2>3, <2>4, <2>5, <2>6, ApLoadInv, Zenon
<1>9. CASE switch_to(c)
  <2> DEFINE loaded == [cpu[c] EXCEPT !.pc = "sti", !.stack = cpu_slot(c)]
  <2>1. cpu[c].pc = "stack" /\ AP_READY' = AP_READY
    BY <1>9, Zenon DEF switch_to, Ap, counters
  <2>2. Published
    BY <1>4, <2>1, Zenon DEF FromEntry, FromCr3, FromGdt, FromIdt, FromApic
  <2>3. tops[cpu_slot(c)] = cpu_slot(c) /\ cpu_slot(c) # 0
    BY <1>2, <2>2, SmpAssumption DEF Published
  <2>4. Load(c, loaded)
    BY <1>9, <2>3, Zenon DEF switch_to, Ap
  <2>5. loaded \in CpuState
    BY <1>2, Zenon DEF CpuState, FromEntry, FromCr3, FromGdt, FromIdt, FromApic, FromStack
  <2>6. /\ loaded.pc = "sti" /\ loaded.cr3 = cpu[c].cr3 /\ loaded.gdt = cpu[c].gdt
        /\ loaded.idt = cpu[c].idt /\ loaded.apic = cpu[c].apic
        /\ loaded.stack = cpu_slot(c) /\ loaded.sti = cpu[c].sti
    BY <1>2, Zenon DEF CpuState
  <2> HIDE DEF loaded
  <2>7. ApHas(c, loaded)
    BY <1>3, <2>1, <2>2, <2>6, Zenon DEF ApHas, FromEntry, FromCr3, FromGdt, FromIdt, FromApic,
      FromStack, FromSti
  <2> QED
    BY <1>1, <2>1, <2>4, <2>5, <2>6, <2>7, ApLoadInv, Zenon
<1>10. CASE sti(c)
  <2> DEFINE loaded == [cpu[c] EXCEPT !.pc = "ready", !.sti = TRUE]
  <2>1. cpu[c].pc = "sti" /\ AP_READY' = AP_READY /\ Load(c, loaded)
    BY <1>10, Zenon DEF sti, Ap, counters
  <2>2. Published
    BY <1>4, <2>1, Zenon DEF FromEntry, FromCr3, FromGdt, FromIdt, FromApic, FromStack
  <2>3. loaded \in CpuState
    BY <1>2, Zenon DEF CpuState, FromEntry, FromCr3, FromGdt, FromIdt, FromApic, FromStack, FromSti
  <2>4. /\ loaded.pc = "ready" /\ loaded.cr3 = cpu[c].cr3 /\ loaded.gdt = cpu[c].gdt
        /\ loaded.idt = cpu[c].idt /\ loaded.apic = cpu[c].apic
        /\ loaded.stack = cpu[c].stack /\ loaded.sti
    BY <1>2, Zenon DEF CpuState
  <2> HIDE DEF loaded
  <2>5. ApHas(c, loaded)
    BY <1>3, <2>1, <2>2, <2>4, Zenon DEF ApHas, FromEntry, FromCr3, FromGdt, FromIdt, FromApic,
      FromStack, FromSti
  <2> QED
    BY <1>1, <1>3, <2>1, <2>3, <2>4, <2>5, ApLoadInv, Zenon
<1>11. CASE Ready(c)
  <2> DEFINE loaded == [cpu[c] EXCEPT !.pc = "hlt"]
  <2>1. cpu[c].pc = "ready" /\ AP_READY' = AP_READY + 1 /\ Load(c, loaded)
    BY <1>11, Zenon DEF Ready, Ap
  <2>2. loaded \in CpuState
    BY <1>2, Zenon DEF CpuState, FromEntry, FromCr3, FromGdt, FromIdt, FromApic, FromStack, FromSti
  <2>3. /\ loaded.pc = "hlt" /\ loaded.cr3 = cpu[c].cr3 /\ loaded.gdt = cpu[c].gdt
        /\ loaded.idt = cpu[c].idt /\ loaded.apic = cpu[c].apic
        /\ loaded.stack = cpu[c].stack /\ loaded.sti = cpu[c].sti
    BY <1>2, Zenon DEF CpuState
  <2> HIDE DEF loaded
  <2>4. ApHas(c, loaded)
    BY <1>3, <2>1, <2>3, Zenon DEF ApHas, FromEntry, FromCr3, FromGdt, FromIdt, FromApic,
      FromStack, FromSti
  <2> QED
    BY <1>1, <1>3, <2>1, <2>2, <2>3, <2>4, ApLoadInv, Zenon
<1> QED
  BY <1>5, <1>6, <1>7, <1>8, <1>9, <1>10, <1>11, Zenon DEF ApStep
\* A processor is started once everything is published.
LEMMA StartInv ==
  ASSUME BringUp, NEW c \in Cpus, Start(c)
  PROVE  BringUp'
<1> DEFINE loaded == [cpu[c] EXCEPT !.pc = "entry"]
<1>1. /\ c \in Aps /\ cpu[c].pc = "parked" /\ Load(c, loaded) /\ boot = "start"
      /\ UNCHANGED machine
      /\ UNCHANGED <<boot, tables, pending, AP_READY, IPI_PONG, TIMER_TICKS, pongs>>
  BY Zenon DEF Start, Unstarted, counters
<1>2. cpu[c] \in CpuState
  BY Zenon DEF BringUp, BringUpType
<1>3. ApHas(c, cpu[c]) /\ cpu[c].stack \in {0, cpu_slot(c)}
  BY <1>1, Zenon DEF BringUp, ApLoads, OwnStacks
<1>4. Published
  BY <1>1, Zenon DEF BringUp, BspLoads, FromStacks
<1>5. loaded \in CpuState
  BY <1>2, Zenon DEF CpuState, FromEntry
<1>6. loaded.pc = "entry" /\ loaded.stack = cpu[c].stack /\ loaded.sti = cpu[c].sti
  BY <1>2, Zenon DEF CpuState
<1> HIDE DEF loaded
<1>7. ApHas(c, loaded)
  BY <1>1, <1>3, <1>4, <1>6, Zenon DEF ApHas, FromCr3, FromGdt, FromIdt, FromApic, FromStack, FromSti
<1> QED
  BY <1>1, <1>3, <1>5, <1>6, <1>7, ApLoadInv, Zenon

\* The counters the boot processor waits for tell it what it needs to know.
LEMMA WaitInv ==
  ASSUME BringUp, ApsReady \/ SelfPong
  PROVE  BringUp'
<1>1. mp \in MpLists /\ IPI_PONG \in Nat
  BY Zenon DEF BringUp, BringUpType
<1>2. UNCHANGED <<machine, cpu, tables, counters, pending>>
  BY Zenon DEF ApsReady, SelfPong
<1>3. CASE ApsReady
  <2>1. Cardinality(Reported) = expected_aps /\ boot = "spin" /\ boot' = "timer"
    BY <1>3, Zenon DEF ApsReady, Boot, BringUp, Counted
  <2>2. Reported \in SUBSET Aps
    BY Zenon DEF Reported
  <2>3. Reported = Aps
    BY <1>1, <2>1, <2>2, Counting, FS_Subset, Zenon
  <2> QED
    BY <1>2, <2>1, <2>3, QuietInv, Zenon
<1>4. CASE SelfPong
  <2>1. boot = "self_wait" /\ boot' = "ticks" /\ IPI_PONG >= 1
    BY <1>4, Zenon DEF SelfPong, Boot
  <2>2. Bsp \in Answered
    <3>1. IPI_PONG = Cardinality(Answered) /\ \A c \in Aps : c \notin Answered
      BY <2>1, Zenon DEF BringUp, Counted, FromIpis, FromPong
    <3>2. Answered # {}
      BY <1>1, <2>1, <3>1, FS_EmptySet
    <3> QED
      BY <3>1, <3>2, Zenon DEF Answered, Aps
  <2> QED
    BY <1>2, <2>1, <2>2, QuietInv, Zenon
<1> QED
  BY <1>3, <1>4, Zenon

\* Every step of the machine keeps the invariant.
LEMMA StepBringUp == BringUp /\ [Next]_vars => BringUp'
<1> SUFFICES ASSUME BringUp, [Next]_vars PROVE BringUp'
  BY Zenon
<1>1. CASE Spin \/ UNCHANGED vars
  BY <1>1, QuietInv, Zenon DEF Spin, vars
<1>2. CASE Printed \/ \E c \in Cpus : Exception(c) \/ Report(c)
  <2>1. UNCHANGED <<machine, cpu, tables, counters, pending>> /\ boot' \in {boot, "failed"}
    BY <1>2, Zenon DEF Printed, Exception, Report
  <2> QED
    BY <2>1, QuietInv, Zenon
<1>3. CASE Refuses \/ Timeout
  <2>1. UNCHANGED <<machine, cpu, tables, counters, pending>> /\ boot' = "failed"
    BY <1>3, Zenon DEF Refuses, Timeout, Boot
  <2> QED
    BY <2>1, QuietInv, Zenon
<1>4. CASE Prepare
  <2>1. /\ UNCHANGED <<machine, cpu, tables, counters, pending>>
        /\ boot \in {"firmware", "pages", "tables"} /\ boot' \in {"pages", "tables", "count"}
    BY <1>4, Zenon DEF Prepare, Boot
  <2> QED
    BY <2>1, QuietInv, Zenon
<1>5. CASE Started \/ Ticked \/ BootOk
  <2>1. /\ UNCHANGED <<machine, cpu, tables, counters, pending>>
        /\ \/ boot = "start" /\ boot' = "spin"
           \/ boot = "ticks" /\ boot' = "ipi"
           \/ boot = "demo" /\ boot' = "ok"
    BY <1>5, Zenon DEF Started, Ticked, BootOk, Boot
  <2> QED
    BY <2>1, QuietInv, Zenon
<1>6. CASE SelfIpi \/ IpiAll
  <2>1. /\ UNCHANGED <<machine, cpu, tables, counters>>
        /\ \/ boot = "self" /\ boot' = "self_wait" /\ Send({Bsp})
           \/ boot = "ipi" /\ boot' = "pong_wait" /\ Send(Aps)
    BY <1>6, Zenon DEF SelfIpi, IpiAll, Boot
  <2> QED
    BY <2>1, SendInv, Zenon
<1>7. CASE Tables \/ Activate \/ Stacks \/ StartTimer \/ Ponged
  BY <1>7, BspInv, Zenon
<1>8. CASE ApsReady \/ SelfPong
  BY <1>8, WaitInv, Zenon
<1>9. CASE Tick \/ \E c \in Cpus : Start(c) \/ ApStep(c) \/ Interrupt(c)
  BY <1>9, TickInv, StartInv, ApInv, DispatchInv, Zenon DEF Interrupt
<1> QED
  BY <1>1, <1>2, <1>3, <1>4, <1>5, <1>6, <1>7, <1>8, <1>9, Zenon DEF Next, BspStep

\* What makes bring-up work holds in every state: kmain loads and publishes
\* before it starts anybody, ap_entry enables interrupts last, and AP_READY
\* and IPI_PONG count processors.
THEOREM BringUpInvariant == Spec => []BringUp
BY InitBringUp, StepBringUp, PTL DEF Spec

\* A processor that has executed sti has its tables, and a stack nobody else
\* is on, whatever the number of processors (ap_entry, kmain_on_kstack).
THEOREM AlwaysReadyForInterrupts == Spec => []ReadyForInterrupts
<1>1. ASSUME BringUp PROVE ReadyForInterrupts
  <2> SUFFICES ASSUME NEW c \in Cpus, cpu[c].sti
               PROVE  /\ cpu[c].idt /\ cpu[c].apic
                      /\ cpu[c].cr3 = cr3 /\ cr3 # 0
                      /\ cpu[c].gdt = cpu_slot(c)
                      /\ cpu[c].stack = tops[cpu_slot(c)] /\ cpu[c].stack # 0
                      /\ \A d \in Cpus \ {c} : cpu[d].stack # cpu[c].stack
    BY Zenon DEF ReadyForInterrupts
  <2>1. /\ mp \in MpLists /\ BspLoads /\ ApLoads
        /\ \A d \in Cpus : cpu[d].stack \in {0, cpu_slot(d)}
    BY <1>1, Zenon DEF BringUp, BringUpType, OwnStacks
  <2>2. /\ cpu_count \in Nat /\ cpu_slot(c) \in 1 .. cpu_count
        /\ \A d \in Cpus : cpu_slot(d) = cpu_slot(c) => d = c
    BY <2>1, Slots, Zenon
  <2>3. Published /\ Loaded(c) /\ cpu[c].cr3 = 1 /\ cpu[c].stack = cpu_slot(c)
    <3>1. CASE c = Bsp
      BY <2>1, <3>1, Zenon DEF BspLoads
    <3>2. CASE c \in Aps
      <4>1. ApHas(c, cpu[c]) /\ cpu[c].pc \in FromSti
        BY <2>1, <3>2, Zenon DEF ApLoads, ApHas
      <4> QED
        BY <4>1, Zenon DEF ApHas, Loaded, FromEntry, FromCr3, FromGdt, FromIdt, FromApic, FromStack
    <3> QED
      BY <3>1, <3>2, Zenon DEF Aps
  <2>4. tops[cpu_slot(c)] = cpu_slot(c)
    BY <2>2, <2>3, SmpAssumption, SMTT(30) DEF Published
  <2>5. \A d \in Cpus \ {c} : cpu[d].stack # cpu[c].stack
    BY <2>1, <2>2, <2>3, SMTT(30)
  <2> QED
    BY <2>2, <2>3, <2>4, <2>5, SMTT(30) DEF Loaded, Published
<1> QED
  BY <1>1, BringUpInvariant, PTL

\* None of the conditions on which ap_entry stops a processor is ever met.
THEOREM NobodyEverHangs == Spec => []NobodyHangs
<1>1. BringUp => NobodyHangs
  BY Zenon DEF BringUp, BringUpType, CpuState, NobodyHangs, FromEntry, FromCr3, FromGdt, FromIdt,
    FromApic, FromStack, FromSti
<1> QED
  BY <1>1, BringUpInvariant, PTL

\* When the demo begins, every processor has reported and has answered one
\* IPI: IPI_PONG cannot be reached by one processor answering twice.
THEOREM DemoAfterAllAnswered == Spec => []DemoMeansAllAnswered
<1>1. BringUp => DemoMeansAllAnswered
  <2> SUFFICES ASSUME BringUp, boot \in {"demo", "ok"}
               PROVE  /\ \A c \in Aps : cpu[c].pc = "hlt"
                      /\ \A c \in Cpus : pongs[c] = 1
    BY Zenon DEF DemoMeansAllAnswered
  <2>1. Reported = Aps /\ Answered = Cpus
    BY Zenon DEF BringUp, Counted, FromReady, FromSelfIpi, FromSelfPong, FromIpis, FromPong
  <2> QED
    BY <2>1, Zenon DEF Reported, Answered
<1> QED
  BY <1>1, BringUpInvariant, PTL
\* While run_demo runs, no handler counts anything: every IPI has been
\* answered, only the boot processor has a timer, and it has executed cli.
THEOREM DemoIsUndisturbed == Spec => DemoUndisturbed
<1>1. BringUp /\ [Next]_vars => [boot = "demo" => UNCHANGED counters]_vars
  <2> SUFFICES ASSUME BringUp, Next, boot = "demo" PROVE UNCHANGED counters
    BY Zenon DEF vars
  <2>1. /\ Reported = Aps /\ Answered = Cpus /\ ~cpu[Bsp].sti
        /\ \A c \in Cpus : "ipi" \in pending[c] => c \notin Answered
        /\ \A c \in Aps : "timer" \notin pending[c]
    BY Zenon DEF BringUp, Counted, FromReady, FromSelfIpi, FromSelfPong, FromIpis, FromPong
  <2>2. CASE BspStep
    <3>1. CASE Printed \/ Refuses \/ Prepare \/ Tables \/ Activate \/ Stacks \/ StartTimer
      BY <3>1, Zenon DEF Printed, Refuses, Prepare, Tables, Activate, Stacks, StartTimer
    <3>2. CASE Started \/ ApsReady \/ SelfIpi \/ SelfPong \/ Ticked \/ IpiAll \/ Ponged
                 \/ BootOk \/ Timeout
      BY <3>2, Zenon DEF Started, ApsReady, SelfIpi, SelfPong, Ticked, IpiAll, Ponged, BootOk,
        Timeout
    <3>3. CASE \E c \in Cpus : Start(c)
      BY <3>3, Zenon DEF Start
    <3> QED
      BY <2>2, <3>1, <3>2, <3>3, Zenon DEF BspStep
  <2>3. CASE Tick \/ Spin \/ \E c \in Cpus : Exception(c) \/ Report(c)
    BY <2>3, Zenon DEF Tick, Spin, Exception, Report, vars
  <2>4. ASSUME NEW c \in Cpus, ApStep(c) PROVE FALSE
    <3>1. c \in Aps /\ cpu[c].pc # "hlt"
      BY <2>4, Zenon DEF ApStep, load_published, gdt_load, idt_load, enable_x2apic, switch_to, sti,
        Ready, Ap, Up
    <3> QED
      BY <2>1, <3>1, Zenon DEF Reported
  <2>5. ASSUME NEW c \in Cpus, Interrupt(c) PROVE FALSE
    <3>1. PICK vector \in {"ipi", "timer"} : vector \in pending[c] /\ cpu[c].sti
      BY <2>5, Zenon DEF Interrupt, isr_dispatch
    <3> QED
      BY <2>1, <3>1, Zenon DEF Aps
  <2> QED
    BY <2>2, <2>3, <2>4, <2>5, Zenon DEF Next
<1> QED
  BY <1>1, BringUpInvariant, PTL DEF Spec, DemoUndisturbed
=============================================================================
