---------------------------- MODULE DeviceProofs ----------------------------
(***************************************************************************)
(* Proofs about the PLIC, the UART and the machine made of them, for every *)
(* number of sources, ring size, shift time, set of bytes and amount of    *)
(* traffic: the devices keep their registers in range, the scan of         *)
(* plic_best_source finds the best source, the handshake loses no source,  *)
(* the interrupt line stays coherent, the receive ring is a FIFO, and a    *)
(* handler that is entered finds the cause it was entered for.             *)
(***************************************************************************)
EXTENDS Machine, TLAPS, SequenceTheorems, WellFoundedInduction

\* A fact about %: the remainder by a positive number is a valid index.
LEMMA ModRange ==
    ASSUME NEW a \in Nat, NEW b \in Nat \ {0}
    PROVE  a % b \in 0 .. b - 1
  OBVIOUS

\* The remainder of a number below twice the divisor: one wrap at most.
LEMMA ModWindow ==
    ASSUME NEW a \in Nat, NEW b \in Nat \ {0}, a < 2 * b
    PROVE  a % b = IF a < b THEN a ELSE a - b
  OBVIOUS

\* The least-number principle, from which the induction over a scan follows.
LEMMA LeastNat ==
    ASSUME NEW T \in SUBSET Nat, T # {}
    PROVE  \E m \in T : \A n \in T : m <= n
  <1>1. PICK m \in T : \A n \in T : ~(<<n, m>> \in OpToRel(<, Nat))
    BY NatLessThanWellFounded, WFMin
  <1>2. \A n \in T : n \in Nat /\ m \in Nat
    OBVIOUS
  <1>3. \A n \in T : ~(n < m)
    BY <1>1, <1>2 DEF OpToRel
  <1> QED
    BY <1>2, <1>3

-----------------------------------------------------------------------------
\* The controller.

\* One iteration of the scan of plic_best_source over source id.
ScanStep(ctx, f, id) ==
    IF id = 0 THEN [best |-> 0, pri |-> 0]
    ELSE LET sofar == f[id - 1]
         IN  IF id \in Deliverable(ctx) /\ priority[id] >= sofar.pri
             THEN [best |-> id, pri |-> priority[id]]
             ELSE sofar

\* f records the scan of sources 1 .. n.
IsScan(ctx, f, n) == f = [id \in 0 .. n |-> ScanStep(ctx, f, id)]

\* The scan's recursive definition has a solution for every number of sources.
LEMMA ScanExists ==
    ASSUME NEW ctx
    PROVE  \A n \in Nat : \E f : IsScan(ctx, f, n)
  <1> DEFINE T == {n \in Nat : ~ \E f : IsScan(ctx, f, n)}
  <1>1. SUFFICES ASSUME T # {} PROVE FALSE
    OBVIOUS
  <1>2. PICK n \in T : \A k \in T : n <= k
    BY <1>1, LeastNat
  <1>3. ~ \E f : IsScan(ctx, f, n)
    OBVIOUS
  <1>4. CASE n = 0
    <2> DEFINE g == [id \in 0 .. 0 |-> [best |-> 0, pri |-> 0]]
    <2>1. g = [id \in 0 .. 0 |-> ScanStep(ctx, g, id)]
      BY DEF ScanStep
    <2> QED
      BY <2>1, <1>3, <1>4 DEF IsScan
  <1>5. CASE n # 0
    <2>1. n - 1 \in Nat /\ ~(n <= n - 1)
      BY <1>5
    <2>2. PICK f : IsScan(ctx, f, n - 1)
      BY <1>2, <2>1
    <2> DEFINE g == [id \in 0 .. n |-> ScanStep(ctx, f, id)]
    <2>3. \A id \in 0 .. n - 1 : g[id] = f[id]
      BY <2>2, <2>1 DEF IsScan
    <2>4. ASSUME NEW id \in 0 .. n
          PROVE  ScanStep(ctx, g, id) = ScanStep(ctx, f, id)
      <3>1. id # 0 => id - 1 \in 0 .. n - 1
        BY <2>1
      <3>2. id # 0 => g[id - 1] = f[id - 1]
        BY <3>1, <2>3
      <3> HIDE DEF g
      <3> QED
        BY <3>2 DEF ScanStep
    <2>5. IsScan(ctx, g, n)
      BY <2>4 DEF IsScan
    <2> QED
      BY <2>5, <1>3
  <1> QED
    BY <1>4, <1>5

\* What the loop has found after source n: nothing if nothing was deliverable,
\* else a deliverable source, with its priority, that none so far outranks.
ScanInv(ctx, s, n) ==
    IF Deliverable(ctx) \intersect (1 .. n) = {}
    THEN s = [best |-> 0, pri |-> 0]
    ELSE /\ s.best \in Deliverable(ctx) \intersect (1 .. n)
         /\ s.pri = priority[s.best]
         /\ \A o \in Deliverable(ctx) \intersect (1 .. n) :
                \/ priority[o] < priority[s.best]
                \/ priority[o] = priority[s.best] /\ o <= s.best

\* The loop invariant of the scan.
LEMMA ScanInvariant ==
    ASSUME PlicTypeOK, NEW ctx \in Contexts, NEW f, IsScan(ctx, f, NDev)
    PROVE  \A n \in 0 .. NDev : ScanInv(ctx, f[n], n)
  <1> USE PlicAssumption
  <1> DEFINE T == {n \in 0 .. NDev : ~ ScanInv(ctx, f[n], n)}
  <1>1. SUFFICES ASSUME T # {} PROVE FALSE
    OBVIOUS
  <1>2. PICK n \in T : \A k \in T : n <= k
    <2>1. T \in SUBSET Nat
      OBVIOUS
    <2> QED
      BY <1>1, <2>1, LeastNat
  <1>3. n \in 0 .. NDev /\ ~ ScanInv(ctx, f[n], n)
    OBVIOUS
  <1>d. Deliverable(ctx) \subseteq 1 .. NDev
    BY DEF Deliverable, PlicTypeOK, Sources
  <1>p. \A id \in 1 .. NDev : priority[id] \in Nat
    BY DEF PlicTypeOK, Sources
  <1>f. \A id \in 0 .. NDev : f[id] = ScanStep(ctx, f, id)
    BY DEF IsScan
  <1>4. CASE n = 0
    <2>1. f[n] = [best |-> 0, pri |-> 0]
      BY <1>f, <1>3, <1>4 DEF ScanStep
    <2>2. 1 .. 0 = {}
      OBVIOUS
    <2> QED
      BY <1>3, <1>4, <2>1, <2>2 DEF ScanInv
  <1>5. CASE n # 0
    <2>1. n - 1 \in 0 .. NDev /\ n \in 1 .. NDev /\ ~(n <= n - 1)
      BY <1>5, <1>3
    <2>2. ScanInv(ctx, f[n - 1], n - 1)
      BY <1>2, <2>1
    <2>3. f[n] = IF n \in Deliverable(ctx) /\ priority[n] >= f[n - 1].pri
                 THEN [best |-> n, pri |-> priority[n]]
                 ELSE f[n - 1]
      BY <1>f, <1>3, <1>5 DEF ScanStep
    <2>4. 1 .. n = (1 .. n - 1) \union {n}
      BY <2>1
    <2>5. CASE n \in Deliverable(ctx) /\ priority[n] >= f[n - 1].pri
      <3>1. f[n].best = n /\ f[n].pri = priority[n]
        BY <2>3, <2>5
      <3>2. \A o \in Deliverable(ctx) \intersect (1 .. n - 1) :
                priority[o] <= priority[n] /\ o <= n
        BY <2>2, <2>5, <2>1, <1>p, <1>d DEF ScanInv
      <3> QED
        BY <3>1, <3>2, <2>4, <2>5, <2>1, <1>p, <1>d, <1>3 DEF ScanInv
    <2>6. CASE n \in Deliverable(ctx) /\ ~(priority[n] >= f[n - 1].pri)
      <3>1. f[n] = f[n - 1]
        BY <2>3, <2>6
      <3>2. Deliverable(ctx) \intersect (1 .. n - 1) # {}
        BY <2>2, <2>6, <2>1, <1>p DEF ScanInv
      <3>3. f[n - 1].best \in 1 .. NDev
        BY <2>2, <3>2, <1>d DEF ScanInv
      <3> QED
        BY <3>1, <3>2, <3>3, <2>2, <2>4, <2>6, <2>1, <1>p, <1>d, <1>3 DEF ScanInv
    <2>7. CASE n \notin Deliverable(ctx)
      <3>1. f[n] = f[n - 1]
        BY <2>3, <2>7
      <3>2. Deliverable(ctx) \intersect (1 .. n)
                = Deliverable(ctx) \intersect (1 .. n - 1)
        BY <2>4, <2>7
      <3> QED
        BY <3>1, <3>2, <2>2, <1>3 DEF ScanInv
    <2> QED
      BY <2>5, <2>6, <2>7
  <1> QED
    BY <1>4, <1>5

\* plic_best_source is the end of a scan.
LEMMA BestOfScan ==
    ASSUME NEW ctx
    PROVE  \E f : IsScan(ctx, f, NDev) /\ plic_best_source(ctx) = f[NDev].best
  <1>1. \E f : IsScan(ctx, f, NDev)
    BY ScanExists, PlicAssumption
  <1> QED
    BY <1>1 DEF plic_best_source, IsScan, ScanStep

\* The end of the scan is the claim register's promise.
LEMMA BestMaximal ==
    ASSUME PlicTypeOK PROVE BestSourceIsMaximal
  <1> SUFFICES ASSUME NEW ctx \in Contexts
               PROVE  LET best == plic_best_source(ctx)
        IN  IF Deliverable(ctx) = {} THEN best = 0
            ELSE /\ best \in Deliverable(ctx)
                 /\ \A o \in Deliverable(ctx) :
                        \/ priority[o] < priority[best]
                        \/ priority[o] = priority[best] /\ o <= best
    BY DEF BestSourceIsMaximal
  <1>1. PICK f : IsScan(ctx, f, NDev) /\ plic_best_source(ctx) = f[NDev].best
    BY BestOfScan
  <1>2. ScanInv(ctx, f[NDev], NDev)
    BY <1>1, ScanInvariant, PlicAssumption
  <1>3. Deliverable(ctx) \intersect (1 .. NDev) = Deliverable(ctx)
    BY DEF Deliverable, PlicTypeOK, Sources
  <1> QED
    BY <1>1, <1>2, <1>3 DEF ScanInv

\* Guest accesses to the PLIC keep its registers in range and leave the device
\* lines alone.
LEMMA GuestPlicTyped ==
    ASSUME PlicTypeOK, GuestPlic
    PROVE  PlicTypeOK' /\ pending' = pending
  <1> USE PlicAssumption DEF PlicTypeOK, Contexts
  <1>1. ASSUME NEW id \in Sources, NEW val \in RegVals, WritePriority(id, val)
        PROVE  PlicTypeOK' /\ pending' = pending
    <2>1. val % (PriorityMask + 1) \in 0 .. PriorityMask
      BY <1>1, ModRange
    <2> QED
      BY <1>1, <2>1 DEF WritePriority
  <1>2. ASSUME NEW ctx \in Contexts, NEW val \in SUBSET Sources,
               WriteEnable(ctx, val)
        PROVE  PlicTypeOK' /\ pending' = pending
    BY <1>2 DEF WriteEnable
  <1>3. ASSUME NEW ctx \in Contexts, NEW val \in RegVals,
               WriteThreshold(ctx, val)
        PROVE  PlicTypeOK' /\ pending' = pending
    <2>1. val % (PriorityMask + 1) \in 0 .. PriorityMask
      BY <1>3, ModRange
    <2> QED
      BY <1>3, <2>1 DEF WriteThreshold
  <1>4. ASSUME NEW ctx \in Contexts, Claim(ctx)
        PROVE  PlicTypeOK' /\ pending' = pending
    BY <1>4 DEF Claim
  <1>5. ASSUME NEW ctx \in Contexts, NEW val \in CompleteVals,
               Complete(ctx, val)
        PROVE  PlicTypeOK' /\ pending' = pending
    BY <1>5 DEF Complete
  <1> QED
    BY <1>1, <1>2, <1>3, <1>4, <1>5 DEF GuestPlic

\* No access of the guest and no device line takes a register out of range.
LEMMA PlicStep == PlicTypeOK /\ [PlicNext]_plicVars => PlicTypeOK'
  <1> SUFFICES ASSUME PlicTypeOK, [PlicNext]_plicVars
               PROVE  PlicTypeOK'
    OBVIOUS
  <1>1. CASE GuestPlic
    BY <1>1, GuestPlicTyped
  <1>2. CASE DeviceLine
    BY <1>2 DEF DeviceLine, plic_set_irq, PlicTypeOK
  <1>3. CASE UNCHANGED plicVars
    BY <1>3 DEF plicVars, PlicTypeOK
  <1> QED
    BY <1>1, <1>2, <1>3 DEF PlicNext

\* plic_init leaves every register in range.
LEMMA PlicInit == plic_init => PlicTypeOK
  BY PlicAssumption DEF plic_init, PlicTypeOK

\* Every access keeps the controller's registers within their widths.
THEOREM PlicTyped == PlicSpec => []PlicTypeOK
  BY PlicInit, PlicStep, PTL DEF PlicSpec

\* The claim register names, in every reachable state, a deliverable source
\* that no other outranks, the highest number winning a tie.
THEOREM PlicBestSource == PlicSpec => []BestSourceIsMaximal
  <1>1. PlicTypeOK => BestSourceIsMaximal
    BY BestMaximal
  <1> QED
    BY <1>1, PlicTyped, PTL

\* A source that a context stops being offered, its line and registers
\* unchanged, has just been claimed by that context.
LEMMA ClaimHides ==
    ASSUME PlicTypeOK, [PlicNext]_plicVars,
           NEW ctx \in Contexts, NEW id \in Sources,
           id \in Deliverable(ctx), id \notin Deliverable(ctx)',
           id \in pending', UNCHANGED <<priority, enable, threshold>>
    PROVE  /\ id = plic_best_source(ctx)
           /\ claimed' = [claimed EXCEPT ![ctx] = @ \union {id}]
  <1>1. id \notin claimed[ctx] /\ id \in claimed'[ctx]
    BY DEF Deliverable
  <1>2. ASSUME NEW c \in Contexts, Claim(c)
        PROVE  /\ id = plic_best_source(ctx)
               /\ claimed' = [claimed EXCEPT ![ctx] = @ \union {id}]
    <2>1. plic_best_source(c) \in Sources
      BY <1>1, <1>2 DEF Claim
    <2>2. claimed' = [claimed EXCEPT ![c] = @ \union {plic_best_source(c)}]
      BY <1>2, <2>1 DEF Claim
    <2>3. c = ctx /\ id = plic_best_source(c)
      BY <1>1, <2>2 DEF PlicTypeOK
    <2> QED
      BY <2>2, <2>3
  <1>3. ASSUME NEW c \in Contexts, NEW val \in CompleteVals, Complete(c, val)
        PROVE  FALSE
    BY <1>1, <1>3 DEF Complete, PlicTypeOK
  <1>4. CASE claimed' = claimed
    BY <1>1, <1>4
  <1> QED
    BY <1>2, <1>3, <1>4 DEF PlicNext, GuestPlic, WritePriority, WriteEnable,
                            WriteThreshold, DeviceLine, plicVars

\* A claim hides a source from the claiming context only, and only the source
\* the claim register returned: the other context keeps being offered it.
THEOREM PlicClaimHides == PlicSpec => ClaimHidesOnlyFromItsContext
  <1>1. PlicTypeOK /\ [PlicNext]_plicVars =>
           [\A ctx \in Contexts, id \in Sources :
               (/\ id \in Deliverable(ctx)
                /\ id \notin Deliverable(ctx)'
                /\ id \in pending'
                /\ UNCHANGED <<priority, enable, threshold>>)
               => /\ id = plic_best_source(ctx)
                  /\ claimed' = [claimed EXCEPT ![ctx] = @ \union {id}]]_plicVars
    BY ClaimHides
  <1> QED
    BY <1>1, PlicTyped, PTL DEF PlicSpec, ClaimHidesOnlyFromItsContext

\* A completion that releases a source names that context and that source.
LEMMA CompleteNames ==
    ASSUME PlicTypeOK, NEW ctx \in Contexts, NEW id \in Sources,
           id \in claimed[ctx], id \notin claimed'[ctx],
           NEW c \in Contexts, NEW val \in CompleteVals, Complete(c, val)
    PROVE  c = ctx /\ val % 32 = id
  <1> DEFINE vid == val % 32
  <1> HIDE DEF vid
  <1>1. vid \in Sources /\ claimed' = [claimed EXCEPT ![c] = @ \ {vid}]
    BY DEF Complete, vid
  <1>2. c = ctx /\ id = vid
    BY <1>1 DEF PlicTypeOK
  <1> QED
    BY <1>2 DEF vid

\* A source a context gets back was completed by that context.
LEMMA CompleteReoffers ==
    ASSUME PlicTypeOK, [PlicNext]_plicVars,
           NEW ctx \in Contexts, NEW id \in Sources,
           id \in claimed[ctx], id \notin claimed'[ctx]
    PROVE  \E val \in CompleteVals : Complete(ctx, val)
  <1>2. ASSUME NEW c \in Contexts, Claim(c)
        PROVE  FALSE
    BY <1>2 DEF Claim, PlicTypeOK
  <1>3. ASSUME NEW c \in Contexts, NEW val \in CompleteVals, Complete(c, val)
        PROVE  \E v \in CompleteVals : Complete(ctx, v)
    BY <1>3, CompleteNames
  <1>4. CASE claimed' = claimed
    BY <1>4
  <1> QED
    BY <1>2, <1>3, <1>4 DEF PlicNext, GuestPlic, WritePriority, WriteEnable,
                            WriteThreshold, DeviceLine, plicVars

\* A context is offered a source it is servicing again only by its own
\* completion of that source: no other write of a complete register does it.
THEOREM PlicServiced == PlicSpec => ServicedUntilOwnComplete
  <1>1. PlicTypeOK /\ [PlicNext]_plicVars =>
       [\A ctx \in Contexts, id \in Sources :
          (id \in claimed[ctx] /\ id \notin claimed'[ctx])
          => /\ \E val \in CompleteVals : Complete(ctx, val)
             /\ \A c \in Contexts, val \in CompleteVals :
                    Complete(c, val) => c = ctx /\ val % 32 = id]_plicVars
    BY CompleteReoffers, CompleteNames
  <1> QED
    BY <1>1, PlicTyped, PTL DEF PlicSpec, ServicedUntilOwnComplete
-----------------------------------------------------------------------------
\* The UART's line and countdown.

\* What uart_update_irq does, seen from its callers: whatever the line was, it
\* is coherent with the registers the handler leaves behind.
LEMMA UpdateIrq ==
    ASSUME TypeOK, LineCoherent, uart_update_irq
    PROVE  /\ irq_level' \in {0, 1}
           /\ pending' \in SUBSET Sources
           /\ LineCoherent'
  <1> USE UartAssumption, PlicAssumption
          DEF IIR_NOPEND, IIR_THRE, IIR_RXDATA, Sources
  <1>1. irq_level' = 1 <=> uart_read_iir' # IIR_NOPEND
    BY DEF TypeOK, UartTypeOK, uart_update_irq, uart_read_iir, LineCoherent
  <1>2. irq_level' \in {0, 1}
    BY DEF TypeOK, UartTypeOK, uart_update_irq
  <1>3. UartIrq \in pending' <=> irq_level' = 1
    BY <1>2 DEF TypeOK, UartTypeOK, PlicTypeOK, uart_update_irq, plic_set_irq,
                LineCoherent
  <1>4. pending' \in SUBSET Sources
    BY DEF TypeOK, PlicTypeOK, uart_update_irq, plic_set_irq
  <1> QED
    BY <1>1, <1>2, <1>3, <1>4 DEF LineCoherent

\* The inductive invariant: types, the coherent line and the countdown.  The
\* line needs the types (irq_level is 0 or 1); the type of thr_ticks after a
\* tick needs the countdown, or the decrement could start from 0.
IInv == TypeOK /\ LineCoherent /\ TxCountdown

\* The reset state satisfies the inductive invariant.
LEMMA InitIInv == Init => IInv
  BY UartAssumption, PlicAssumption
     DEF Init, plic_init, uart_init, IInv, TypeOK, PlicTypeOK, UartTypeOK,
         LineCoherent, TxCountdown, uart_read_iir, IIR_NOPEND, IIR_THRE,
         IIR_RXDATA, Sources, IerBits

\* Every handler keeps the inductive invariant.
LEMMA NextIInv == IInv /\ [Next]_vars => IInv'
  <1> SUFFICES ASSUME IInv, [Next]_vars
               PROVE  IInv'
    OBVIOUS
  <1> USE UartAssumption, PlicAssumption
      DEF IInv, TypeOK, IerBits, rxVars, regVars, txVars, plicRegs, plicVars
  <1>1. ASSUME NEW c \in Byte, uart_receive(c)
        PROVE  IInv'
    <2>1. (rx_head + rx_count) % RxFifoSize \in 0 .. RxFifoSize - 1
      BY ModRange DEF UartTypeOK
    <2>2. irq_level' \in {0, 1} /\ pending' \in SUBSET Sources /\ LineCoherent'
      BY <1>1, UpdateIrq DEF uart_receive
    <2>3. PlicTypeOK'
      BY <1>1, <2>2 DEF uart_receive, PlicTypeOK
    <2>4. UartTypeOK' /\ TxCountdown'
      BY <1>1, <2>1, <2>2 DEF uart_receive, UartTypeOK, TxCountdown
    <2> QED
      BY <2>2, <2>3, <2>4
  <1>2. CASE ReadRbr
    <2>1. CASE dlab = 1 \/ rx_count = 0
      BY <1>2, <2>1 DEF ReadRbr, PlicTypeOK, UartTypeOK, LineCoherent,
                        TxCountdown, uart_read_iir
    <2>2. CASE ~(dlab = 1 \/ rx_count = 0)
      <3>1. (rx_head + 1) % RxFifoSize \in 0 .. RxFifoSize - 1
        BY ModRange DEF UartTypeOK
      <3>2. irq_level' \in {0, 1} /\ pending' \in SUBSET Sources /\ LineCoherent'
        BY <1>2, <2>2, UpdateIrq DEF ReadRbr
      <3>3. PlicTypeOK'
        BY <1>2, <3>2 DEF ReadRbr, PlicTypeOK
      <3>4. UartTypeOK' /\ TxCountdown'
        BY <1>2, <2>2, <3>1, <3>2 DEF ReadRbr, UartTypeOK, TxCountdown
      <3> QED
        BY <3>2, <3>3, <3>4
    <2> QED
      BY <2>1, <2>2
  <1>3. CASE WriteThr
    <2>1. irq_level' \in {0, 1} /\ pending' \in SUBSET Sources /\ LineCoherent'
      BY <1>3, UpdateIrq DEF WriteThr
    <2> QED
      BY <1>3, <2>1 DEF WriteThr, PlicTypeOK, UartTypeOK, TxCountdown
  <1>4. ASSUME NEW val \in SUBSET IerBits, WriteIer(val)
        PROVE  IInv'
    <2>1. irq_level' \in {0, 1} /\ pending' \in SUBSET Sources /\ LineCoherent'
      BY <1>4, UpdateIrq DEF WriteIer
    <2> QED
      BY <1>4, <2>1 DEF WriteIer, PlicTypeOK, UartTypeOK, TxCountdown
  <1>5. CASE WriteFcr
    <2>1. irq_level' \in {0, 1} /\ pending' \in SUBSET Sources /\ LineCoherent'
      BY <1>5, UpdateIrq DEF WriteFcr
    <2> QED
      BY <1>5, <2>1 DEF WriteFcr, PlicTypeOK, UartTypeOK, TxCountdown
  <1>6. ASSUME NEW val \in {0, 1}, WriteLcr(val)
        PROVE  IInv'
    BY <1>6 DEF WriteLcr, PlicTypeOK, UartTypeOK, LineCoherent, TxCountdown,
                uart_read_iir
  <1>7. ASSUME NEW val \in Byte, WriteMcr(val) \/ WriteScr(val)
        PROVE  IInv'
    BY <1>7 DEF WriteMcr, WriteScr, PlicTypeOK, UartTypeOK, LineCoherent,
                TxCountdown, uart_read_iir
  <1>8. CASE uart_tick
    <2>1. CASE thr_busy = 0 \/ thr_ticks' # 0
      BY <1>8, <2>1 DEF uart_tick, PlicTypeOK, UartTypeOK, LineCoherent,
                        TxCountdown, uart_read_iir
    <2>2. CASE thr_busy # 0 /\ thr_ticks' = 0
      <3>1. irq_level' \in {0, 1} /\ pending' \in SUBSET Sources /\ LineCoherent'
        BY <1>8, <2>2, UpdateIrq DEF uart_tick
      <3> QED
        BY <1>8, <2>2, <3>1 DEF uart_tick, PlicTypeOK, UartTypeOK, TxCountdown
    <2> QED
      BY <2>1, <2>2
  <1>9. CASE GuestPlic /\ UNCHANGED uartVars
    <2>1. PlicTypeOK' /\ pending' = pending
      BY <1>9, GuestPlicTyped
    <2> QED
      BY <1>9, <2>1 DEF uartVars, UartTypeOK, LineCoherent, TxCountdown,
                        uart_read_iir
  <1>10. CASE UNCHANGED vars
    BY <1>10 DEF vars, uartVars, PlicTypeOK, UartTypeOK, LineCoherent,
                 TxCountdown, uart_read_iir
  <1> QED
    BY <1>1, <1>2, <1>3, <1>4, <1>5, <1>6, <1>7, <1>8, <1>9, <1>10
       DEF Next, UartNext, uart_write

\* Every handler of the UART and of the PLIC keeps both devices' registers in
\* range, for every number of sources, ring size, shift time and byte set.
THEOREM UartTyped == Spec => []TypeOK
  <1>1. IInv => TypeOK
    BY DEF IInv
  <1> QED
    BY InitIInv, NextIInv, <1>1, PTL DEF Spec

\* uart_update_irq is called wherever it must be: the PLIC line, the cached
\* level and IIR agree in every reachable state.
THEOREM UartLineCoherent == Spec => []LineCoherent
  <1>1. IInv => LineCoherent
    BY DEF IInv
  <1> QED
    BY InitIInv, NextIInv, <1>1, PTL DEF Spec

\* The transmitter's countdown never wraps below 0.
THEOREM UartTxCountdown == Spec => []TxCountdown
  <1>1. IInv => TxCountdown
    BY DEF IInv
  <1> QED
    BY InitIInv, NextIInv, <1>1, PTL DEF Spec

-----------------------------------------------------------------------------
\* The receive ring.

\* The slot at distance i from the head.
LEMMA RingSlot ==
    ASSUME UartTypeOK, NEW i \in 0 .. RxFifoSize
    PROVE  (rx_head + i) % RxFifoSize =
               IF rx_head + i < RxFifoSize THEN rx_head + i
               ELSE rx_head + i - RxFifoSize
  <1> DEFINE a == rx_head + i
  <1>1. a \in Nat /\ a < 2 * RxFifoSize
    BY UartAssumption DEF UartTypeOK
  <1> HIDE DEF a
  <1>2. RxFifoSize \in Nat \ {0}
    BY UartAssumption
  <1>3. a % RxFifoSize = IF a < RxFifoSize THEN a ELSE a - RxFifoSize
    BY <1>1, <1>2, ModWindow
  <1>4. a = rx_head + i
    BY DEF a
  <1> QED
    BY <1>1, <1>2, <1>3, <1>4 DEF UartTypeOK

\* Any distance from the head lands on a slot.
LEMMA SlotRange ==
    ASSUME UartTypeOK, NEW i \in Nat
    PROVE  (rx_head + i) % RxFifoSize \in 0 .. RxFifoSize - 1
  <1> DEFINE a == rx_head + i
  <1>1. a \in Nat
    BY DEF UartTypeOK
  <1> HIDE DEF a
  <1>2. a % RxFifoSize \in 0 .. RxFifoSize - 1
    BY <1>1, ModRange, UartAssumption
  <1> QED
    BY <1>2 DEF a

\* Append, seen as the function it builds.
LEMMA AppendFcn ==
    ASSUME NEW S, NEW s \in Seq(S), NEW c \in S, NEW n \in Nat, Len(s) = n
    PROVE  Append(s, c) = [i \in 1 .. n + 1 |-> IF i = n + 1 THEN c ELSE s[i]]
  <1> DEFINE t == Append(s, c)
  <1>1. /\ t \in Seq(S) /\ Len(t) = n + 1
        /\ \A i \in 1 .. n : t[i] = s[i]
        /\ t[n + 1] = c
    BY AppendProperties
  <1>2. t \in [1 .. n + 1 -> S]
    BY <1>1, LenProperties
  <1>3. \A i \in 1 .. n + 1 : i = n + 1 \/ i \in 1 .. n
    OBVIOUS
  <1> HIDE DEF t
  <1>4. t = [i \in 1 .. n + 1 |-> IF i = n + 1 THEN c ELSE s[i]]
    BY <1>1, <1>2, <1>3
  <1> QED
    BY <1>4 DEF t

\* Tail, seen as the function it builds.
LEMMA TailFcn ==
    ASSUME NEW S, NEW s \in Seq(S), NEW n \in Nat, Len(s) = n, s # <<>>
    PROVE  Tail(s) = [i \in 1 .. n - 1 |-> s[i + 1]]
  <1> DEFINE t == Tail(s)
  <1>1. t \in Seq(S) /\ Len(t) = n - 1 /\ \A i \in 1 .. n - 1 : t[i] = s[i + 1]
    BY HeadTailProperties
  <1>2. t \in [1 .. n - 1 -> S]
    BY <1>1, LenProperties
  <1> HIDE DEF t
  <1>3. t = [i \in 1 .. n - 1 |-> s[i + 1]]
    BY <1>1, <1>2
  <1> QED
    BY <1>3 DEF t

\* The ring's contents are a sequence of bytes, as long as rx_count says.
LEMMA RxQueueSeq ==
    ASSUME UartTypeOK
    PROVE  RxQueue \in Seq(Byte) /\ Len(RxQueue) = rx_count
  <1>1. \A i \in 1 .. rx_count : rx_head + i - 1 \in Nat
    BY DEF UartTypeOK
  <1>2. \A i \in 1 .. rx_count :
            (rx_head + i - 1) % RxFifoSize \in 0 .. RxFifoSize - 1
    BY <1>1, ModRange, UartAssumption
  <1>3. RxQueue \in [1 .. rx_count -> Byte]
    BY <1>2 DEF RxQueue, UartTypeOK
  <1> QED
    BY <1>3, UartAssumption DEF UartTypeOK

\* A byte the host delivers goes to the end of the queue: the slot written is
\* none of the slots in use, wherever the ring wraps.
LEMMA ReceiveIsPut ==
    ASSUME TypeOK, NEW c \in Byte, uart_receive(c)
    PROVE  Fifo!Put(c)
  <1> USE UartAssumption DEF TypeOK
  <1>1. /\ rx_count < RxFifoSize /\ rx_count' = rx_count + 1
        /\ UNCHANGED <<rx_head, rbr>>
    BY DEF uart_receive
  <1>2. \A i \in 1 .. rx_count :
            rx'[(rx_head + i - 1) % RxFifoSize]
                = rx[(rx_head + i - 1) % RxFifoSize]
    <2> SUFFICES ASSUME NEW i \in 1 .. rx_count
                 PROVE  rx'[(rx_head + i - 1) % RxFifoSize]
                            = rx[(rx_head + i - 1) % RxFifoSize]
      OBVIOUS
    <2> DEFINE j == i - 1
    <2>1. /\ j \in 0 .. RxFifoSize /\ rx_count \in 0 .. RxFifoSize
          /\ j < rx_count /\ rx_head + i - 1 = rx_head + j
      BY <1>1 DEF UartTypeOK
    <2> HIDE DEF j
    <2>2. (rx_head + j) % RxFifoSize # (rx_head + rx_count) % RxFifoSize
      BY <1>1, <2>1, RingSlot DEF UartTypeOK
    <2>3. rx' = [rx EXCEPT ![(rx_head + rx_count) % RxFifoSize] = c]
      BY DEF uart_receive
    <2>4. (rx_head + j) % RxFifoSize \in 0 .. RxFifoSize - 1
      BY <2>1, SlotRange
    <2>5. (rx_head + i - 1) % RxFifoSize = (rx_head + j) % RxFifoSize
      BY <2>1, Zenon
    <2> QED
      BY <2>2, <2>3, <2>4, <2>5 DEF UartTypeOK
  <1>3. rx'[(rx_head + (rx_count + 1) - 1) % RxFifoSize] = c
    <2>1. (rx_head + rx_count) % RxFifoSize \in 0 .. RxFifoSize - 1
      BY SlotRange DEF UartTypeOK
    <2>2. rx_head + (rx_count + 1) - 1 = rx_head + rx_count
      BY DEF UartTypeOK
    <2> QED
      BY <2>1, <2>2 DEF uart_receive, UartTypeOK
  <1>4. RxQueue' = Append(RxQueue, c)
    <2>2. RxQueue' = [i \in 1 .. rx_count + 1 |->
                         rx'[(rx_head + i - 1) % RxFifoSize]]
      BY <1>1 DEF RxQueue
    <2>1. Append(RxQueue, c) = [i \in 1 .. rx_count + 1 |->
                                   IF i = rx_count + 1 THEN c ELSE RxQueue[i]]
      BY RxQueueSeq, AppendFcn DEF UartTypeOK
    <2>3. ASSUME NEW i \in 1 .. rx_count + 1
          PROVE  rx'[(rx_head + i - 1) % RxFifoSize]
                     = IF i = rx_count + 1 THEN c ELSE RxQueue[i]
      <3>1. CASE i = rx_count + 1
        BY <1>3, <3>1
      <3>2. CASE i # rx_count + 1
        <4>1. i \in 1 .. rx_count
          BY <3>2 DEF UartTypeOK
        <4> QED
          BY <4>1, <1>2, <3>2 DEF RxQueue
      <3> QED
        BY <3>1, <3>2
    <2> QED
      BY <2>1, <2>2, <2>3
  <1> QED
    BY <1>1, <1>4, RxQueueSeq DEF Fifo!Put

\* A read of the data register takes the front of the queue: the queue that
\* starts at the next slot, wrapped, is the rest of the old one.
LEMMA ReadIsGet ==
    ASSUME TypeOK, ReadRbr
    PROVE  Fifo!Get \/ Fifo!GetUnmapped
  <1> USE UartAssumption DEF TypeOK
  <1>1. CASE dlab = 1 \/ rx_count = 0
    BY <1>1 DEF ReadRbr, rxVars, RxQueue, Fifo!GetUnmapped
  <1>2. CASE ~(dlab = 1 \/ rx_count = 0)
    <2>1. /\ rx' = rx
          /\ rbr' = rx[rx_head]
          /\ rx_head' = (rx_head + 1) % RxFifoSize
          /\ rx_count' = rx_count - 1
      BY <1>2 DEF ReadRbr
    <2>2. RxQueue # <<>> /\ rx_count \in 1 .. RxFifoSize
      BY <1>2, RxQueueSeq DEF UartTypeOK
    <2>3. Head(RxQueue) = rx[rx_head]
      <3>1. RxQueue[1] = rx[(rx_head + 1 - 1) % RxFifoSize]
        BY <2>2 DEF RxQueue
      <3>2. rx_head + 1 - 1 = rx_head + 0 /\ (rx_head + 0) % RxFifoSize = rx_head
        BY RingSlot DEF UartTypeOK
      <3> QED
        BY <3>1, <3>2, <2>2, RxQueueSeq
    <2>4. RxQueue' = Tail(RxQueue)
      <3>1. Tail(RxQueue) = [i \in 1 .. rx_count - 1 |-> RxQueue[i + 1]]
        BY <2>2, RxQueueSeq, TailFcn
      <3>2. RxQueue' = [i \in 1 .. rx_count - 1 |->
                           rx[(((rx_head + 1) % RxFifoSize) + i - 1) % RxFifoSize]]
        BY <2>1 DEF RxQueue
      <3>3. ASSUME NEW i \in 1 .. rx_count - 1
            PROVE  rx[(((rx_head + 1) % RxFifoSize) + i - 1) % RxFifoSize]
                       = RxQueue[i + 1]
        <4>1. RxQueue[i + 1] = rx[(rx_head + (i + 1) - 1) % RxFifoSize]
          BY <2>2 DEF RxQueue
        <4>2. /\ rx_head + (i + 1) - 1 = rx_head + i
              /\ i \in 0 .. RxFifoSize /\ 1 \in 0 .. RxFifoSize
          BY <2>2 DEF UartTypeOK
        <4> DEFINE h == (rx_head + 1) % RxFifoSize
        <4>3. h = IF rx_head + 1 < RxFifoSize THEN rx_head + 1
                  ELSE rx_head + 1 - RxFifoSize
          BY RingSlot, <4>2
        <4> HIDE DEF h
        <4>4. (rx_head + i) % RxFifoSize
                  = IF rx_head + i < RxFifoSize THEN rx_head + i
                    ELSE rx_head + i - RxFifoSize
          BY RingSlot, <4>2
        <4> DEFINE k == h + i - 1
        <4>5. k \in Nat /\ k < 2 * RxFifoSize /\ RxFifoSize \in Nat \ {0}
          BY <4>3, <4>2, <2>2 DEF UartTypeOK
        <4>6. k = rx_head + i \/ k = rx_head + i - RxFifoSize
          BY <4>3, <4>2, <2>2 DEF UartTypeOK
        <4> HIDE DEF k
        <4>7. k % RxFifoSize = IF k < RxFifoSize THEN k ELSE k - RxFifoSize
          BY <4>5, ModWindow
        <4>8. k % RxFifoSize = (rx_head + i) % RxFifoSize
          BY <4>4, <4>5, <4>6, <4>7, <4>2, <2>2 DEF UartTypeOK
        <4> QED
          BY <4>1, <4>2, <4>8 DEF h, k
      <3> QED
        BY <3>1, <3>2, <3>3
    <2> QED
      BY <2>1, <2>2, <2>3, <2>4 DEF Fifo!Get
  <1> QED
    BY <1>1, <1>2

\* Every other handler leaves the queue and the last byte read alone.
LEMMA FifoStep == TypeOK /\ [Next]_vars => [Fifo!FifoNext]_(Fifo!fifoVars)
  <1> SUFFICES ASSUME TypeOK, [Next]_vars
               PROVE  [Fifo!FifoNext]_(Fifo!fifoVars)
    OBVIOUS
  <1>1. ASSUME NEW c \in Byte, uart_receive(c)
        PROVE  Fifo!FifoNext
    BY <1>1, ReceiveIsPut DEF Fifo!FifoNext
  <1>2. CASE ReadRbr
    BY <1>2, ReadIsGet DEF Fifo!FifoNext
  <1>3. ASSUME UNCHANGED <<rx, rx_head, rx_count, rbr>>
        PROVE  UNCHANGED Fifo!fifoVars
    BY <1>3 DEF Fifo!fifoVars, RxQueue
  <1>4. CASE uart_write \/ uart_tick
    BY <1>3, <1>4 DEF uart_write, WriteThr, WriteIer, WriteFcr, WriteLcr,
                      WriteMcr, WriteScr, uart_tick, rxVars
  <1>5. CASE UNCHANGED uartVars
    BY <1>3, <1>5 DEF uartVars
  <1> QED
    BY <1>1, <1>2, <1>4, <1>5 DEF Next, UartNext, vars

\* The ring starts empty.
LEMMA FifoStart == Init => Fifo!FifoInit
  <1>1. Init => RxQueue = <<>> /\ rbr = 0
    BY DEF Init, uart_init, RxQueue
  <1> QED
    BY <1>1 DEF Fifo!FifoInit

\* The ring of uart.c with its wrapping indices implements the bounded FIFO:
\* bytes come out in arrival order, none twice, none lost but at a full ring.
THEOREM UartRingIsFifo == Spec => RingIsFifo
  BY FifoStart, FifoStep, UartTyped, PTL DEF Spec, RingIsFifo, Fifo!FifoSpec

-----------------------------------------------------------------------------
\* The interrupt path end to end.  The invariant says where the guest can be,
\* that its set-up does not change, and that between the dispatch and the claim
\* nothing withdraws the UART's line.


\* The hart the guest runs on: its set-up does not change.
GuestHart ==
    [privilege : {PRV_SUPERVISOR}, pc : Addr, just_trapped : {0},
     mmu_flags : {{}}, mstatus : SUBSET MstatusBits,
     mcause : {Exc(0)}, scause : {Exc(0), Irq(SEI)}, mepc : {0}, sepc : {IDLE},
     mtvec : {[base |-> 4, vectored |-> FALSE]},
     stvec : {[base |-> CLAIM, vectored |-> FALSE]},
     medeleg : {{}}, mideleg : {SBits}, mie : {{SEI}}, mip : {{}}, satp : {0}]

\* Where the guest can be: in its handler interrupts are off and SPP is set.
HartOk ==
    /\ hart \in GuestHart
    /\ "MIE" \notin hart.mstatus /\ "TSR" \notin hart.mstatus
    /\ hart.pc \in {IDLE} \union Handler
    /\ hart.pc \in Handler => "SIE" \notin hart.mstatus /\ "SPP" \in hart.mstatus

\* The UART's invariant, and the PLIC as the guest set it up.
DevicesOk ==
    /\ IInv
    /\ priority = [id \in Sources |-> 1]
    /\ enable = [ctx \in Contexts |-> IF ctx = 1 THEN {UartIrq} ELSE {}]
    /\ threshold = [ctx \in Contexts |-> 0]
    /\ pending \subseteq {UartIrq}

\* Context 1 is offered the UART.
Raised == UartIrq \in pending /\ UartIrq \notin claimed[1]

\* The offer stands until the claim; after it the driver holds the UART.
EntryOk ==
    /\ hart.pc = CLAIM => phase \in {"poll", "execute"} /\ Raised
    /\ hart.pc \in Handler \ {CLAIM} => source = UartIrq

\* The inductive invariant.
GInv == HartOk /\ DevicesOk /\ EntryOk

\* With that set-up only the UART can be offered, and only to context 1.
LEMMA Offered ==
    ASSUME DevicesOk
    PROVE  /\ plic_best_source(0) = 0
           /\ plic_best_source(1) = IF Raised THEN UartIrq ELSE 0
  <1>1. BestSourceIsMaximal
    BY BestMaximal DEF DevicesOk, IInv, TypeOK
  <1>2. UartIrq \in Sources /\ 0 \in Contexts /\ 1 \in Contexts
    BY UartAssumption DEF Sources, Contexts
  <1>3. priority[UartIrq] = 1 /\ threshold[1] = 0
    BY <1>2 DEF DevicesOk
  <1>4. enable[1] = {UartIrq} /\ enable[0] = {}
    BY <1>2 DEF DevicesOk
  <1>5. Deliverable(0) = {}
    BY <1>4 DEF Deliverable
  <1>6. Deliverable(1) = IF Raised THEN {UartIrq} ELSE {}
    BY <1>3, <1>4 DEF Deliverable, Raised, DevicesOk
  <1>7. plic_best_source(0) = 0
    BY <1>1, <1>2, <1>5 DEF BestSourceIsMaximal
  <1>8. CASE Raised
    BY <1>1, <1>2, <1>6, <1>7, <1>8 DEF BestSourceIsMaximal
  <1>9. CASE ~Raised
    BY <1>1, <1>2, <1>6, <1>7, <1>9 DEF BestSourceIsMaximal
  <1> QED
    BY <1>8, <1>9

\* The -4 and +4 around an instruction cancel at the guest's addresses.
LEMMA Resume ==
    ASSUME NEW a \in {IDLE} \union Handler
    PROVE  a \in Addr /\ AddrPlus(AddrPlus(a, -4), 4) = a
  BY AddrAssumption, MachineAssumption
     DEF Addr, AddrPlus, Handler, IDLE, CLAIM, READ_IIR, READ_RBR, FILL_THR, COMPLETE, SRET

\* An instruction moves pc only.
LEMMA InstructionHart ==
    ASSUME HartOk, NEW from, NEW to \in {IDLE} \union Handler, Instruction(from, to),
           from = IDLE => to = IDLE
    PROVE  HartOk' /\ hart'.pc = to
  <1>1. hart' = [hart EXCEPT !.pc = to] /\ hart.pc = from
    BY Resume DEF Instruction
  <1>2. to \in Addr
    BY Resume
  <1>3. hart' \in GuestHart /\ hart'.pc = to /\ hart'.mstatus = hart.mstatus
    BY <1>1, <1>2 DEF HartOk, GuestHart
  <1>4. hart.pc \in {IDLE} \union Handler /\ (to \in Handler => from \in Handler)
    BY <1>1 DEF HartOk, Handler, IDLE, CLAIM, READ_IIR, READ_RBR, FILL_THR, COMPLETE, SRET
  <1> QED
    BY <1>1, <1>3, <1>4 DEF HartOk

\* The dispatcher takes the one interrupt the guest enables, when it is not in
\* its handler.
LEMMA DispatchHart ==
    ASSUME HartOk, DevicesOk, hart' = check_and_handle_interrupts(hart, LiveLines)
    PROVE  /\ HartOk'
           /\ hart' = hart \/ (hart'.pc = CLAIM /\ Raised)
  <1> DEFINE sp == SupervisorPending(hart, LiveLines)
             ms == hart.mstatus
  <1>1. LiveLines = IF Raised THEN {SEI} ELSE {}
    BY Offered, UartAssumption
       DEF LiveLines, plic_external_pending, plic_external_pending_s
  <1>2. /\ hart.privilege = PRV_SUPERVISOR /\ hart.mip = {} /\ hart.mie = {SEI}
        /\ hart.mideleg = SBits /\ hart.stvec = [base |-> CLAIM, vectored |-> FALSE]
        /\ hart.mmu_flags = {} /\ ms \in SUBSET MstatusBits /\ "MIE" \notin ms
        /\ "TSR" \notin ms
        /\ hart.pc \in {IDLE} \union Handler
    BY DEF HartOk, GuestHart
  <1>3. MachinePending(hart, LiveLines) = {}
    BY <1>2 DEF MachinePending
  <1>4. sp = IF Raised /\ "SIE" \in ms THEN {SEI} ELSE {}
    <2>1. get_sip(hart, LiveLines) = LiveLines
      BY <1>1, <1>2 DEF get_sip, get_mip, LiveIrqs, SBits, SEI, SSI, STI, MTI, MEI
    <2>2. get_sie(hart) = {SEI}
      BY <1>2 DEF get_sie, SBits
    <2> QED
      BY <1>1, <1>2, <2>1, <2>2 DEF SupervisorPending, SBits
  <1>5. CASE sp = {}
    <2>1. hart' = hart
      BY <1>2, <1>3, <1>5 DEF check_and_handle_interrupts, PRV_SUPERVISOR, PRV_MACHINE
    <2> QED
      BY <2>1 DEF HartOk
  <1>6. CASE sp # {}
    <2>1. Raised /\ "SIE" \in ms /\ sp = {SEI}
      BY <1>4, <1>6
    <2>2. MostUrgent(sp) = SEI
      BY <2>1 DEF MostUrgent, Rank, Irqs, SEI
    <2>3. hart' = raise_interrupt(hart, SEI)
      BY <1>2, <2>1, <2>2 DEF check_and_handle_interrupts, PRV_SUPERVISOR, PRV_MACHINE
    <2>4. ClearReservations(hart) = hart
      BY DEF ClearReservations, HartOk, GuestHart
    <2>5. InterruptTarget(hart.stvec, SEI) = CLAIM
      BY <1>2 DEF InterruptTarget
    <2>6. hart' = TrapToS(hart, Irq(SEI), hart.pc, CLAIM)
      BY <1>2, <2>3, <2>4, <2>5 DEF raise_interrupt, Delegated, SBits
    <2>7. hart.pc = IDLE
      BY <2>1 DEF HartOk
    <2> DEFINE ns == CopyBit(ms \union {"SPP"}, "SIE", "SPIE") \ {"SIE"}
    <2>8. hart' = [hart EXCEPT !.mstatus = ns, !.scause = Irq(SEI), !.sepc = IDLE,
                               !.privilege = PRV_SUPERVISOR, !.pc = CLAIM]
      BY <1>2, <2>6, <2>7 DEF TrapToS
    <2>9. /\ ns \in SUBSET MstatusBits /\ "SIE" \notin ns /\ "SPP" \in ns
          /\ "MIE" \notin ns /\ "TSR" \notin ns
      BY <1>2 DEF CopyBit, MstatusBits
    <2> HIDE DEF ns
    <2>10. CLAIM \in Addr
      BY Resume DEF Handler
    <2>11. hart' \in GuestHart /\ hart'.mstatus = ns /\ hart'.pc = CLAIM
      BY <2>8, <2>9, <2>10 DEF HartOk, GuestHart
    <2> QED
      BY <2>1, <2>9, <2>11 DEF HartOk, Handler
  <1> QED
    BY <1>5, <1>6

\* sret ends the handler.
LEMMA SretHart ==
    ASSUME HartOk, hart.pc = SRET,
           hart' = [ins_sret(hart) EXCEPT !.pc = AddrPlus(@, 4)]
    PROVE  HartOk' /\ hart'.pc = IDLE
  <1> DEFINE ms == hart.mstatus
             ns == (CopyBit(ms, "SPIE", "SIE") \union {"SPIE"}) \ {"SPP"}
             back == [hart EXCEPT !.mstatus = ns, !.privilege = PRV_SUPERVISOR,
                                  !.pc = AddrPlus(IDLE, -4)]
  <1>1. hart.pc \in Handler
    BY DEF Handler
  <1>2. "TSR" \notin ms /\ "SPP" \in ms /\ hart.sepc = IDLE /\ ms \in SUBSET MstatusBits
        /\ "MIE" \notin ms
    BY <1>1 DEF HartOk, GuestHart
  <1>3. ins_sret(hart) = back
    BY <1>2 DEF ins_sret
  <1>4. /\ ns \in SUBSET MstatusBits /\ "MIE" \notin ns /\ "TSR" \notin ns
    BY <1>2 DEF CopyBit, MstatusBits
  <1> HIDE DEF ns
  <1>5. AddrPlus(IDLE, -4) \in Addr
    BY AddrAssumption, MachineAssumption DEF AddrPlus, Addr, IDLE
  <1>6. back \in GuestHart /\ back.pc = AddrPlus(IDLE, -4) /\ back.mstatus = ns
    BY <1>4, <1>5 DEF HartOk, GuestHart
  <1> HIDE DEF back
  <1>7. hart' = [back EXCEPT !.pc = IDLE]
    BY <1>3, <1>6, Resume
  <1>8. IDLE \in Addr
    BY Resume
  <1>9. hart' \in GuestHart /\ hart'.pc = IDLE /\ hart'.mstatus = ns
    BY <1>6, <1>7, <1>8 DEF GuestHart
  <1>10. IDLE \notin Handler
    BY DEF Handler, IDLE, CLAIM, READ_IIR, READ_RBR, FILL_THR, COMPLETE, SRET
  <1> QED
    BY <1>4, <1>9, <1>10 DEF HartOk

\* Every handler of the UART leaves the PLIC's registers and moves only its line.
LEMMA UartStep ==
    ASSUME DevicesOk, UartNext
    PROVE  DevicesOk' /\ claimed' = claimed
  <1>1. IInv'
    BY NextIInv DEF DevicesOk, Next
  <1>2. UNCHANGED plicRegs
    BY DEF UartNext, uart_receive, ReadRbr, uart_write, WriteThr, WriteIer, WriteFcr,
           WriteLcr, WriteMcr, WriteScr, uart_tick, plicRegs, plicVars
  <1>3. uart_update_irq \/ pending' = pending
    BY DEF UartNext, uart_receive, ReadRbr, uart_write, WriteThr, WriteIer, WriteFcr,
           WriteLcr, WriteMcr, WriteScr, uart_tick, plicVars
  <1>4. pending' \subseteq {UartIrq}
    BY <1>3 DEF uart_update_irq, plic_set_irq, DevicesOk
  <1> QED
    BY <1>1, <1>2, <1>4 DEF DevicesOk, plicRegs

\* The handshake moves the claim flags only.
LEMMA HandshakeStep ==
    ASSUME DevicesOk, UNCHANGED uartVars, UNCHANGED <<priority, pending, enable, threshold>>,
           claimed' \in [Contexts -> SUBSET Sources]
    PROVE  DevicesOk'
  <1>1. TypeOK'
    BY DEF DevicesOk, IInv, TypeOK, PlicTypeOK, UartTypeOK, uartVars
  <1>2. LineCoherent' /\ TxCountdown'
    BY DEF DevicesOk, IInv, LineCoherent, TxCountdown, uart_read_iir, uartVars
  <1> QED
    BY <1>1, <1>2 DEF DevicesOk, IInv

\* The invariant holds when the guest has set up its interrupts ...
LEMMA BootGInv == Boot => GInv
  <1> SUFFICES ASSUME Boot PROVE GInv
    OBVIOUS
  <1> USE UartAssumption, PlicAssumption, MachineAssumption
  <1>1. IInv
    BY DEF Boot, IInv, TypeOK, PlicTypeOK, UartTypeOK, LineCoherent, TxCountdown,
           uart_read_iir, IIR_NOPEND, IIR_THRE, IIR_RXDATA, Sources, IerBits, Contexts
  <1>2. DevicesOk
    BY <1>1 DEF Boot, DevicesOk
  <1>3. IDLE \in Addr
    BY Resume
  <1>4. hart \in GuestHart /\ hart.pc = IDLE /\ hart.mstatus = {"SIE"}
    <2>1. {"SIE"} \in SUBSET MstatusBits
      BY DEF MstatusBits
    <2>2. hart = [privilege |-> PRV_SUPERVISOR, pc |-> IDLE, just_trapped |-> 0,
               mmu_flags |-> {}, mstatus |-> {"SIE"},
               mcause |-> Exc(0), scause |-> Exc(0), mepc |-> 0, sepc |-> 0,
               mtvec |-> [base |-> 4, vectored |-> FALSE],
               stvec |-> [base |-> CLAIM, vectored |-> FALSE],
               medeleg |-> {}, mideleg |-> SBits, mie |-> {SEI}, mip |-> {},
               satp |-> 0]
      BY DEF Boot
    <2>3. IDLE = 0
      BY DEF IDLE
    <2> QED
      BY <1>3, <2>1, <2>2, <2>3 DEF GuestHart
  <1>5. IDLE \notin Handler /\ IDLE # CLAIM
    BY DEF Handler, IDLE, CLAIM, READ_IIR, READ_RBR, FILL_THR, COMPLETE, SRET
  <1> QED
    BY <1>2, <1>4, <1>5 DEF GInv, HartOk, EntryOk

\* ... and every phase of the run loop and every instruction preserves it.
LEMMA NextGInv == GInv /\ [MachineNext]_machineVars => GInv'
  <1> SUFFICES ASSUME GInv, [MachineNext]_machineVars PROVE GInv'
    OBVIOUS
  <1>g. HartOk /\ DevicesOk /\ EntryOk
    BY DEF GInv
  <1>a. /\ {IDLE, CLAIM, READ_IIR, READ_RBR, FILL_THR, COMPLETE, SRET}
              \subseteq {IDLE} \union Handler
        /\ {READ_IIR, READ_RBR, FILL_THR, COMPLETE, SRET} \subseteq Handler \ {CLAIM}
        /\ IDLE \notin Handler /\ CLAIM \in Handler /\ CLAIM # IDLE
        /\ IDLE \notin {READ_IIR, READ_RBR, FILL_THR, COMPLETE, SRET}
    BY DEF Handler, IDLE, CLAIM, READ_IIR, READ_RBR, FILL_THR, COMPLETE, SRET
  <1>d. ASSUME UNCHANGED vars PROVE DevicesOk' /\ Raised' = Raised
    <2>1. IInv'
      BY <1>d, <1>g, NextIInv DEF DevicesOk
    <2> QED
      BY <1>d, <1>g, <2>1 DEF vars, plicVars, DevicesOk, Raised
  <1>1. CASE Dispatch
    <2>1. phase' = "poll" /\ UNCHANGED <<vars, source>>
      BY <1>1 DEF Dispatch, guestVars
    <2>2. phase = "interrupt"
      BY <1>1 DEF Dispatch
    <2>3. HartOk' /\ (hart' = hart \/ (hart'.pc = CLAIM /\ Raised))
      BY <1>1, <1>g, DispatchHart DEF Dispatch
    <2>4. hart.pc # CLAIM
      BY <1>g, <2>2 DEF EntryOk
    <2>5. EntryOk'
      BY <1>g, <1>d, <2>1, <2>3, <2>4 DEF EntryOk
    <2> QED
      BY <1>d, <2>1, <2>3, <2>5 DEF GInv
  <1>2. CASE PollByte
    <2>1. phase' = phase /\ hart' = hart /\ source' = source /\ phase = "poll"
      BY <1>2 DEF PollByte, guestVars
    <2>2. HartOk'
      BY <1>g, <2>1 DEF HartOk
    <2>3. CASE UNCHANGED vars
      BY <1>g, <1>d, <2>1, <2>2, <2>3 DEF GInv, EntryOk
    <2>4. ASSUME NEW c \in Byte, uart_receive(c) PROVE GInv'
      <3>1. DevicesOk' /\ claimed' = claimed
        BY <1>g, <2>4, UartStep DEF UartNext
      <3>2. uart_read_iir # IIR_NOPEND => uart_read_iir' # IIR_NOPEND
        BY <1>g, <2>4 DEF uart_receive, uart_read_iir, regVars, txVars, IIR_NOPEND,
              IIR_THRE, IIR_RXDATA, DevicesOk, IInv, TypeOK, UartTypeOK
      <3>3. UartIrq \in pending => UartIrq \in pending'
        BY <1>g, <3>1, <3>2 DEF DevicesOk, IInv, LineCoherent
      <3> QED
        BY <1>g, <2>1, <2>2, <3>1, <3>3 DEF GInv, EntryOk, Raised
    <2> QED
      BY <1>2, <2>3, <2>4 DEF PollByte
  <1>3. CASE PollDone
    <2>1. phase' = "execute" /\ hart' = hart /\ UNCHANGED <<vars, source>>
      BY <1>3 DEF PollDone, guestVars
    <2>2. HartOk'
      BY <1>g, <2>1 DEF HartOk
    <2> QED
      BY <1>g, <1>d, <2>1, <2>2 DEF GInv, EntryOk
  <1>4. CASE Tick
    <2>1. phase = "tick" /\ hart' = hart /\ source' = source /\ uart_tick
      BY <1>4 DEF Tick, guestVars
    <2>2. HartOk'
      BY <1>g, <2>1 DEF HartOk
    <2>3. DevicesOk'
      BY <1>g, <2>1, UartStep DEF UartNext
    <2>4. hart.pc # CLAIM
      BY <1>g, <2>1 DEF EntryOk
    <2> QED
      BY <1>g, <2>1, <2>2, <2>3, <2>4 DEF GInv, EntryOk
  <1>5. CASE Idle
    <2>1. HartOk' /\ hart'.pc = IDLE
      BY <1>5, <1>g, <1>a, InstructionHart DEF Idle
    <2> QED
      BY <1>5, <1>d, <1>a, <2>1 DEF Idle, GInv, EntryOk
  <1>6. CASE Send
    <2>1. HartOk' /\ hart'.pc = IDLE
      BY <1>6, <1>g, <1>a, InstructionHart DEF Send
    <2>2. DevicesOk'
      BY <1>6, <1>g, UartStep DEF Send, UartNext, uart_write, IerBits
    <2> QED
      BY <1>a, <2>1, <2>2 DEF GInv, EntryOk
  <1>7. CASE ClaimSource
    <2>1. hart.pc = CLAIM
      BY <1>7 DEF ClaimSource, Instruction
    <2>2. HartOk' /\ hart'.pc = READ_IIR
      BY <1>7, <1>g, <1>a, InstructionHart DEF ClaimSource
    <2>3. source' = UartIrq
      BY <1>7, <1>g, <2>1, Offered DEF ClaimSource, EntryOk
    <2>4. claimed' \in [Contexts -> SUBSET Sources]
      BY <1>7, <1>g DEF ClaimSource, Claim, DevicesOk, IInv, TypeOK, PlicTypeOK, Contexts
    <2>5. DevicesOk'
      BY <1>7, <1>g, <2>4, HandshakeStep DEF ClaimSource, Claim
    <2> QED
      BY <1>a, <2>2, <2>3, <2>5 DEF GInv, EntryOk
  <1>8. CASE ReadIir
    <2>1. PICK to \in {READ_RBR, FILL_THR, COMPLETE} : Instruction(READ_IIR, to)
      BY <1>8 DEF ReadIir
    <2>2. HartOk' /\ hart'.pc = to
      BY <1>g, <1>a, <2>1, InstructionHart
    <2>3. hart.pc = READ_IIR /\ UNCHANGED <<vars, source>>
      BY <1>8, <2>1 DEF ReadIir, Instruction, guestVars
    <2> QED
      BY <1>g, <1>a, <1>d, <2>2, <2>3 DEF GInv, EntryOk
  <1>9. CASE TakeByte
    <2>1. HartOk' /\ hart'.pc = READ_IIR
      BY <1>9, <1>g, <1>a, InstructionHart DEF TakeByte
    <2>2. hart.pc = READ_RBR /\ source' = source
      BY <1>9 DEF TakeByte, Instruction, guestVars
    <2>3. DevicesOk'
      BY <1>9, <1>g, UartStep DEF TakeByte, UartNext
    <2> QED
      BY <1>g, <1>a, <2>1, <2>2, <2>3 DEF GInv, EntryOk
  <1>10. CASE FillThr
    <2>1. HartOk' /\ hart'.pc = READ_IIR
      BY <1>10, <1>g, <1>a, InstructionHart DEF FillThr
    <2>2. hart.pc = FILL_THR /\ source' = source
      BY <1>10 DEF FillThr, Instruction
    <2>3. DevicesOk'
      BY <1>10, <1>g, UartStep DEF FillThr, UartNext, uart_write, IerBits
    <2> QED
      BY <1>g, <1>a, <2>1, <2>2, <2>3 DEF GInv, EntryOk
  <1>11. CASE CompleteSource
    <2>1. HartOk' /\ hart'.pc = SRET
      BY <1>11, <1>g, <1>a, InstructionHart DEF CompleteSource
    <2>2. hart.pc = COMPLETE /\ source' = source
      BY <1>11 DEF CompleteSource, Instruction, guestVars
    <2>3. claimed' \in [Contexts -> SUBSET Sources]
      BY <1>11, <1>g DEF CompleteSource, Complete, DevicesOk, IInv, TypeOK, PlicTypeOK, Contexts
    <2>4. DevicesOk'
      BY <1>11, <1>g, <2>3, HandshakeStep DEF CompleteSource, Complete
    <2> QED
      BY <1>g, <1>a, <2>1, <2>2, <2>4 DEF GInv, EntryOk
  <1>12. CASE ReturnFromHandler
    <2>1. HartOk' /\ hart'.pc = IDLE
      BY <1>12, <1>g, SretHart DEF ReturnFromHandler
    <2>2. DevicesOk'
      BY <1>12, <1>d DEF ReturnFromHandler
    <2> QED
      BY <1>a, <2>1, <2>2 DEF GInv, EntryOk
  <1>13. CASE UNCHANGED machineVars
    <2>1. UNCHANGED <<vars, hart, phase, source>>
      BY <1>13 DEF machineVars, guestVars
    <2>2. HartOk'
      BY <1>g, <2>1 DEF HartOk
    <2> QED
      BY <1>g, <1>d, <2>1, <2>2 DEF GInv, EntryOk
  <1> QED
    BY <1>1, <1>2, <1>3, <1>4, <1>5, <1>6, <1>7, <1>8, <1>9, <1>10, <1>11, <1>12, <1>13
       DEF MachineNext, Guest

(***************************************************************************)
(* Whatever the host types and the transmitter finishes between the        *)
(* dispatch and the claim, the claim returns the UART and IIR shows a      *)
(* cause; the rest of the handler works on that source.                    *)
(***************************************************************************)
THEOREM MachineHandlerFindsItsCause == MachineSpec => []HandlerFindsItsCause
  <1>1. GInv => HandlerFindsItsCause
    <2> SUFFICES ASSUME GInv PROVE HandlerFindsItsCause
      OBVIOUS
    <2>1. Raised => plic_best_source(1) = UartIrq /\ uart_read_iir # IIR_NOPEND
      BY Offered DEF GInv, DevicesOk, IInv, LineCoherent, Raised
    <2> QED
      BY <2>1 DEF GInv, EntryOk, HandlerFindsItsCause
  <1> QED
    BY BootGInv, NextGInv, <1>1, PTL DEF MachineSpec
=============================================================================
