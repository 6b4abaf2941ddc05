------------------------------ MODULE MCTraps -------------------------------
(***************************************************************************)
(* Models of Traps for TLC.                                                *)
(***************************************************************************)
EXTENDS Traps

\* The address space has room for the guest's code at 0, which can also run into
\* what follows it, the machine vector from 4 and the supervisor vector from 8,
\* with the slots of different interrupts at different addresses.
MCCode == {0}
MVec(vectored) == [base |-> 4, vectored |-> vectored]
SVec(vectored) == [base |-> 8, vectored |-> vectored]

\* Firmware that keeps every exception and supervisor line in M but hands its
\* machine timer line to S, and firmware that hands faults, user ecalls, illegal
\* instructions and the supervisor lines to S, where the timer line shows as STI
\* and can be pending together with SEI.
MCConfigs ==
    {[mstatus |-> {}, medeleg |-> {}, mideleg |-> {MTI},
      mie |-> {MTI, SEI}, mtvec |-> MVec(FALSE), stvec |-> SVec(FALSE)],
     [mstatus |-> {}, medeleg |-> {2, 8, 13}, mideleg |-> SBits,
      mie |-> {STI, MTI, SEI}, mtvec |-> MVec(TRUE), stvec |-> SVec(TRUE)]}

MCCauses == {13}
MCLive == {MTI, SEI}

MCCsrOps == {<<"mstatus", "s", {"MIE", "TSR", "TVM"}>>,
             <<"mstatus", "w", {"MPP_LO", "MPIE", "UIE"}>>,
             <<"sstatus", "s", {"SIE"}>>,
             <<"sstatus", "w", {"SPIE", "UIE"}>>,
             <<"mepc", "w", 0>>,
             <<"sepc", "w", 0>>}

\* No step reads mcause or scause back, so states that differ only there have
\* the same futures.
View == <<[hart EXCEPT !.mcause = Exc(0), !.scause = Exc(0)], phase, mctx, sctx>>

-----------------------------------------------------------------------------
(***************************************************************************)
(* Guests that meet a comment of the code the code does not keep, one for  *)
(* each of StipMirrorsTimer, IllegalSatpWriteHasNoEffect and               *)
(* DelegatedStayPending: a kernel that acknowledges software interrupts by *)
(* clearing SSIP in sip and never writes STIP; a hypervisor-like firmware  *)
(* that traps its supervisor's satp accesses; and one that delegates its   *)
(* timer line to S and enables its own interrupts.                         *)
(***************************************************************************)
Firmware(mstatus, mideleg, mie) ==
    [mstatus |-> {"MPP_LO"} \union mstatus, medeleg |-> {}, mideleg |-> mideleg,
     mie |-> mie, mtvec |-> MVec(FALSE), stvec |-> SVec(FALSE)]
DepartConfigs == {Firmware({}, SBits, {SSI, STI}),
                  Firmware({"TVM"}, {}, {}),
                  Firmware({"MIE"}, SBits \union {MTI}, {MTI})}
DepartLive == {MTI}
DepartCsrOps == {<<"sip", "c", {SSI}>>, <<"satp", "w", 1>>}
=============================================================================
