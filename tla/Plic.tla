-------------------------------- MODULE Plic --------------------------------
(***************************************************************************)
(* The platform-level interrupt controller of src/src/device/plic.c: the   *)
(* level-sensitive source lines, the guest-visible registers and the       *)
(* claim/complete handshake of its two hart contexts (0 drives MIP.MEIP,   *)
(* 1 drives MIP.SEIP).                                                     *)
(*                                                                         *)
(* The bit vectors pending, enable[ctx] and the booleans claimed[ctx][id]  *)
(* are sets of source numbers; a register is named by the action that      *)
(* accesses it rather than by its byte offset.  Reads without a side       *)
(* effect are not actions.                                                 *)
(***************************************************************************)
EXTENDS Integers, FiniteSets

CONSTANTS
    NDev,           \* PLIC_NDEV, the number of interrupt sources
    PriorityMask,   \* the 3-bit mask 0x7 of priority and threshold writes
    RegVals,        \* values a guest writes to priority and threshold
    CompleteVals    \* values a guest writes to a complete register

ASSUME PlicAssumption ==
    /\ NDev \in Nat \ {0}
    /\ PriorityMask \in Nat
    /\ RegVals \subseteq Nat
    /\ CompleteVals \subseteq Nat

VARIABLES
    priority,       \* priority[id]
    pending,        \* the live device lines
    enable,         \* enable[ctx]
    threshold,      \* threshold[ctx]
    claimed         \* claimed[ctx]: sources this context is servicing

plicVars == <<priority, pending, enable, threshold, claimed>>

Sources == 1 .. NDev
Contexts == {0, 1}

\* The registers of plic.c keep their widths: a priority is masked by its write.
PlicTypeOK ==
    /\ priority \in [Sources -> 0 .. PriorityMask]
    /\ pending \in SUBSET Sources
    /\ enable \in [Contexts -> SUBSET Sources]
    /\ threshold \in [Contexts -> 0 .. PriorityMask]
    /\ claimed \in [Contexts -> SUBSET Sources]

plic_init ==
    /\ priority = [id \in Sources |-> 0]
    /\ pending = {}
    /\ enable = [ctx \in Contexts |-> {}]
    /\ threshold = [ctx \in Contexts |-> 0]
    /\ claimed = [ctx \in Contexts |-> {}]

\* The four `continue` tests of the scan.
Deliverable(ctx) ==
    {id \in pending : /\ id \notin claimed[ctx]
                      /\ id \in enable[ctx]
                      /\ priority[id] > threshold[ctx]}

MutBestSourceLast(ctx) ==
    IF Deliverable(ctx) = {} THEN 0
    ELSE CHOOSE id \in Deliverable(ctx) : \A o \in Deliverable(ctx) : o <= id

\* Sources 1, 2, ... in turn; a later one replaces the best so far when its
\* priority is at least as high.
plic_best_source(ctx) ==
    LET scan[id \in 0 .. NDev] ==
            IF id = 0 THEN [best |-> 0, pri |-> 0]
            ELSE LET sofar == scan[id - 1]
                 IN  IF id \in Deliverable(ctx) /\ priority[id] >= sofar.pri
                     THEN [best |-> id, pri |-> priority[id]]
                     ELSE sofar
    IN  scan[NDev].best

plic_external_pending == plic_best_source(0) # 0
plic_external_pending_s == plic_best_source(1) # 0

-----------------------------------------------------------------------------
\* The register handlers (plic_write32 and the claim read of plic_read32).

WritePriority(id, val) ==
    /\ priority' = [priority EXCEPT ![id] = val % (PriorityMask + 1)]
    /\ UNCHANGED <<pending, enable, threshold, claimed>>

WriteEnable(ctx, val) ==
    /\ enable' = [enable EXCEPT ![ctx] = val]
    /\ UNCHANGED <<priority, pending, threshold, claimed>>

WriteThreshold(ctx, val) ==
    /\ threshold' = [threshold EXCEPT ![ctx] = val % (PriorityMask + 1)]
    /\ UNCHANGED <<priority, pending, enable, claimed>>

\* A claim flag shared by the two contexts.
MutClaimBothContexts(ctx) ==
    LET id == plic_best_source(ctx)
    IN  /\ claimed' = [c \in Contexts |-> claimed[c] \union ({id} \intersect Sources)]
        /\ UNCHANGED <<priority, pending, enable, threshold>>

\* Reading the claim register marks the best source in progress; the line
\* itself stays as the device drives it.
Claim(ctx) ==
    LET id == plic_best_source(ctx)
    IN  /\ claimed' = IF id \in Sources
                      THEN [claimed EXCEPT ![ctx] = @ \union {id}]
                      ELSE claimed
        /\ UNCHANGED <<priority, pending, enable, threshold>>

MutCompleteWrongContext(ctx, val) ==
    /\ claimed' = [claimed EXCEPT ![0] = @ \ {val % 32}]
    /\ UNCHANGED <<priority, pending, enable, threshold>>

Complete(ctx, val) ==
    LET id == val % 32
    IN  /\ claimed' = IF id \in Sources
                      THEN [claimed EXCEPT ![ctx] = @ \ {id}]
                      ELSE claimed
        /\ UNCHANGED <<priority, pending, enable, threshold>>

\* plic_set_irq: only the line changes.  The frame conditions on the other
\* registers belong to the caller.
plic_set_irq(id, level) ==
    pending' = IF id \notin Sources THEN pending
               ELSE IF level = 1 THEN pending \union {id} ELSE pending \ {id}

\* Every guest access to the controller that changes it.
GuestPlic ==
    \/ \E id \in Sources, val \in RegVals : WritePriority(id, val)
    \/ \E ctx \in Contexts, val \in SUBSET Sources : WriteEnable(ctx, val)
    \/ \E ctx \in Contexts, val \in RegVals : WriteThreshold(ctx, val)
    \/ \E ctx \in Contexts : Claim(ctx)
    \/ \E ctx \in Contexts, val \in CompleteVals : Complete(ctx, val)

DeviceLine ==
    /\ \E id \in Sources, level \in {0, 1} : plic_set_irq(id, level)
    /\ UNCHANGED <<priority, enable, threshold, claimed>>

PlicNext == GuestPlic \/ DeviceLine

PlicSpec == plic_init /\ [][PlicNext]_plicVars

-----------------------------------------------------------------------------
(***************************************************************************)
(* The scan of plic_best_source returns 0 exactly when nothing is          *)
(* deliverable, and otherwise a deliverable source no other deliverable    *)
(* source outranks, the highest number winning a tie.                      *)
(***************************************************************************)
BestSourceIsMaximal ==
    \A ctx \in Contexts :
        LET best == plic_best_source(ctx)
        IN  IF Deliverable(ctx) = {} THEN best = 0
            ELSE /\ best \in Deliverable(ctx)
                 /\ \A o \in Deliverable(ctx) :
                        \/ priority[o] < priority[best]
                        \/ priority[o] = priority[best] /\ o <= best

(***************************************************************************)
(* What the comments of plic_read32 and plic_set_irq promise of the        *)
(* handshake: a source whose line stays asserted and whose registers are   *)
(* left alone is never lost to a context.  A step that stops offering it   *)
(* to a context is that context's own claim, and only of the source it was *)
(* offering; the other context keeps seeing it.                            *)
(***************************************************************************)
ClaimHidesOnlyFromItsContext ==
    [][\A ctx \in Contexts, id \in Sources :
          (/\ id \in Deliverable(ctx)
           /\ id \notin Deliverable(ctx)'
           /\ id \in pending'
           /\ UNCHANGED <<priority, enable, threshold>>)
          => /\ id = plic_best_source(ctx)
             /\ claimed' = [claimed EXCEPT ![ctx] = @ \union {id}]]_plicVars

(***************************************************************************)
(* A context gets a source it is servicing back only through its own       *)
(* completion of that very source: the step that releases id in ctx is a   *)
(* write of ctx's complete register, and no write of the other context's   *)
(* register, and none that names another source, has that effect.  No      *)
(* claim, register write or line change re-offers it early.                *)
(***************************************************************************)
ServicedUntilOwnComplete ==
    [][\A ctx \in Contexts, id \in Sources :
          (id \in claimed[ctx] /\ id \notin claimed'[ctx])
          => /\ \E val \in CompleteVals : Complete(ctx, val)
             /\ \A c \in Contexts, val \in CompleteVals :
                    Complete(c, val) => c = ctx /\ val % 32 = id]_plicVars
=============================================================================
