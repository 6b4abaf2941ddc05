------------------------------ MODULE Triggers ------------------------------
(***************************************************************************)
(* The Sdtrig breakpoint triggers (src/src/extension/sdtrig_extension.c):  *)
(* a few slots that match an address against the fetches, loads and stores *)
(* of the hart, behind the tselect window.  A trigger file is the record   *)
(* of the module's static variables; tdata1 is the set of its 1 bits, its  *)
(* type, action, chain and match fields reduced to whether each has the    *)
(* one value trigger_matches accepts.                                      *)
(***************************************************************************)
EXTENDS Privileged

CONSTANT NumTriggers    \* 4: SDTRIG_NUM_TRIGGERS

ASSUME NumTriggersAssumption == NumTriggers \in Nat \ {0}

Slots == 0 .. NumTriggers - 1
Accesses == {"execute", "store", "load"}
\* "match2": type 2; "exception": action 0; "chain" and "mask" as written.
Tdata1Bits == Accesses \union {"match2", "exception", "chain", "mask", "M", "S", "U", "dmode"}

TriggerFile == [tdata1 : [Slots -> SUBSET Tdata1Bits], tdata2 : [Slots -> Addr],
                tselect : Slots, mte : BOOLEAN]

init_sdtrig_csr_table ==
    [tdata1 |-> [i \in Slots |-> {}], tdata2 |-> [i \in Slots |-> 0],
     tselect |-> 0, mte |-> FALSE]

set_tselect(t, val) ==
    [t EXCEPT !.tselect = IF val >= NumTriggers THEN NumTriggers - 1 ELSE val]

set_tdata1(t, bits) == [t EXCEPT !.tdata1[t.tselect] = bits \ {"dmode"}]
set_tdata2(t, addr) == [t EXCEPT !.tdata2[t.tselect] = addr]
set_tcontrol(t, on) == [t EXCEPT !.mte = on]

\* The mode bits of the trigger against the current privilege; M-mode also
\* needs tcontrol.mte.
ModeEnabled(t, i, prv) ==
    \/ prv = PRV_MACHINE /\ "M" \in t.tdata1[i] /\ t.mte
    \/ prv = PRV_SUPERVISOR /\ "S" \in t.tdata1[i]
    \/ prv = PRV_USER /\ "U" \in t.tdata1[i]

trigger_matches(t, i, prv, addr, access) ==
    /\ {"match2", "exception", access} \subseteq t.tdata1[i]
    /\ {"chain", "mask"} \cap t.tdata1[i] = {}
    /\ ModeEnabled(t, i, prv)
    /\ t.tdata2[i] = addr

\* The first matching slot raises the breakpoint; which one makes no
\* difference to the trap.
sdtrig_check(t, prv, addr, access) ==
    \E i \in Slots : trigger_matches(t, i, prv, addr, access)
=============================================================================
