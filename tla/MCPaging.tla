------------------------------ MODULE MCPaging ------------------------------
(***************************************************************************)
(* Models of Paging for TLC: a directory of two entries with tables of two *)
(* pages, four values.                                                     *)
(***************************************************************************)
EXTENDS Paging

I(op, rd, rs1, rs2) == [op |-> op, rd |-> rd, rs1 |-> rs1, rs2 |-> rs2]

\* Programs over pages 1 and 3 that start in page 0: a load's destination is
\* not its base register.  The last but one stores into its own code page; the
\* empty one leaves the page tables to the kernel.
RetryablePrograms ==
    {<<I("sw", "x1", "x1", "x2"), I("lw", "x3", "x1", "x1"), I("sw", "x1", "x2", "x3")>>,
     <<I("lw", "x3", "x1", "x1"), I("lw", "x1", "x2", "x1"), I("sw", "x1", "x3", "x2")>>,
     <<I("sw", "x1", "x3", "x1"), I("lw", "x2", "x3", "x1")>>,
     <<>>}

\* Programs that cannot be retried: a list walk, whose load overwrites its own
\* base register, and an AMO on a page that is only readable, which overwrites
\* its own operand before the store faults.
ChasePrograms == {<<I("lw", "x1", "x1", "x1"), I("lw", "x1", "x1", "x1")>>}
AmoPrograms == {<<I("lw", "x3", "x1", "x1"), I("amoadd", "x2", "x1", "x2")>>}
UnretryablePrograms == ChasePrograms \union AmoPrograms

NoPtes == {}

\* Directory entries: absent, a pointer, and leaves of every kind of defect at
\* an aligned and at a misaligned ppn.
MCDirPtes ==
    {[flags |-> f, ppn |-> p] :
        f \in {{}, {"V"}} \union {{"V", "R", "W", "X", "U", "A", "D"} \ lost :
                                     lost \in SUBSET {"R", "W", "X", "U", "D"}}
              \union {{"V", "R", "W"}, {"R", "W", "A", "D"}},
        p \in {1, 2}}
MCLeafPtes == [flags : SUBSET Flags, ppn : {1}]
=============================================================================
