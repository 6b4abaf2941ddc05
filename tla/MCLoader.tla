------------------------------ MODULE MCLoader ------------------------------
(***************************************************************************)
(* A model of Loader for TLC: 8 bytes of memory, and every placement of    *)
(* program, tree, initrd and up to two extra images of one or two bytes.   *)
(***************************************************************************)
EXTENDS Loader

Image(base, len) == [base |-> base, len |-> len]
Images(lens) == {Image(b, n) : b \in {0, 2, 3, 5, 7}, n \in lens}
None == Image(0, 0)

MCCommandLines ==
    {[program |-> p, initrd |-> i, fdt |-> f, extras |-> x] :
        p \in Images({1, 2}) \union {Image(0, Unmapped)},
        i \in Images({2}) \union {None, Image(4, Unmapped)}, f \in {-1, 0, 2, 4, 6, 7},
        x \in {<<>>, <<Image(4, Unmapped)>>} \union {<<e>> : e \in Images({2})}}
    \union {[program |-> Image(0, 1), initrd |-> Image(6, 1), fdt |-> f, extras |-> <<x, y>>] :
        f \in {-1, 2}, x \in Images({1}), y \in Images({1})}

-----------------------------------------------------------------------------
\* "Ranges are bounds- and overlap-checked": also those of the extra images
\* (MCLoaderExtra.cfg).
ExtrasOverlapNothing ==
    stage = "running" =>
        /\ \A a \in Bytes(cmd.program) : memory[a] = "program"
        /\ HasInitrd => \A a \in Bytes(cmd.initrd) : memory[a] = "initrd"

\* The memory the tree offers the guest exists (MCLoaderRam.cfg).
OfferedRamExists ==
    \A v \in Values(Read(tree), <<"/", "memory">>, "reg") : v[2] + v[4] <= MEM_SIZE
=============================================================================
