------------------------------- MODULE Loader -------------------------------
(***************************************************************************)
(* How main (src/src/emu.c) fills memory before the guest runs: the        *)
(* program, the device tree, the initrd the tree announces, the extra      *)
(* images of --load, in that order, each placed where the command line     *)
(* asks, with a fatal error for the conflicts it looks for.  Memory holds, *)
(* per byte, the image the byte came from.                                 *)
(*                                                                         *)
(* A command line is the record of program, initrd and extras, images      *)
(* [base, len] (initrd.len = 0: no --initrd; len = Unmapped: a file that   *)
(* cannot be mapped), and fdt, the address of --fdt or -1.  FdtSize is the *)
(* size of the tree.  Addresses are uint32_t, their sums size_t, so they   *)
(* do not wrap.                                                            *)
(***************************************************************************)
EXTENDS DeviceTree, FiniteSets

CONSTANTS
    MEM_SIZE,           \* bytes of main memory
    FdtSize,            \* bytes of the device tree
    CommandLines        \* the command lines main may be given

Unmapped == -1
ImageType == [base : Nat, len : Nat \union {Unmapped}]
CommandLine == [program : ImageType, initrd : ImageType,
                fdt : Nat \union {-1}, extras : Seq(ImageType)]

ASSUME LoaderAssumption ==
    /\ MEM_SIZE \in Nat /\ FdtSize \in Nat \ {0}
    /\ CommandLines \subseteq CommandLine

VARIABLES
    cmd,                \* the command line
    loaded,             \* how many extra images are in memory
    stage,              \* where main is; "fatal" and "running" are final
    memory,             \* address -> image
    tree,               \* the structure block in memory, << >> if none
    regs                \* a0, a1 and pc as the guest finds them

vars == <<cmd, stage, loaded, memory, tree, regs>>

Fdt == [base |-> cmd.fdt, len |-> FdtSize]
NoFdt == cmd.fdt = -1
HasInitrd == cmd.initrd.len # 0

Bytes(image) == image.base .. image.base + image.len - 1
EndOf(image) == image.base + image.len

\* map_file has no mapping for the file, or its image does not fit.
Unloadable(image) == image.len = Unmapped \/ EndOf(image) > MEM_SIZE

\* memcpy into main memory; bytes past its end are outside the model.
Copied(image, name) ==
    [a \in DOMAIN memory |-> IF a \in Bytes(image) THEN name ELSE memory[a]]

MutOverlapsTouching(x, y) == x.base <= EndOf(y) /\ y.base <= EndOf(x)

\* `a0 < b1 && b0 < a1`.
Overlaps(x, y) == x.base < EndOf(y) /\ y.base < EndOf(x)

Fails == stage' = "fatal" /\ UNCHANGED <<cmd, loaded, memory, tree, regs>>

-----------------------------------------------------------------------------
Init ==
    /\ cmd \in CommandLines
    /\ stage = "program"
    /\ loaded = 0
    /\ memory = [a \in 0 .. MEM_SIZE - 1 |-> "none"]
    /\ tree = <<>>
    /\ regs = [a0 |-> 0, a1 |-> 0, pc |-> 0]

LoadProgram ==
    /\ stage = "program"
    /\ \/ Unloadable(cmd.program) /\ Fails
       \/ /\ ~Unloadable(cmd.program)
          /\ memory' = Copied(cmd.program, "program")
          /\ stage' = "map_initrd"
          /\ UNCHANGED <<cmd, loaded, tree, regs>>

\* The initrd is only measured here: the tree needs its end.
MapInitrd ==
    /\ stage = "map_initrd"
    /\ \/ HasInitrd /\ Unloadable(cmd.initrd) /\ Fails
       \/ /\ HasInitrd => ~Unloadable(cmd.initrd)
          /\ stage' = "fdt"
          /\ UNCHANGED <<cmd, loaded, memory, tree, regs>>

\* A tree anywhere below the end of the program counts as a conflict.
FdtMisplaced == EndOf(Fdt) > MEM_SIZE \/ cmd.fdt < EndOf(cmd.program)

\* The tree is written first and its place checked afterwards.
BuildFdt ==
    /\ stage = "fdt"
    /\ \/ NoFdt /\ stage' = "initrd" /\ UNCHANGED <<cmd, loaded, memory, tree, regs>>
       \/ /\ ~NoFdt
          /\ LET b == fdt_build_riscvemu(IF HasInitrd THEN cmd.initrd.base ELSE 0,
                                         IF HasInitrd THEN EndOf(cmd.initrd) ELSE 0)
             IN  /\ memory' = Copied(Fdt, "fdt")
                 /\ tree' = b.out
                 /\ IF b.h = 0 \/ FdtMisplaced THEN stage' = "fatal" /\ regs' = regs
                    ELSE stage' = "initrd" /\ regs' = [regs EXCEPT !.a0 = 0, !.a1 = cmd.fdt]
          /\ UNCHANGED <<cmd, loaded>>

MutInitrdOnlyProgram == Overlaps(cmd.initrd, cmd.program)

InitrdMisplaced ==
    (~NoFdt /\ Overlaps(cmd.initrd, Fdt)) \/ Overlaps(cmd.initrd, cmd.program)

CopyInitrd ==
    /\ stage = "initrd"
    /\ \/ ~HasInitrd /\ stage' = "extras" /\ UNCHANGED <<cmd, loaded, memory, tree, regs>>
       \/ HasInitrd /\ InitrdMisplaced /\ Fails
       \/ /\ HasInitrd /\ ~InitrdMisplaced
          /\ memory' = Copied(cmd.initrd, "initrd")
          /\ stage' = "extras"
          /\ UNCHANGED <<cmd, loaded, tree, regs>>

\* The extra images are held against the end of memory and the tree only.
LoadExtra ==
    /\ stage = "extras"
    /\ loaded < Len(cmd.extras)
    /\ LET image == cmd.extras[loaded + 1]
       IN  \/ Unloadable(image) /\ Fails
           \/ ~NoFdt /\ ~Unloadable(image) /\ Overlaps(image, Fdt) /\ Fails
           \/ /\ ~Unloadable(image) /\ ~(~NoFdt /\ Overlaps(image, Fdt))
              /\ memory' = Copied(image, "extra")
              /\ loaded' = loaded + 1
              /\ UNCHANGED <<cmd, stage, tree, regs>>

Start ==
    /\ stage = "extras"
    /\ loaded = Len(cmd.extras)
    /\ stage' = "running"
    /\ regs' = [regs EXCEPT !.pc = cmd.program.base]
    /\ UNCHANGED <<cmd, loaded, memory, tree>>

Next ==
    \/ LoadProgram
    \/ MapInitrd
    \/ BuildFdt
    \/ CopyInitrd
    \/ LoadExtra
    \/ Start

Spec == Init /\ [][Next]_vars /\ WF_vars(Next)

-----------------------------------------------------------------------------
\* Properties.

Extras == {cmd.extras[i] : i \in 1 .. Len(cmd.extras)}

\* An image is whole in memory but for the bytes an extra image was asked for.
Intact(image, name) ==
    /\ Bytes(image) \subseteq DOMAIN memory
    /\ \A a \in Bytes(image) :
          memory[a] = name \/ (memory[a] = "extra" /\ \E x \in Extras : a \in Bytes(x))

\* When the guest starts, the program is at its pc, a1 points at a device tree
\* no later image has touched, and the initrd is whole.  Each of main's overlap
\* checks, and its order of loading, is needed for this.
HandoffSound ==
    stage = "running" =>
        /\ regs.pc = cmd.program.base /\ Intact(cmd.program, "program")
        /\ ~NoFdt => /\ regs.a1 = cmd.fdt
                     /\ \A a \in Bytes(Fdt) : a \in DOMAIN memory /\ memory[a] = "fdt"
        /\ HasInitrd => Intact(cmd.initrd, "initrd")

\* main refuses a command line only for a file it cannot map, an image that does
\* not fit or that shares a byte with another, or a device tree below the
\* program; and a command line without such a conflict reaches the guest.
Conflict ==
    LET placed == <<cmd.program>> \o (IF NoFdt THEN <<>> ELSE <<Fdt>>)
                    \o (IF HasInitrd THEN <<cmd.initrd>> ELSE <<>>) \o cmd.extras
    IN  \/ \E i \in DOMAIN placed :
             \/ placed[i].len = Unmapped \/ ~(Bytes(placed[i]) \subseteq DOMAIN memory)
             \/ \E j \in DOMAIN placed \ {i} : Bytes(placed[i]) \cap Bytes(placed[j]) # {}
        \/ ~NoFdt /\ cmd.fdt < EndOf(cmd.program)

RefusedOnlyForConflict == ~Conflict ~> stage = "running"

\* The tree can be read back: every node is closed, a cell count is one cell,
\* every reg and initrd address has the number of cells its parent's counts ask
\* for, every interrupt leads to the phandle of an interrupt controller that has
\* the line, and the initrd is announced with its exact range (but for one at
\* address 0, which the tree does not announce).
TreeReadable ==
    stage = "initrd" /\ ~NoFdt => \A r \in {Read(tree)} :
        LET Controllers == {n \in r.nodes : Values(r, n, "interrupt-controller") # {}}
            Handles(h) == {n \in Controllers : Values(r, n, "phandle") = {<<h>>}}
            Address(n) == Cell(r, n, "#address-cells", 2)
            Size(n) == Cell(r, n, "#size-cells", 1)
            Announced == Values(r, <<"/", "chosen">>, "linux,initrd-start")
                           \X Values(r, <<"/", "chosen">>, "linux,initrd-end")
        IN  /\ r.open = <<>>
            /\ Announced = IF HasInitrd /\ cmd.initrd.base # 0
                           THEN {<<<<0, cmd.initrd.base>>, <<0, EndOf(cmd.initrd)>>>>}
                           ELSE {}
            /\ \A n \in r.nodes :
                 /\ \A c \in {"#address-cells", "#size-cells", "#interrupt-cells", "phandle"} :
                       \A v \in Values(r, n, c) : Len(v) = 1
                 /\ \A v \in Values(r, n, "reg") :
                       Len(v) = Address(Front(n)) + Size(Front(n))
                 /\ \A c \in {"linux,initrd-start", "linux,initrd-end"} :
                       \A v \in Values(r, n, c) : Len(v) = Address(Front(n))
                 /\ \A v \in Values(r, n, "interrupts-extended") :
                       \A k \in {1, 3} : Cardinality(Handles(v[k])) = 1
                 /\ \A v \in Values(r, n, "interrupts") :
                       \E c \in Handles(Cell(r, n, "interrupt-parent", 0)) :
                          /\ Len(v) = Cell(r, c, "#interrupt-cells", 0)
                          /\ v[1] <= Cell(r, c, "riscv,ndev", 0)
=============================================================================
