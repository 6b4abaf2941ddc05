---------------------------- MODULE HostProofs -----------------------------
(***************************************************************************)
(* Proofs about the host's side of the emulator: what main hands to the    *)
(* guest, for every size of memory and of the tree and every command line; *)
(* the detector at the end of the run loop, for every ring, limit and      *)
(* program; and what the guest receives of the user's typing, for every    *)
(* size and cutting of the batches.                                        *)
(***************************************************************************)
EXTENDS Loader, SpinDetector, Console, TLAPS, SequenceTheorems, WellFoundedInduction,
        FiniteSetTheorems

-----------------------------------------------------------------------------
(***************************************************************************)
(* The loader.  The invariant follows main's stages: each image, once      *)
(* copied, is whole, and the checks passed so far keep every later copy    *)
(* off it, but for the bytes an extra image was asked for.                 *)
(***************************************************************************)

\* Main memory, and what a byte of it can come from.
Addresses == 0 .. MEM_SIZE - 1
Names == {"none", "program", "fdt", "initrd", "extra"}

\* The type invariant.
TypeOK ==
    /\ cmd \in CommandLine
    /\ memory \in [Addresses -> Names]
    /\ loaded \in 0 .. Len(cmd.extras)
    /\ regs \in [a0 : {0}, a1 : Nat, pc : Nat]
    /\ stage \in {"program", "map_initrd", "fdt", "initrd", "extras", "running", "fatal"}

\* The image is in memory, byte for byte.
Whole(image, name) ==
    /\ Bytes(image) \subseteq Addresses
    /\ \A a \in Bytes(image) : memory[a] = name

\* The extra images may have taken bytes of it.
WholeOrExtra(image, name) ==
    /\ Bytes(image) \subseteq Addresses
    /\ \A a \in Bytes(image) :
          memory[a] = name \/ (memory[a] = "extra" /\ \E x \in Extras : a \in Bytes(x))

\* Past the tree's checks.
FdtPlaced ==
    ~NoFdt => /\ ~FdtMisplaced
              /\ regs.a1 = cmd.fdt
              /\ Whole(Fdt, "fdt")

\* The inductive invariant.
LInv ==
    /\ TypeOK
    /\ stage \in {"map_initrd", "fdt"} => Whole(cmd.program, "program")
    /\ stage = "fdt" => (HasInitrd => ~Unloadable(cmd.initrd))
    /\ stage = "initrd" =>
          /\ Whole(cmd.program, "program")
          /\ HasInitrd => ~Unloadable(cmd.initrd)
          /\ FdtPlaced
    /\ stage \in {"extras", "running"} =>
          /\ WholeOrExtra(cmd.program, "program")
          /\ HasInitrd => WholeOrExtra(cmd.initrd, "initrd")
          /\ FdtPlaced
    /\ stage = "running" => regs.pc = cmd.program.base

\* The types of what a command line asks for.
LEMMA Images ==
    ASSUME TypeOK
    PROVE  /\ cmd.program \in ImageType /\ cmd.initrd \in ImageType
           /\ cmd.extras \in Seq(ImageType) /\ cmd.fdt \in Nat \union {-1}
           /\ ~NoFdt => Fdt \in ImageType /\ Fdt.base = cmd.fdt /\ Fdt.len = FdtSize
           /\ MEM_SIZE \in Nat /\ FdtSize \in Nat \ {0}
  BY LoaderAssumption DEF TypeOK, CommandLine, Fdt, NoFdt, ImageType

\* An image that fits is copied whole, and disturbs only the bytes it takes.
LEMMA CopyWhole ==
    ASSUME TypeOK, NEW image \in ImageType, NEW name \in Names, ~Unloadable(image)
    PROVE  /\ Copied(image, name) \in [Addresses -> Names]
           /\ Bytes(image) \subseteq Addresses
           /\ \A a \in Addresses :
                 Copied(image, name)[a] = IF a \in Bytes(image) THEN name ELSE memory[a]
  <1>1. DOMAIN memory = Addresses
    BY DEF TypeOK
  <1>2. Copied(image, name) \in [Addresses -> Names]
    BY <1>1 DEF Copied, TypeOK
  <1>3. image.base \in Nat /\ image.len \in Nat /\ image.base + image.len <= MEM_SIZE
    BY LoaderAssumption DEF Unloadable, ImageType, EndOf, Unmapped
  <1>4. Bytes(image) \subseteq Addresses
    BY <1>3, LoaderAssumption DEF Bytes, Addresses
  <1> QED
    BY <1>1, <1>2, <1>4 DEF Copied

\* Images that Overlaps clears share no byte.
LEMMA NoSharedByte ==
    ASSUME NEW x \in ImageType, NEW y \in ImageType, ~Overlaps(x, y)
    PROVE  Bytes(x) \intersect Bytes(y) = {}
  BY DEF Overlaps, EndOf, Bytes, ImageType, Unmapped

\* The invariant holds before anything is loaded ...
LEMMA InitLInv == Init => LInv
  <1> SUFFICES ASSUME Init PROVE LInv
    OBVIOUS
  <1>1. cmd \in CommandLine
    BY LoaderAssumption DEF Init
  <1>2. Len(cmd.extras) \in Nat
    BY <1>1 DEF CommandLine
  <1>3. TypeOK
    BY <1>1, <1>2 DEF Init, TypeOK, Addresses, Names
  <1> QED
    BY <1>3 DEF Init, LInv

\* ... and every stage of main preserves it.
LEMMA NextLInv == LInv /\ [Next]_vars => LInv'
  <1> SUFFICES ASSUME LInv, [Next]_vars PROVE LInv'
    OBVIOUS
  <1>t. TypeOK
    BY DEF LInv
  <1>i. /\ cmd.program \in ImageType /\ cmd.initrd \in ImageType
        /\ cmd.extras \in Seq(ImageType) /\ cmd.fdt \in Nat \union {-1}
        /\ ~NoFdt => Fdt \in ImageType /\ Fdt.base = cmd.fdt /\ Fdt.len = FdtSize
        /\ MEM_SIZE \in Nat /\ FdtSize \in Nat \ {0}
    BY <1>t, Images
  <1>f. ASSUME Fails PROVE LInv'
    BY <1>f, <1>t DEF Fails, LInv, TypeOK
  <1>1. CASE LoadProgram
    <2>1. CASE Unloadable(cmd.program) /\ Fails
      BY <1>f, <2>1
    <2>2. CASE /\ ~Unloadable(cmd.program) /\ memory' = Copied(cmd.program, "program")
               /\ stage' = "map_initrd" /\ UNCHANGED <<cmd, loaded, tree, regs>>
      <3>1. /\ memory' \in [Addresses -> Names] /\ Bytes(cmd.program) \subseteq Addresses
            /\ \A a \in Addresses :
                  memory'[a] = IF a \in Bytes(cmd.program) THEN "program" ELSE memory[a]
        BY <1>t, <1>i, <2>2, CopyWhole DEF Names
      <3>2. TypeOK'
        BY <1>t, <2>2, <3>1 DEF TypeOK
      <3>3. Whole(cmd.program, "program")'
        BY <2>2, <3>1 DEF Whole, Bytes
      <3> QED
        BY <2>2, <3>2, <3>3 DEF LInv
    <2> QED
      BY <1>1, <2>1, <2>2 DEF LoadProgram
  <1>2. CASE MapInitrd
    <2>1. CASE HasInitrd /\ Unloadable(cmd.initrd) /\ Fails
      BY <1>f, <2>1
    <2>2. CASE /\ HasInitrd => ~Unloadable(cmd.initrd)
               /\ stage' = "fdt" /\ UNCHANGED <<cmd, loaded, memory, tree, regs>>
      <3>1. Whole(cmd.program, "program")
        BY <1>2 DEF MapInitrd, LInv
      <3>2. Whole(cmd.program, "program")' /\ (HasInitrd => ~Unloadable(cmd.initrd))'
        BY <2>2, <3>1 DEF Whole, Bytes, HasInitrd, Unloadable, EndOf
      <3>3. TypeOK'
        BY <1>t, <2>2 DEF TypeOK
      <3> QED
        BY <2>2, <3>2, <3>3 DEF LInv
    <2> QED
      BY <1>2, <2>1, <2>2 DEF MapInitrd
  <1>3. CASE BuildFdt
    <2>0. stage = "fdt" /\ Whole(cmd.program, "program")
          /\ (HasInitrd => ~Unloadable(cmd.initrd))
      BY <1>3 DEF BuildFdt, LInv
    <2>1. CASE NoFdt /\ stage' = "initrd" /\ UNCHANGED <<cmd, loaded, memory, tree, regs>>
      <3>1. TypeOK'
        BY <1>t, <2>1 DEF TypeOK
      <3>2. Whole(cmd.program, "program")' /\ (HasInitrd => ~Unloadable(cmd.initrd))'
        BY <2>0, <2>1 DEF Whole, Bytes, HasInitrd, Unloadable, EndOf
      <3>3. FdtPlaced'
        BY <2>1 DEF FdtPlaced, NoFdt
      <3> QED
        BY <2>1, <3>1, <3>2, <3>3 DEF LInv
    <2>2. CASE ~NoFdt
      <3>1. /\ memory' = Copied(Fdt, "fdt") /\ UNCHANGED <<cmd, loaded>>
            /\ \/ stage' = "fatal" /\ regs' = regs
               \/ /\ ~FdtMisplaced /\ stage' = "initrd"
                  /\ regs' = [regs EXCEPT !.a0 = 0, !.a1 = cmd.fdt]
        BY <1>3, <2>2 DEF BuildFdt
      <3>2. memory' \in [Addresses -> Names]
        BY <1>t, <3>1 DEF Copied, TypeOK, Names
      <3>3. CASE stage' = "fatal" /\ regs' = regs
        BY <1>t, <3>1, <3>2, <3>3 DEF LInv, TypeOK
      <3>4. CASE /\ ~FdtMisplaced /\ stage' = "initrd"
                 /\ regs' = [regs EXCEPT !.a0 = 0, !.a1 = cmd.fdt]
        <4>1. ~Unloadable(Fdt) /\ EndOf(cmd.program) <= cmd.fdt
          BY <1>i, <2>2, <3>4 DEF FdtMisplaced, Unloadable, Unmapped, EndOf, ImageType, NoFdt
        <4>2. /\ Bytes(Fdt) \subseteq Addresses
              /\ \A a \in Addresses :
                    memory'[a] = IF a \in Bytes(Fdt) THEN "fdt" ELSE memory[a]
          BY <1>t, <1>i, <2>2, <3>1, <4>1, CopyWhole DEF Names
        <4>3. ~Overlaps(cmd.program, Fdt)
          BY <1>i, <2>2, <4>1 DEF Overlaps, EndOf, ImageType, Unmapped, NoFdt
        <4>4. Bytes(cmd.program) \intersect Bytes(Fdt) = {}
          BY <1>i, <2>2, <4>3, NoSharedByte
        <4>5. \A a \in Bytes(cmd.program) : memory'[a] = "program"
          BY <2>0, <4>2, <4>4 DEF Whole
        <4>6. Whole(cmd.program, "program")'
          BY <2>0, <3>1, <4>5 DEF Whole, Bytes
        <4>7. (HasInitrd => ~Unloadable(cmd.initrd))'
          BY <2>0, <3>1 DEF HasInitrd, Unloadable, EndOf
        <4>8. regs' \in [a0 : {0}, a1 : Nat, pc : Nat] /\ regs'.a1 = cmd.fdt
          BY <1>t, <1>i, <2>2, <3>4 DEF TypeOK, NoFdt
        <4>9. Fdt' = Fdt /\ NoFdt' = NoFdt /\ FdtMisplaced' = FdtMisplaced
          BY <3>1 DEF Fdt, NoFdt, FdtMisplaced, EndOf
        <4>10. Whole(Fdt, "fdt")'
          BY <4>2, <4>9 DEF Whole, Bytes
        <4>11. FdtPlaced'
          BY <3>1, <3>4, <4>8, <4>9, <4>10 DEF FdtPlaced
        <4>12. TypeOK'
          BY <1>t, <3>1, <3>2, <3>4, <4>8 DEF TypeOK
        <4> QED
          BY <3>4, <4>6, <4>7, <4>11, <4>12 DEF LInv
      <3> QED
        BY <3>1, <3>3, <3>4
    <2> QED
      BY <1>3, <2>1, <2>2 DEF BuildFdt
  <1>4. CASE CopyInitrd
    <2>0. stage = "initrd" /\ Whole(cmd.program, "program")
          /\ (HasInitrd => ~Unloadable(cmd.initrd)) /\ FdtPlaced
      BY <1>4 DEF CopyInitrd, LInv
    <2>1. CASE ~HasInitrd /\ stage' = "extras" /\ UNCHANGED <<cmd, loaded, memory, tree, regs>>
      <3>1. TypeOK'
        BY <1>t, <2>1 DEF TypeOK
      <3>2. WholeOrExtra(cmd.program, "program")'
        BY <2>0, <2>1 DEF Whole, WholeOrExtra, Bytes
      <3>3. FdtPlaced'
        BY <2>0, <2>1 DEF FdtPlaced, NoFdt, Fdt, FdtMisplaced, EndOf, Whole, Bytes
      <3>4. ~HasInitrd'
        BY <2>1 DEF HasInitrd
      <3> QED
        BY <2>1, <3>1, <3>2, <3>3, <3>4 DEF LInv
    <2>2. CASE HasInitrd /\ InitrdMisplaced /\ Fails
      BY <1>f, <2>2
    <2>3. CASE /\ HasInitrd /\ ~InitrdMisplaced /\ memory' = Copied(cmd.initrd, "initrd")
               /\ stage' = "extras" /\ UNCHANGED <<cmd, loaded, tree, regs>>
      <3>1. /\ memory' \in [Addresses -> Names] /\ Bytes(cmd.initrd) \subseteq Addresses
            /\ \A a \in Addresses :
                  memory'[a] = IF a \in Bytes(cmd.initrd) THEN "initrd" ELSE memory[a]
        BY <1>t, <1>i, <2>0, <2>3, CopyWhole DEF Names
      <3>2. TypeOK'
        BY <1>t, <2>3, <3>1 DEF TypeOK
      <3>3. Bytes(cmd.initrd) \intersect Bytes(cmd.program) = {}
        BY <1>i, <2>3, NoSharedByte DEF InitrdMisplaced
      <3>4. ~NoFdt => Bytes(cmd.initrd) \intersect Bytes(Fdt) = {}
        BY <1>i, <2>3, NoSharedByte DEF InitrdMisplaced
      <3>5. \A a \in Bytes(cmd.program) : memory'[a] = "program"
        BY <2>0, <3>1, <3>3 DEF Whole
      <3>6. ~NoFdt => \A a \in Bytes(Fdt) : memory'[a] = "fdt"
        BY <2>0, <3>1, <3>4 DEF Whole, FdtPlaced
      <3>7. WholeOrExtra(cmd.program, "program")'
        BY <2>0, <2>3, <3>5 DEF Whole, WholeOrExtra, Bytes
      <3>8. WholeOrExtra(cmd.initrd, "initrd")'
        BY <2>3, <3>1 DEF WholeOrExtra, Bytes
      <3>9. Fdt' = Fdt /\ NoFdt' = NoFdt /\ FdtMisplaced' = FdtMisplaced
        BY <2>3 DEF Fdt, NoFdt, FdtMisplaced, EndOf
      <3>10. FdtPlaced'
        BY <2>0, <2>3, <3>6, <3>9 DEF FdtPlaced, Whole, Bytes
      <3> QED
        BY <2>3, <3>2, <3>7, <3>8, <3>10 DEF LInv
    <2> QED
      BY <1>4, <2>1, <2>2, <2>3 DEF CopyInitrd
  <1>5. CASE LoadExtra
    <2> DEFINE image == cmd.extras[loaded + 1]
    <2>0. /\ stage = "extras" /\ loaded < Len(cmd.extras)
          /\ WholeOrExtra(cmd.program, "program")
          /\ HasInitrd => WholeOrExtra(cmd.initrd, "initrd")
          /\ FdtPlaced
      BY <1>5 DEF LoadExtra, LInv
    <2>1. Len(cmd.extras) \in Nat /\ loaded + 1 \in 1 .. Len(cmd.extras)
      BY <1>t, <1>i, <2>0 DEF TypeOK
    <2>2. image \in ImageType /\ image \in Extras
      BY <1>i, <2>1 DEF Extras
    <2> HIDE DEF image
    <2>3. CASE Fails
      BY <1>f, <2>3
    <2>4. CASE /\ ~Unloadable(image) /\ ~(~NoFdt /\ Overlaps(image, Fdt))
               /\ memory' = Copied(image, "extra") /\ loaded' = loaded + 1
               /\ UNCHANGED <<cmd, stage, tree, regs>>
      <3>1. /\ memory' \in [Addresses -> Names] /\ Bytes(image) \subseteq Addresses
            /\ \A a \in Addresses :
                  memory'[a] = IF a \in Bytes(image) THEN "extra" ELSE memory[a]
        BY <1>t, <1>i, <2>2, <2>4, CopyWhole DEF Names
      <3>2. TypeOK'
        BY <1>t, <2>1, <2>4, <3>1 DEF TypeOK
      <3>3. ASSUME NEW x \in ImageType, NEW n \in Names, WholeOrExtra(x, n)
            PROVE  \A a \in Bytes(x) : \/ memory'[a] = n
                                       \/ memory'[a] = "extra" /\ \E y \in Extras : a \in Bytes(y)
        BY <2>2, <3>1, <3>3 DEF WholeOrExtra
      <3>e. Extras' = Extras
        BY <2>4 DEF Extras
      <3>4. WholeOrExtra(cmd.program, "program")'
        <4>1. \A a \in Bytes(cmd.program) :
                 \/ memory'[a] = "program"
                 \/ memory'[a] = "extra" /\ \E y \in Extras : a \in Bytes(y)
          BY <1>i, <2>0, <3>3 DEF Names
        <4> QED
          BY <2>0, <2>4, <3>e, <4>1 DEF WholeOrExtra, Bytes
      <3>5. (HasInitrd => WholeOrExtra(cmd.initrd, "initrd"))'
        <4> SUFFICES ASSUME HasInitrd PROVE WholeOrExtra(cmd.initrd, "initrd")'
          BY <2>4 DEF HasInitrd
        <4>1. \A a \in Bytes(cmd.initrd) :
                 \/ memory'[a] = "initrd"
                 \/ memory'[a] = "extra" /\ \E y \in Extras : a \in Bytes(y)
          BY <1>i, <2>0, <3>3 DEF Names
        <4> QED
          BY <2>0, <2>4, <3>e, <4>1 DEF WholeOrExtra, Bytes
      <3>6. ~NoFdt => Bytes(image) \intersect Bytes(Fdt) = {}
        BY <1>i, <2>2, <2>4, NoSharedByte
      <3>7. ~NoFdt => \A a \in Bytes(Fdt) : memory'[a] = "fdt"
        BY <2>0, <3>1, <3>6 DEF Whole, FdtPlaced
      <3>8. Fdt' = Fdt /\ NoFdt' = NoFdt /\ FdtMisplaced' = FdtMisplaced
        BY <2>4 DEF Fdt, NoFdt, FdtMisplaced, EndOf
      <3>9. FdtPlaced'
        BY <2>0, <2>4, <3>7, <3>8 DEF FdtPlaced, Whole, Bytes
      <3> QED
        BY <2>0, <2>4, <3>2, <3>4, <3>5, <3>9 DEF LInv
    <2> QED
      BY <1>5, <2>3, <2>4 DEF LoadExtra, image
  <1>6. CASE Start
    <2>0. /\ stage = "extras" /\ stage' = "running"
          /\ regs' = [regs EXCEPT !.pc = cmd.program.base]
          /\ UNCHANGED <<cmd, loaded, memory, tree>>
      BY <1>6 DEF Start
    <2>1. /\ WholeOrExtra(cmd.program, "program")
          /\ HasInitrd => WholeOrExtra(cmd.initrd, "initrd")
          /\ FdtPlaced
      BY <2>0 DEF LInv
    <2>2. cmd.program.base \in Nat
      BY <1>i DEF ImageType
    <2>3. /\ regs' \in [a0 : {0}, a1 : Nat, pc : Nat] /\ regs'.pc = cmd.program.base
          /\ regs'.a1 = regs.a1
      BY <1>t, <2>0, <2>2 DEF TypeOK
    <2>4. TypeOK'
      BY <1>t, <2>0, <2>3 DEF TypeOK
    <2>5. WholeOrExtra(cmd.program, "program")' /\ (HasInitrd => WholeOrExtra(cmd.initrd, "initrd"))'
      BY <2>0, <2>1 DEF WholeOrExtra, Bytes, Extras, HasInitrd
    <2>6. FdtPlaced'
      BY <2>0, <2>1, <2>3 DEF FdtPlaced, NoFdt, Fdt, FdtMisplaced, EndOf, Whole, Bytes
    <2> QED
      BY <2>0, <2>3, <2>4, <2>5, <2>6 DEF LInv
  <1>7. CASE UNCHANGED vars
    BY <1>7 DEF vars, LInv, TypeOK, Whole, WholeOrExtra, Bytes, Extras, HasInitrd, Unloadable,
                EndOf, FdtPlaced, NoFdt, Fdt, FdtMisplaced
  <1> QED
    BY <1>1, <1>2, <1>3, <1>4, <1>5, <1>6, <1>7 DEF Next

(***************************************************************************)
(* When the guest starts, the program is whole at its pc, a1 points at a   *)
(* device tree no later image has touched, and the initrd is whole, but    *)
(* for the bytes the user gave to an extra image.                          *)
(***************************************************************************)
THEOREM LoaderHandoffSound == Spec => []HandoffSound
  <1>1. LInv => HandoffSound
    <2> SUFFICES ASSUME LInv, stage = "running" PROVE HandoffSound
      BY DEF HandoffSound
    <2>1. DOMAIN memory = Addresses
      BY DEF LInv, TypeOK
    <2> QED
      BY <2>1 DEF LInv, HandoffSound, Intact, WholeOrExtra, FdtPlaced, Whole
  <1> QED
    BY InitLInv, NextLInv, <1>1, PTL DEF Spec

-----------------------------------------------------------------------------
(***************************************************************************)
(* The device tree.  A description is parsed when it opens and closes the  *)
(* same nodes: there is a walk, the path of open nodes after each of its   *)
(* tokens.  Properties are parsed, one parsed description after another    *)
(* is, and a node around one is; so the machine's description is, and what *)
(* the reader collects along the walk is the union of the nodes' rows.     *)
(***************************************************************************)

\* The names of the tree.
NodeNames ==
    {"/", "chosen", "memory", "cpus", "cpu", "interrupt-controller", "soc", "clint", "plic", "uart"}
PropNames ==
    {"#address-cells", "#size-cells", "#interrupt-cells", "phandle", "reg", "interrupt-controller",
     "interrupts-extended", "interrupts", "interrupt-parent", "riscv,ndev", "compatible", "model",
     "device_type", "ranges", "stdout-path", "bootargs", "linux,initrd-start", "linux,initrd-end",
     "timebase-frequency", "mmu-type", "riscv,isa", "riscv,isa-base", "riscv,isa-extensions",
     "clock-frequency", "current-speed", "reg-shift", "reg-io-width"}

\* What the builder writes.
Properties == [tag : {"prop"}, name : PropNames, val : Seq(Nat)]
Tokens == {Begin(x) : x \in NodeNames} \union {End} \union Properties

Path == Seq(NodeNames)

\* The path of open nodes before and after a token.
Moves(p, t, q) ==
    \/ t.tag = "begin" /\ q = Append(p, t.name)
    \/ t.tag = "end" /\ p # <<>> /\ q = Front(p)
    \/ t.tag = "prop" /\ q = p

\* w is the path after each token of s, which leaves no node open that it opened and
\* closes none that it did not.
Walk(s, o, w) ==
    /\ s \in Seq(Tokens) /\ o \in Path
    /\ w \in [0 .. Len(s) -> Path] /\ w[0] = o /\ w[Len(s)] = o
    /\ \A i \in 0 .. Len(s) : Len(w[i]) >= Len(o)
    /\ \A i \in 1 .. Len(s) : Moves(w[i - 1], s[i], w[i])

NodesTo(s, w, n) == {w[i] : i \in {j \in 1 .. n : s[j].tag = "begin"}}
PropsTo(s, w, n) ==
    {[node |-> w[i], name |-> s[i].name, val |-> s[i].val] : i \in {j \in 1 .. n : s[j].tag = "prop"}}

Parsed(s, o, N, P) ==
    \E w : Walk(s, o, w) /\ N = NodesTo(s, w, Len(s)) /\ P = PropsTo(s, w, Len(s))

\* The names that occur.
LEMMA NamesKnown ==
    /\ "/" \in NodeNames /\ "chosen" \in NodeNames
    /\ "memory" \in NodeNames /\ "cpus" \in NodeNames
    /\ "cpu" \in NodeNames /\ "interrupt-controller" \in NodeNames
    /\ "soc" \in NodeNames /\ "clint" \in NodeNames
    /\ "plic" \in NodeNames /\ "uart" \in NodeNames
    /\ "#address-cells" \in PropNames /\ "#size-cells" \in PropNames
    /\ "#interrupt-cells" \in PropNames /\ "phandle" \in PropNames
    /\ "reg" \in PropNames /\ "interrupt-controller" \in PropNames
    /\ "interrupts-extended" \in PropNames /\ "interrupts" \in PropNames
    /\ "interrupt-parent" \in PropNames /\ "riscv,ndev" \in PropNames
    /\ "compatible" \in PropNames /\ "model" \in PropNames
    /\ "device_type" \in PropNames /\ "ranges" \in PropNames
    /\ "stdout-path" \in PropNames /\ "bootargs" \in PropNames
    /\ "linux,initrd-start" \in PropNames /\ "linux,initrd-end" \in PropNames
    /\ "timebase-frequency" \in PropNames /\ "mmu-type" \in PropNames
    /\ "riscv,isa" \in PropNames /\ "riscv,isa-base" \in PropNames
    /\ "riscv,isa-extensions" \in PropNames /\ "clock-frequency" \in PropNames
    /\ "current-speed" \in PropNames /\ "reg-shift" \in PropNames
    /\ "reg-io-width" \in PropNames
  BY DEF NodeNames, PropNames

\* The least-number principle, which stands for induction over a sequence.
LEMMA LeastNat ==
    ASSUME NEW T \in SUBSET Nat, T # {}
    PROVE  \E m \in T : \A n \in T : m <= n
  <1>1. PICK m \in T : \A n \in T : ~(<<n, m>> \in OpToRel(<, Nat))
    BY NatLessThanWellFounded, WFMin
  <1>2. \A n \in T : n \in Nat /\ m \in Nat
    OBVIOUS
  <1>3. \A n \in T : ~(n < m)
    BY <1>1, <1>2 DEF OpToRel
  <1> QED
    BY <1>2, <1>3

\* The only element of a set.
LEMMA TheOne ==
    ASSUME NEW S, NEW a, S = {a}
    PROVE  (CHOOSE v \in S : TRUE) = a
  OBVIOUS

\* Two functions over 0 .. n that start alike and go on alike are equal at n.
LEMMA SameLoop ==
    ASSUME NEW n \in Nat, NEW f, NEW g, f[0] = g[0],
           \A i \in 1 .. n : f[i - 1] = g[i - 1] => f[i] = g[i]
    PROVE  f[n] = g[n]
  <1> DEFINE T == {i \in 0 .. n : f[i] # g[i]}
  <1> SUFFICES ASSUME T # {} PROVE FALSE
    BY DEF T
  <1>1. T \in SUBSET Nat
    OBVIOUS
  <1>2. PICK m \in T : \A k \in T : m <= k
    BY <1>1, LeastNat
  <1>3. m \in 1 .. n /\ m - 1 \in 0 .. n /\ m - 1 < m
    BY <1>2
  <1>4. m - 1 \notin T
    BY <1>2, <1>3
  <1>5. f[m - 1] = g[m - 1]
    BY <1>3, <1>4
  <1> QED
    BY <1>2, <1>3, <1>5

\* A token opens a node, closes one or is a property, never two of these.
LEMMA TokenKinds ==
    ASSUME NEW t \in Tokens
    PROVE  /\ t.tag \in {"begin", "end", "prop"}
           /\ t.tag = "begin" => t = Begin(t.name) /\ t.name \in NodeNames
           /\ t.tag = "end" => t = End
           /\ t.tag = "prop" => t = Prop(t.name, t.val)
  <1>1. CASE \E x \in NodeNames : t = Begin(x)
    BY <1>1 DEF Begin
  <1>2. CASE t = End
    BY <1>2 DEF End
  <1>3. CASE t \in Properties
    BY <1>3 DEF Properties, Prop
  <1> QED
    BY <1>1, <1>2, <1>3 DEF Tokens

\* A description after a first token, prefix by prefix.
LEMMA Prefix ==
    ASSUME NEW S, NEW s \in Seq(S), NEW a \in S
    PROVE  /\ <<a>> \o SubSeq(s, 1, 0) = <<a>>
           /\ <<a>> \o SubSeq(s, 1, Len(s)) = <<a>> \o s
           /\ \A i \in 1 .. Len(s) : <<a>> \o SubSeq(s, 1, i) = Append(<<a>> \o SubSeq(s, 1, i - 1), s[i])
  <1>0. Len(s) \in Nat /\ <<a>> \in Seq(S) /\ Len(<<a>>) = 1
    BY LenProperties
  <1>1. SubSeq(s, 1, 0) = <<>>
    BY SubSeqEmpty
  <1>2. <<a>> \o <<>> = <<a>>
    BY <1>0, ConcatEmptySeq
  <1>3. SubSeq(s, 1, Len(s)) = s
    BY SubSeqFull
  <1>4. ASSUME NEW i \in 1 .. Len(s)
        PROVE  <<a>> \o SubSeq(s, 1, i) = Append(<<a>> \o SubSeq(s, 1, i - 1), s[i])
    <2>1. SubSeq(s, 1, i) = Append(SubSeq(s, 1, i - 1), s[i])
      OBVIOUS
    <2>2. SubSeq(s, 1, i - 1) \in Seq(S) /\ s[i] \in S
      OBVIOUS
    <2> HIDE DEF Front
    <2> QED
      BY <1>0, <2>1, <2>2
  <1> QED
    BY <1>1, <1>2, <1>3, <1>4

\* The path moves by one name at a time.
LEMMA MoveLen ==
    ASSUME NEW p \in Path, NEW q \in Path, NEW t \in Tokens, Moves(p, t, q)
    PROVE  /\ Len(p) \in Nat /\ Len(q) \in Nat
           /\ t.tag = "begin" => Len(q) = Len(p) + 1
           /\ t.tag = "end" => Len(p) > 0 /\ Len(q) = Len(p) - 1
           /\ t.tag = "prop" => Len(q) = Len(p)
  <1>1. Len(p) \in Nat /\ Len(q) \in Nat
    BY LenProperties DEF Path
  <1>2. CASE t.tag = "begin"
    BY <1>1, <1>2, TokenKinds DEF Moves, Path
  <1>3. CASE t.tag = "end"
    <2>1. p # <<>> /\ q = SubSeq(p, 1, Len(p) - 1)
      BY <1>3 DEF Moves, Front
    <2>2. Len(p) > 0
      BY <1>1, <2>1, EmptySeq DEF Path
    <2>3. Len(p) - 1 \in Int /\ \A i \in 1 .. Len(p) - 1 : p[i] \in NodeNames
      BY <1>1, ElementOfSeq DEF Path
    <2>4. Len(SubSeq(p, 1, Len(p) - 1)) = IF 1 <= Len(p) - 1 THEN (Len(p) - 1) - 1 + 1 ELSE 0
      BY <2>3, SubSeqProperties
    <2>5. Len(q) = IF 1 <= Len(p) - 1 THEN (Len(p) - 1) - 1 + 1 ELSE 0
      BY <2>1, <2>4, Zenon
    <2>6. \A a \in Nat : \A b : a > 0 /\ b = (IF 1 <= a - 1 THEN (a - 1) - 1 + 1 ELSE 0) => b = a - 1
      OBVIOUS
    <2>7. Len(q) = Len(p) - 1
      BY <1>1, <2>2, <2>5, <2>6, Zenon
    <2> QED
      BY <1>1, <1>3, <2>2, <2>7
  <1>4. CASE t.tag = "prop"
    BY <1>1, <1>4 DEF Moves
  <1> QED
    BY <1>1, <1>2, <1>3, <1>4, TokenKinds

\* One call of the builder, at a place where the walk is.
LEMMA CallStep ==
    ASSUME NEW out, NEW d \in Nat, NEW e \in Nat, NEW t \in Tokens,
           t.tag = "begin" => e = d + 1,
           t.tag = "end" => d > 0 /\ e = d - 1,
           t.tag = "prop" => e = d
    PROVE  Call([out |-> out, depth |-> d, h |-> 1], t)
             = [out |-> Append(out, t), depth |-> e, h |-> 1]
  <1> DEFINE b == [out |-> out, depth |-> d, h |-> 1]
  <1>0. ASSUME NEW x, NEW y
        PROVE  /\ [b EXCEPT !.out = x] = [out |-> x, depth |-> d, h |-> 1]
               /\ [b EXCEPT !.out = x, !.depth = y] = [out |-> x, depth |-> y, h |-> 1]
    <2>1. [b EXCEPT !.out = x] = [out |-> x, depth |-> d, h |-> 1]
      OBVIOUS
    <2>2. [[out |-> x, depth |-> d, h |-> 1] EXCEPT !.depth = y] = [out |-> x, depth |-> y, h |-> 1]
      OBVIOUS
    <2> QED
      BY <2>1, <2>2
  <1>b. b.out = out /\ b.depth = d /\ b.h = 1
    OBVIOUS
  <1>1. CASE t.tag = "begin"
    <2>1. Call(b, t) = fdt_node_push(b, t.name)
      BY <1>1 DEF Call
    <2> HIDE DEF b
    <2>2. fdt_node_push(b, t.name) = [b EXCEPT !.out = Append(out, Begin(t.name)), !.depth = d + 1]
      BY <1>b DEF fdt_node_push
    <2> QED
      BY <1>0, <1>1, <2>1, <2>2, TokenKinds DEF b
  <1>2. CASE t.tag = "end"
    <2>1. Call(b, t) = fdt_node_pop(b)
      BY <1>2 DEF Call
    <2> HIDE DEF b
    <2>2. fdt_node_pop(b) = [b EXCEPT !.out = Append(out, End), !.depth = d - 1]
      BY <1>2, <1>b DEF fdt_node_pop
    <2> QED
      BY <1>0, <1>2, <2>1, <2>2, TokenKinds DEF b
  <1>3. CASE t.tag = "prop"
    <2>1. Call(b, t) = fdt_prop(b, t.name, t.val)
      BY <1>3 DEF Call
    <2> HIDE DEF b
    <2>2. fdt_prop(b, t.name, t.val) = [b EXCEPT !.out = Append(out, Prop(t.name, t.val))]
      BY <1>b DEF fdt_prop
    <2> QED
      BY <1>0, <1>3, <2>1, <2>2, TokenKinds DEF b
  <1> QED
    BY <1>1, <1>2, <1>3, TokenKinds

\* The builder writes what it is told, and ends where it began.
LEMMA CallsWrite ==
    ASSUME NEW s, NEW o, NEW w, Walk(s, o, w)
    PROVE  Fold(Call, fdt_builder_init, s) = [out |-> <<Begin("/")>> \o s, depth |-> 0, h |-> 1]
  <1> DEFINE n == Len(s)
             G(f) == [i \in 0 .. Len(s) |->
                        IF i = 0 THEN fdt_builder_init
                        ELSE CHOOSE v \in {Call(x, s[i]) : x \in {f[i - 1]}} : TRUE]
             after == CHOOSE f : f = G(f)
             g == [i \in 0 .. Len(s) |->
                     [out |-> <<Begin("/")>> \o SubSeq(s, 1, i), depth |-> Len(w[i]) - Len(o), h |-> 1]]
  <1>0. n \in Nat /\ s \in Seq(Tokens) /\ o \in Path /\ Len(o) \in Nat /\ Begin("/") \in Tokens
    BY LenProperties, NamesKnown DEF Walk, Path, Tokens
  <1>1. g[0] = fdt_builder_init
    <2>1. w[0] = o /\ 0 \in 0 .. Len(s) /\ Len(w[0]) - Len(o) = 0
      BY <1>0 DEF Walk
    <2>2. <<Begin("/")>> \o SubSeq(s, 1, 0) = <<Begin("/")>>
      BY <1>0, Prefix
    <2> QED
      BY <2>1, <2>2 DEF fdt_builder_init
  <1>2. ASSUME NEW i \in 1 .. n PROVE Call(g[i - 1], s[i]) = g[i]
    <2> DEFINE d == Len(w[i - 1]) - Len(o)
               e == Len(w[i]) - Len(o)
               u == <<Begin("/")>> \o SubSeq(s, 1, i - 1)
    <2>1. i \in 0 .. Len(s) /\ i - 1 \in 0 .. Len(s)
      BY <1>0
    <2>2. w[i] \in Path /\ w[i - 1] \in Path /\ s[i] \in Tokens /\ Moves(w[i - 1], s[i], w[i])
          /\ Len(w[i]) >= Len(o) /\ Len(w[i - 1]) >= Len(o)
      BY <1>0, <2>1, ElementOfSeq DEF Walk
    <2>3. /\ Len(w[i - 1]) \in Nat /\ Len(w[i]) \in Nat
          /\ s[i].tag = "begin" => Len(w[i]) = Len(w[i - 1]) + 1
          /\ s[i].tag = "end" => Len(w[i - 1]) > 0 /\ Len(w[i]) = Len(w[i - 1]) - 1
          /\ s[i].tag = "prop" => Len(w[i]) = Len(w[i - 1])
      BY <2>2, MoveLen
    <2>4. d \in Nat /\ e \in Nat /\ (s[i].tag = "begin" => e = d + 1)
          /\ (s[i].tag = "end" => d > 0 /\ e = d - 1) /\ (s[i].tag = "prop" => e = d)
      BY <1>0, <2>2, <2>3
    <2>5. g[i - 1] = [out |-> u, depth |-> d, h |-> 1]
      BY <2>1
    <2>6. g[i] = [out |-> Append(u, s[i]), depth |-> e, h |-> 1]
      BY <1>0, <2>1, Prefix
    <2> HIDE DEF g, d, e, u
    <2>7. Call([out |-> u, depth |-> d, h |-> 1], s[i]) = [out |-> Append(u, s[i]), depth |-> e, h |-> 1]
      BY <2>2, <2>4, CallStep
    <2> QED
      BY <2>5, <2>6, <2>7
  <1>3. \A f : \A i \in 1 .. n : G(f)[i] = Call(f[i - 1], s[i])
    <2> SUFFICES ASSUME NEW f, NEW i \in 1 .. n PROVE G(f)[i] = Call(f[i - 1], s[i])
      OBVIOUS
    <2>1. {Call(x, s[i]) : x \in {f[i - 1]}} = {Call(f[i - 1], s[i])}
      OBVIOUS
    <2>2. (CHOOSE v \in {Call(x, s[i]) : x \in {f[i - 1]}} : TRUE) = Call(f[i - 1], s[i])
      BY <2>1, TheOne
    <2>3. i \in 0 .. Len(s) /\ i # 0
      BY <1>0
    <2> QED
      BY <2>2, <2>3
  <1>4. \A f : G(f)[0] = fdt_builder_init
    BY <1>0
  <1>5. g = G(g)
    <2>1. \A i \in 0 .. Len(s) : g[i] = G(g)[i]
      <3> SUFFICES ASSUME NEW i \in 0 .. Len(s) PROVE g[i] = G(g)[i]
        OBVIOUS
      <3>1. CASE i = 0
        BY <1>1, <1>4, <3>1
      <3>2. CASE i # 0
        <4>1. i \in 1 .. n
          BY <1>0, <3>2
        <4> HIDE DEF g, G
        <4> QED
          BY <1>2, <1>3, <4>1
      <3> QED
        BY <3>1, <3>2
    <2> QED
      BY <2>1
  <1>6. after = G(after)
    <2> HIDE DEF g, G
    <2> QED
      BY <1>5
  <1>7. after[0] = g[0] /\ \A i \in 1 .. n : after[i - 1] = g[i - 1] => after[i] = g[i]
    <2> HIDE DEF g, G, after
    <2> QED
      BY <1>1, <1>2, <1>3, <1>4, <1>6
  <1>8. after[n] = g[n]
    <2> HIDE DEF g, G, after
    <2> QED
      BY <1>0, <1>7, SameLoop
  <1>9. Fold(Call, fdt_builder_init, s) = after[n]
    BY DEF Fold
  <1>10. g[n] = [out |-> <<Begin("/")>> \o s, depth |-> 0, h |-> 1]
    <2>1. n \in 0 .. Len(s) /\ Len(w[n]) - Len(o) = 0
      BY <1>0 DEF Walk
    <2> QED
      BY <1>0, <2>1, Prefix
  <1> QED
    BY <1>8, <1>9, <1>10

\* What the reader has after n tokens.
ReadTo(s, w, n) == [open |-> w[n], nodes |-> NodesTo(s, w, n), props |-> PropsTo(s, w, n)]

\* One token read.
LEMMA ReadStep ==
    ASSUME NEW s, NEW o, NEW w, Walk(s, o, w), NEW i \in 1 .. Len(s)
    PROVE  ReadToken(ReadTo(s, w, i - 1), s[i]) = ReadTo(s, w, i)
  <1> DEFINE x == w[i - 1]
             y == w[i]
             t == s[i]
             N == NodesTo(s, w, i - 1)
             P == PropsTo(s, w, i - 1)
             r == [open |-> x, nodes |-> N, props |-> P]
             q == [node |-> y, name |-> t.name, val |-> t.val]
  <1>0. Len(s) \in Nat /\ t \in Tokens /\ Moves(x, t, y)
    BY LenProperties, ElementOfSeq DEF Walk
  <1>n. 1 .. i = (1 .. i - 1) \union {i}
    BY <1>0
  <1>1. NodesTo(s, w, i) = N \union (IF t.tag = "begin" THEN {y} ELSE {})
    BY <1>n DEF NodesTo
  <1>2. PropsTo(s, w, i) = P \union (IF t.tag = "prop" THEN {q} ELSE {})
    BY <1>n DEF PropsTo
  <1>3. ReadTo(s, w, i - 1) = r
    BY DEF ReadTo
  <1>4. ReadTo(s, w, i) = [open |-> y, nodes |-> NodesTo(s, w, i), props |-> PropsTo(s, w, i)]
    BY DEF ReadTo
  <1> HIDE DEF N, P, x, y, t
  <1>5. ASSUME NEW a, NEW b
        PROVE  /\ [r EXCEPT !.open = a] = [open |-> a, nodes |-> N, props |-> P]
               /\ [r EXCEPT !.props = b] = [open |-> x, nodes |-> N, props |-> b]
               /\ [r EXCEPT !.open = a, !.nodes = b] = [open |-> a, nodes |-> b, props |-> P]
    <2>1. [r EXCEPT !.open = a] = [open |-> a, nodes |-> N, props |-> P]
      OBVIOUS
    <2>2. [[open |-> a, nodes |-> N, props |-> P] EXCEPT !.nodes = b] = [open |-> a, nodes |-> b, props |-> P]
      OBVIOUS
    <2>3. [r EXCEPT !.props = b] = [open |-> x, nodes |-> N, props |-> b]
      OBVIOUS
    <2> QED
      BY <2>1, <2>2, <2>3
  <1>6. r.open = x /\ r.nodes = N /\ r.props = P
    OBVIOUS
  <1> HIDE DEF r
  <1>7. CASE t.tag = "begin"
    <2>1. y = Append(x, t.name)
      BY <1>0, <1>7 DEF Moves
    <2>2. ReadToken(r, t) = [r EXCEPT !.open = y, !.nodes = N \union {y}]
      BY <1>6, <1>7, <2>1 DEF ReadToken
    <2>3. NodesTo(s, w, i) = N \union {y} /\ PropsTo(s, w, i) = P
      BY <1>1, <1>2, <1>7
    <2>4. ReadToken(r, t) = [open |-> y, nodes |-> N \union {y}, props |-> P]
      BY <1>5, <2>2
    <2> QED
      BY <1>3, <1>4, <2>3, <2>4, Zenon DEF t
  <1>8. CASE t.tag = "end"
    <2>1. y = Front(x)
      BY <1>0, <1>8 DEF Moves
    <2>2. ReadToken(r, t) = [r EXCEPT !.open = y]
      BY <1>6, <1>8, <2>1 DEF ReadToken
    <2>3. NodesTo(s, w, i) = N /\ PropsTo(s, w, i) = P
      BY <1>1, <1>2, <1>8
    <2>4. ReadToken(r, t) = [open |-> y, nodes |-> N, props |-> P]
      BY <1>5, <2>2
    <2> QED
      BY <1>3, <1>4, <2>3, <2>4, Zenon DEF t
  <1>9. CASE t.tag = "prop"
    <2>1. y = x
      BY <1>0, <1>9 DEF Moves
    <2>2. ReadToken(r, t) = [r EXCEPT !.props = P \union {q}]
      BY <1>6, <1>9, <2>1 DEF ReadToken
    <2>3. NodesTo(s, w, i) = N /\ PropsTo(s, w, i) = P \union {q}
      BY <1>1, <1>2, <1>9
    <2> HIDE DEF q
    <2>4. ReadToken(r, t) = [open |-> y, nodes |-> N, props |-> P \union {q}]
      BY <1>5, <2>1, <2>2
    <2> QED
      BY <1>3, <1>4, <2>3, <2>4, Zenon DEF t
  <1> QED
    BY <1>0, <1>7, <1>8, <1>9, TokenKinds DEF t

\* The reader finds the nodes and properties of the walk.
LEMMA ReadIs ==
    ASSUME NEW s, NEW w, Walk(s, <<>>, w)
    PROVE  Read(s) = [open |-> <<>>, nodes |-> NodesTo(s, w, Len(s)), props |-> PropsTo(s, w, Len(s))]
  <1> DEFINE n == Len(s)
             first == [open |-> <<>>, nodes |-> {}, props |-> {}]
             G(f) == [i \in 0 .. Len(s) |->
                        IF i = 0 THEN first
                        ELSE CHOOSE v \in {ReadToken(x, s[i]) : x \in {f[i - 1]}} : TRUE]
             after == CHOOSE f : f = G(f)
             g == [i \in 0 .. Len(s) |-> ReadTo(s, w, i)]
  <1>0. n \in Nat
    BY LenProperties DEF Walk
  <1>1. g[0] = first
    <2>1. w[0] = <<>> /\ 0 \in 0 .. Len(s) /\ 1 .. 0 = {}
      BY <1>0 DEF Walk
    <2> QED
      BY <2>1 DEF ReadTo, NodesTo, PropsTo
  <1>2. ASSUME NEW i \in 1 .. n PROVE ReadToken(g[i - 1], s[i]) = g[i]
    <2>1. i \in 0 .. Len(s) /\ i - 1 \in 0 .. Len(s)
      BY <1>0
    <2>2. g[i - 1] = ReadTo(s, w, i - 1) /\ g[i] = ReadTo(s, w, i)
      BY <2>1
    <2> HIDE DEF g
    <2> QED
      BY <2>2, ReadStep
  <1>3. \A f : \A i \in 1 .. n : G(f)[i] = ReadToken(f[i - 1], s[i])
    <2> SUFFICES ASSUME NEW f, NEW i \in 1 .. n PROVE G(f)[i] = ReadToken(f[i - 1], s[i])
      OBVIOUS
    <2>1. {ReadToken(x, s[i]) : x \in {f[i - 1]}} = {ReadToken(f[i - 1], s[i])}
      OBVIOUS
    <2>2. (CHOOSE v \in {ReadToken(x, s[i]) : x \in {f[i - 1]}} : TRUE) = ReadToken(f[i - 1], s[i])
      BY <2>1, TheOne
    <2>3. i \in 0 .. Len(s) /\ i # 0
      BY <1>0
    <2> QED
      BY <2>2, <2>3
  <1>4. \A f : G(f)[0] = first
    BY <1>0
  <1>5. g = G(g)
    <2>1. \A i \in 0 .. Len(s) : g[i] = G(g)[i]
      <3> SUFFICES ASSUME NEW i \in 0 .. Len(s) PROVE g[i] = G(g)[i]
        OBVIOUS
      <3>1. CASE i = 0
        BY <1>1, <1>4, <3>1
      <3>2. CASE i # 0
        <4>1. i \in 1 .. n
          BY <1>0, <3>2
        <4> HIDE DEF g, G
        <4> QED
          BY <1>2, <1>3, <4>1
      <3> QED
        BY <3>1, <3>2
    <2> QED
      BY <2>1
  <1>6. after = G(after)
    <2> HIDE DEF g, G
    <2> QED
      BY <1>5
  <1>7. after[0] = g[0] /\ \A i \in 1 .. n : after[i - 1] = g[i - 1] => after[i] = g[i]
    <2> HIDE DEF g, G, after
    <2> QED
      BY <1>1, <1>2, <1>3, <1>4, <1>6
  <1>8. after[n] = g[n]
    <2> HIDE DEF g, G, after
    <2> QED
      BY <1>0, <1>7, SameLoop
  <1>9. Read(s) = after[n]
    BY DEF Read, Fold
  <1>10. g[n] = [open |-> <<>>, nodes |-> NodesTo(s, w, n), props |-> PropsTo(s, w, n)]
    <2>1. n \in 0 .. Len(s) /\ w[n] = <<>>
      BY <1>0 DEF Walk
    <2> QED
      BY <2>1 DEF ReadTo
  <1> QED
    BY <1>8, <1>9, <1>10

Owned(o, ps) == {[node |-> o, name |-> ps[i].name, val |-> ps[i].val] : i \in 1 .. Len(ps)}

\* A row of properties belongs to the open node.
LEMMA ParsedProps ==
    ASSUME NEW o \in Path, NEW ps \in Seq(Properties)
    PROVE  Parsed(ps, o, {}, Owned(o, ps))
  <1> DEFINE w == [i \in 0 .. Len(ps) |-> o]
  <1>t. ps \in Seq(Tokens) /\ \A i \in 1 .. Len(ps) : ps[i].tag = "prop"
    <2>1. \A i \in 1 .. Len(ps) : ps[i] \in Properties
      OBVIOUS
    <2>2. Properties \subseteq Tokens /\ \A t \in Properties : t.tag = "prop"
      BY DEF Tokens, Properties
    <2> QED
      BY <2>1, <2>2
  <1>0. Len(ps) \in Nat /\ Len(o) \in Nat
    BY LenProperties DEF Path
  <1>1. w \in [0 .. Len(ps) -> Path] /\ \A i \in 0 .. Len(ps) : w[i] = o
    OBVIOUS
  <1>2. \A i \in 1 .. Len(ps) : i \in 0 .. Len(ps) /\ i - 1 \in 0 .. Len(ps)
    BY <1>0
  <1> HIDE DEF w
  <1>3. Walk(ps, o, w)
    BY <1>0, <1>1, <1>2, <1>t DEF Walk, Moves
  <1>4. NodesTo(ps, w, Len(ps)) = {}
    BY <1>t DEF NodesTo
  <1>5. PropsTo(ps, w, Len(ps)) = Owned(o, ps)
    <2>1. {j \in 1 .. Len(ps) : ps[j].tag = "prop"} = 1 .. Len(ps)
      BY <1>t
    <2>2. \A i \in 1 .. Len(ps) : w[i] = o
      BY <1>1, <1>2
    <2> QED
      BY <2>1, <2>2 DEF PropsTo, Owned
  <1> QED
    BY <1>3, <1>4, <1>5 DEF Parsed

\* Two descriptions one after the other.
LEMMA ParsedConcat ==
    ASSUME NEW o, NEW s, NEW t, NEW N, NEW M, NEW P, NEW Q,
           Parsed(s, o, N, P), Parsed(t, o, M, Q)
    PROVE  Parsed(s \o t, o, N \union M, P \union Q)
  <1>v. PICK v : Walk(s, o, v) /\ N = NodesTo(s, v, Len(s)) /\ P = PropsTo(s, v, Len(s))
    BY DEF Parsed
  <1>w. PICK w : Walk(t, o, w) /\ M = NodesTo(t, w, Len(t)) /\ Q = PropsTo(t, w, Len(t))
    BY DEF Parsed
  <1> DEFINE m == Len(s)
             n == Len(t)
             z == s \o t
             u == [i \in 0 .. m + n |-> IF i <= m THEN v[i] ELSE w[i - m]]
  <1>0. /\ m \in Nat /\ n \in Nat /\ s \in Seq(Tokens) /\ t \in Seq(Tokens) /\ o \in Path
        /\ v \in [0 .. m -> Path] /\ w \in [0 .. n -> Path]
        /\ v[0] = o /\ v[m] = o /\ w[0] = o /\ w[n] = o
        /\ \A i \in 0 .. m : Len(v[i]) >= Len(o)
        /\ \A i \in 0 .. n : Len(w[i]) >= Len(o)
        /\ \A i \in 1 .. m : Moves(v[i - 1], s[i], v[i])
        /\ \A i \in 1 .. n : Moves(w[i - 1], t[i], w[i])
    BY <1>v, <1>w, LenProperties DEF Walk
  <1>1. /\ z \in Seq(Tokens) /\ Len(z) = m + n
        /\ \A i \in 1 .. m : z[i] = s[i]
        /\ \A i \in 1 .. n : z[m + i] = t[i]
    BY <1>0
  <1>2. /\ u \in [0 .. m + n -> Path]
        /\ \A i \in 0 .. m : u[i] = v[i]
        /\ \A i \in 0 .. n : u[m + i] = w[i]
    <2>1. ASSUME NEW i \in 0 .. m + n PROVE (IF i <= m THEN v[i] ELSE w[i - m]) \in Path
      <3>1. CASE i <= m
        <4>1. i \in 0 .. m
          BY <1>0, <3>1
        <4> QED
          BY <1>0, <3>1, <4>1
      <3>2. CASE ~(i <= m)
        <4>1. i - m \in 0 .. n
          BY <1>0, <3>2
        <4> QED
          BY <1>0, <3>2, <4>1
      <3> QED
        BY <3>1, <3>2
    <2>2. ASSUME NEW i \in 0 .. m PROVE u[i] = v[i]
      BY <1>0
    <2>3. ASSUME NEW i \in 0 .. n PROVE u[m + i] = w[i]
      <3>1. m + i \in 0 .. m + n /\ (m + i) - m = i /\ (m + i <= m <=> i = 0)
        BY <1>0
      <3>2. CASE i = 0
        <4>1. m + i = m
          BY <1>0, <3>2
        <4> QED
          BY <1>0, <3>1, <3>2, <4>1
      <3>3. CASE i # 0
        BY <3>1, <3>3
      <3> QED
        BY <3>2, <3>3
    <2> QED
      BY <2>1, <2>2, <2>3
  <1> HIDE DEF u, z, m, n
  <1>3. \A i \in 1 .. m + n : i \in 1 .. m \/ \E k \in 1 .. n : i = m + k
    <2> SUFFICES ASSUME NEW i \in 1 .. m + n, i \notin 1 .. m PROVE i - m \in 1 .. n /\ i = m + (i - m)
      OBVIOUS
    <2> QED
      BY <1>0
  <1>4. \A i \in 0 .. m + n : i \in 0 .. m \/ \E k \in 0 .. n : i = m + k
    <2> SUFFICES ASSUME NEW i \in 0 .. m + n, i \notin 0 .. m PROVE i - m \in 0 .. n /\ i = m + (i - m)
      OBVIOUS
    <2> QED
      BY <1>0
  <1>5. ASSUME NEW i \in 1 .. m
        PROVE i \in 1 .. m + n /\ z[i] = s[i] /\ u[i] = v[i] /\ u[i - 1] = v[i - 1]
    <2>1. i \in 0 .. m /\ i - 1 \in 0 .. m /\ i \in 1 .. m + n
      BY <1>0
    <2> QED
      BY <1>1, <1>2, <2>1
  <1>6. ASSUME NEW k \in 1 .. n
        PROVE m + k \in 1 .. m + n /\ z[m + k] = t[k] /\ u[m + k] = w[k] /\ u[(m + k) - 1] = w[k - 1]
    <2>1. k \in 0 .. n /\ k - 1 \in 0 .. n /\ (m + k) - 1 = m + (k - 1) /\ m + k \in 1 .. m + n
      BY <1>0
    <2> QED
      BY <1>1, <1>2, <2>1
  <1>7. Walk(z, o, u)
    <2>1. u[0] = o /\ u[m + n] = o
      <3>1. 0 \in 0 .. m /\ n \in 0 .. n
        BY <1>0
      <3> QED
        BY <1>0, <1>2, <3>1
    <2>2. \A i \in 0 .. m + n : Len(u[i]) >= Len(o)
      BY <1>0, <1>2, <1>4
    <2>3. \A i \in 1 .. m + n : Moves(u[i - 1], z[i], u[i])
      <3> SUFFICES ASSUME NEW i \in 1 .. m + n PROVE Moves(u[i - 1], z[i], u[i])
        OBVIOUS
      <3>1. CASE i \in 1 .. m
        BY <1>0, <1>5, <3>1
      <3>2. CASE \E k \in 1 .. n : i = m + k
        BY <1>0, <1>6, <3>2
      <3> QED
        BY <1>3, <3>1, <3>2
    <2> QED
      BY <1>0, <1>1, <1>2, <2>1, <2>2, <2>3 DEF Walk
  <1>8. NodesTo(z, u, Len(z)) = N \union M
    <2>1. NodesTo(z, u, m + n) \subseteq NodesTo(s, v, m) \union NodesTo(t, w, n)
      <3> SUFFICES ASSUME NEW i \in 1 .. m + n, z[i].tag = "begin"
                   PROVE  u[i] \in NodesTo(s, v, m) \union NodesTo(t, w, n)
        BY DEF NodesTo
      <3>1. CASE i \in 1 .. m
        BY <1>5, <3>1 DEF NodesTo
      <3>2. CASE \E k \in 1 .. n : i = m + k
        BY <1>6, <3>2 DEF NodesTo
      <3> QED
        BY <1>3, <3>1, <3>2
    <2>2. NodesTo(s, v, m) \subseteq NodesTo(z, u, m + n)
      BY <1>5 DEF NodesTo
    <2>3. NodesTo(t, w, n) \subseteq NodesTo(z, u, m + n)
      BY <1>6 DEF NodesTo
    <2> QED
      BY <1>1, <1>v, <1>w, <2>1, <2>2, <2>3 DEF m, n
  <1>9. PropsTo(z, u, Len(z)) = P \union Q
    <2>1. PropsTo(z, u, m + n) \subseteq PropsTo(s, v, m) \union PropsTo(t, w, n)
      <3> SUFFICES ASSUME NEW i \in 1 .. m + n, z[i].tag = "prop"
                   PROVE  [node |-> u[i], name |-> z[i].name, val |-> z[i].val]
                            \in PropsTo(s, v, m) \union PropsTo(t, w, n)
        BY DEF PropsTo
      <3>1. CASE i \in 1 .. m
        BY <1>5, <3>1 DEF PropsTo
      <3>2. CASE \E k \in 1 .. n : i = m + k
        BY <1>6, <3>2 DEF PropsTo
      <3> QED
        BY <1>3, <3>1, <3>2
    <2>2. PropsTo(s, v, m) \subseteq PropsTo(z, u, m + n)
      <3> SUFFICES ASSUME NEW i \in 1 .. m, s[i].tag = "prop"
                   PROVE  [node |-> v[i], name |-> s[i].name, val |-> s[i].val] \in PropsTo(z, u, m + n)
        BY DEF PropsTo
      <3> QED
        BY <1>5 DEF PropsTo
    <2>3. PropsTo(t, w, n) \subseteq PropsTo(z, u, m + n)
      <3> SUFFICES ASSUME NEW i \in 1 .. n, t[i].tag = "prop"
                   PROVE  [node |-> w[i], name |-> t[i].name, val |-> t[i].val] \in PropsTo(z, u, m + n)
        BY DEF PropsTo
      <3> QED
        BY <1>6 DEF PropsTo
    <2> QED
      BY <1>1, <1>v, <1>w, <2>1, <2>2, <2>3 DEF m, n
  <1> QED
    BY <1>7, <1>8, <1>9 DEF Parsed, z

\* A node and what is inside it.
LEMMA ParsedNode ==
    ASSUME NEW o \in Path, NEW name \in NodeNames, NEW inner, NEW N, NEW P,
           Parsed(inner, Append(o, name), N, P)
    PROVE  Parsed(Node(name, inner), o, {Append(o, name)} \union N, P)
  <1> DEFINE p == Append(o, name)
             n == Len(inner)
             z == Node(name, inner)
  <1>w. PICK w : Walk(inner, p, w) /\ N = NodesTo(inner, w, n) /\ P = PropsTo(inner, w, n)
    BY DEF Parsed
  <1> DEFINE u == [i \in 0 .. n + 2 |-> IF i \in 1 .. n + 1 THEN w[i - 1] ELSE o]
  <1>p. /\ p \in Path /\ Len(o) \in Nat /\ Len(p) = Len(o) + 1 /\ p # <<>> /\ Front(p) = o
    <2>1. p \in Path /\ Len(o) \in Nat /\ Len(p) = Len(o) + 1
      BY LenProperties, AppendProperties DEF Path
    <2>2. p # <<>>
      BY AppendProperties DEF Path
    <2>3. Front(p) = SubSeq(p, 1, Len(o))
      BY <2>1 DEF Front
    <2>4. SubSeq(p, 1, Len(o)) = o
      BY <2>1 DEF Path
    <2> QED
      BY <2>1, <2>2, <2>3, <2>4
  <1> HIDE DEF p
  <1>0. /\ n \in Nat /\ inner \in Seq(Tokens)
        /\ w \in [0 .. n -> Path] /\ w[0] = p /\ w[n] = p
        /\ \A i \in 0 .. n : Len(w[i]) >= Len(p)
        /\ \A i \in 1 .. n : Moves(w[i - 1], inner[i], w[i])
    BY <1>w, LenProperties DEF Walk
  <1>b. Begin(name) \in Tokens /\ End \in Tokens /\ Begin(name).tag = "begin" /\ End.tag = "end"
        /\ Begin(name).name = name
    <2>1. Begin(name) \in Tokens /\ End \in Tokens
      BY DEF Tokens
    <2> QED
      BY <2>1 DEF Begin, End
  <1>1. /\ z \in Seq(Tokens) /\ Len(z) = n + 2
        /\ z[1] = Begin(name) /\ z[n + 2] = End
        /\ \A i \in 1 .. n : z[i + 1] = inner[i]
    <2> DEFINE x == <<Begin(name)>> \o inner
    <2>1. x \in Seq(Tokens) /\ Len(x) = n + 1 /\ x[1] = Begin(name) /\ \A i \in 1 .. n : x[i + 1] = inner[i]
      BY <1>0, <1>b
    <2>2. z = x \o <<End>>
      BY DEF Node, Push, Pop
    <2> HIDE DEF x, z
    <2> QED
      BY <1>0, <1>b, <2>1, <2>2
  <1>2. /\ u \in [0 .. n + 2 -> Path]
        /\ u[0] = o /\ u[n + 2] = o
        /\ \A i \in 0 .. n : u[i + 1] = w[i]
    <2>1. ASSUME NEW i \in 0 .. n + 2 PROVE (IF i \in 1 .. n + 1 THEN w[i - 1] ELSE o) \in Path
      <3>1. i \in 1 .. n + 1 => i - 1 \in 0 .. n
        BY <1>0
      <3> QED
        BY <1>0, <3>1
    <2>2. 0 \in 0 .. n + 2 /\ n + 2 \in 0 .. n + 2 /\ 0 \notin 1 .. n + 1 /\ n + 2 \notin 1 .. n + 1
      BY <1>0
    <2>3. ASSUME NEW i \in 0 .. n PROVE u[i + 1] = w[i]
      <3>1. i + 1 \in 0 .. n + 2 /\ i + 1 \in 1 .. n + 1 /\ (i + 1) - 1 = i
        BY <1>0
      <3> QED
        BY <3>1
    <2> QED
      BY <2>1, <2>2, <2>3
  <1> HIDE DEF u, z, n
  <1>3. \A i \in 1 .. n + 2 : i = 1 \/ i = n + 2 \/ \E k \in 1 .. n : i = k + 1
    <2> SUFFICES ASSUME NEW i \in 1 .. n + 2, i # 1, i # n + 2 PROVE i - 1 \in 1 .. n /\ i = (i - 1) + 1
      OBVIOUS
    <2> QED
      BY <1>0
  <1>4. \A i \in 0 .. n + 2 : i = 0 \/ i = n + 2 \/ \E k \in 0 .. n : i = k + 1
    <2> SUFFICES ASSUME NEW i \in 0 .. n + 2, i # 0, i # n + 2 PROVE i - 1 \in 0 .. n /\ i = (i - 1) + 1
      OBVIOUS
    <2> QED
      BY <1>0
  <1>5. u[1] = p /\ u[1 - 1] = o /\ u[(n + 2) - 1] = p
    <2>1. 0 \in 0 .. n /\ n \in 0 .. n /\ 0 + 1 = 1 /\ 1 - 1 = 0 /\ (n + 2) - 1 = n + 1
      BY <1>0
    <2> QED
      BY <1>0, <1>2, <2>1
  <1>6. ASSUME NEW k \in 1 .. n
        PROVE k + 1 \in 1 .. n + 2 /\ z[k + 1] = inner[k] /\ u[k + 1] = w[k] /\ u[(k + 1) - 1] = w[k - 1]
    <2>1. k \in 0 .. n /\ k - 1 \in 0 .. n /\ (k + 1) - 1 = (k - 1) + 1 /\ k + 1 \in 1 .. n + 2
      BY <1>0
    <2> QED
      BY <1>1, <1>2, <2>1
  <1>7. Walk(z, o, u)
    <2>1. \A i \in 0 .. n + 2 : Len(u[i]) >= Len(o)
      <3>1. \A k \in 0 .. n : Len(w[k]) \in Nat
        BY <1>0, LenProperties DEF Path
      <3>2. \A k \in 0 .. n : Len(w[k]) >= Len(o)
        BY <1>0, <1>p, <3>1
      <3> QED
        BY <1>2, <1>4, <1>p, <3>2
    <2>2. \A i \in 1 .. n + 2 : Moves(u[i - 1], z[i], u[i])
      <3> SUFFICES ASSUME NEW i \in 1 .. n + 2 PROVE Moves(u[i - 1], z[i], u[i])
        OBVIOUS
      <3>1. CASE i = 1
        BY <1>1, <1>5, <1>b, <3>1 DEF Moves, p
      <3>2. CASE i = n + 2
        BY <1>1, <1>2, <1>5, <1>b, <1>p, <3>2 DEF Moves
      <3>3. CASE \E k \in 1 .. n : i = k + 1
        BY <1>0, <1>6, <3>3
      <3> QED
        BY <1>3, <3>1, <3>2, <3>3
    <2> QED
      BY <1>1, <1>2, <2>1, <2>2 DEF Walk
  <1>8. NodesTo(z, u, n + 2) = {p} \union NodesTo(inner, w, n)
    <2>1. NodesTo(z, u, n + 2) \subseteq {p} \union NodesTo(inner, w, n)
      <3> SUFFICES ASSUME NEW i \in 1 .. n + 2, z[i].tag = "begin"
                   PROVE  u[i] \in {p} \union NodesTo(inner, w, n)
        BY DEF NodesTo
      <3>1. CASE i = 1
        BY <1>5, <3>1
      <3>2. CASE i = n + 2
        BY <1>1, <1>b, <3>2
      <3>3. CASE \E k \in 1 .. n : i = k + 1
        BY <1>6, <3>3 DEF NodesTo
      <3> QED
        BY <1>3, <3>1, <3>2, <3>3
    <2>2. NodesTo(inner, w, n) \subseteq NodesTo(z, u, n + 2)
      BY <1>6 DEF NodesTo
    <2>3. p \in NodesTo(z, u, n + 2)
      <3>1. 1 \in 1 .. n + 2
        BY <1>0
      <3> QED
        BY <1>1, <1>5, <1>b, <3>1 DEF NodesTo
    <2> QED
      BY <2>1, <2>2, <2>3
  <1>9. PropsTo(z, u, n + 2) = PropsTo(inner, w, n)
    <2>1. PropsTo(z, u, n + 2) \subseteq PropsTo(inner, w, n)
      <3> SUFFICES ASSUME NEW i \in 1 .. n + 2, z[i].tag = "prop"
                   PROVE  [node |-> u[i], name |-> z[i].name, val |-> z[i].val] \in PropsTo(inner, w, n)
        BY DEF PropsTo
      <3>1. i # 1 /\ i # n + 2
        BY <1>1, <1>b
      <3>2. PICK k \in 1 .. n : i = k + 1
        BY <1>3, <3>1
      <3> QED
        BY <1>6, <3>2 DEF PropsTo
    <2>2. PropsTo(inner, w, n) \subseteq PropsTo(z, u, n + 2)
      <3> SUFFICES ASSUME NEW k \in 1 .. n, inner[k].tag = "prop"
                   PROVE  [node |-> w[k], name |-> inner[k].name, val |-> inner[k].val] \in PropsTo(z, u, n + 2)
        BY DEF PropsTo
      <3> QED
        BY <1>6 DEF PropsTo
    <2> QED
      BY <2>1, <2>2
  <1> QED
    BY <1>1, <1>7, <1>8, <1>9, <1>w DEF Parsed, z, p

\* The nodes of the tree.
Root == <<"/">>
ChosenNode == <<"/", "chosen">>
MemoryNode == <<"/", "memory">>
CpusNode == <<"/", "cpus">>
CpuNode == <<"/", "cpus", "cpu">>
IntcNode == <<"/", "cpus", "cpu", "interrupt-controller">>
SocNode == <<"/", "soc">>
ClintNode == <<"/", "soc", "clint">>
PlicNode == <<"/", "soc", "plic">>
UartNode == <<"/", "soc", "uart">>

InnerNodes ==
    {ChosenNode, MemoryNode, CpusNode, CpuNode, IntcNode, SocNode, ClintNode, PlicNode, UartNode}
TreeNodes == {Root} \union InnerNodes

\* The properties of a node, by name: a name occurs once in a node.
RootProps == 
    <<fdt_prop_cells1("#address-cells", 2), fdt_prop_cells1("#size-cells", 2),
      fdt_prop_str("compatible"), fdt_prop_str("model")>>
ChosenProps(start, end) ==
    <<fdt_prop_str("stdout-path"), fdt_prop_str("bootargs")>> \o InitrdRange(start, end)
MemoryProps ==
    <<fdt_prop_str("device_type"), fdt_prop_word("reg", 0, RamStart, 0, RamSize)>>
CpusProps ==
    <<fdt_prop_cells1("#address-cells", 1), fdt_prop_cells1("#size-cells", 0),
      fdt_prop_cells1("timebase-frequency", FDT_TIMEBASE_FREQ)>>
CpuProps ==
    <<fdt_prop_str("device_type"), fdt_prop_cells1("reg", 0), fdt_prop_str("compatible"),
      fdt_prop_str("mmu-type"), fdt_prop_str("riscv,isa"), fdt_prop_str("riscv,isa-base"),
      fdt_prop_str("riscv,isa-extensions")>>
IntcProps ==
    <<fdt_prop_cells1("phandle", FDT_CPU_INTC_PHANDLE), fdt_prop_cells1("#interrupt-cells", 1),
      fdt_prop_str("compatible"), fdt_prop_empty("interrupt-controller")>>
SocProps ==
    <<fdt_prop_str("compatible"), fdt_prop_cells1("#address-cells", 2),
      fdt_prop_cells1("#size-cells", 2), fdt_prop_empty("ranges")>>
ClintProps ==
    <<fdt_prop_str("compatible"), fdt_prop_word("reg", 0, ClintBase, 0, ClintSize),
      fdt_prop_word("interrupts-extended", FDT_CPU_INTC_PHANDLE, 3, FDT_CPU_INTC_PHANDLE, 7)>>
PlicProps ==
    <<fdt_prop_str("compatible"), fdt_prop_word("reg", 0, PlicBase, 0, PlicSize),
      fdt_prop_cells1("#address-cells", 0), fdt_prop_cells1("#interrupt-cells", 1),
      fdt_prop_cells1("phandle", FDT_PLIC_PHANDLE), fdt_prop_empty("interrupt-controller"),
      fdt_prop_cells1("riscv,ndev", PLIC_NDEV),
      fdt_prop_word("interrupts-extended", FDT_CPU_INTC_PHANDLE, 11, FDT_CPU_INTC_PHANDLE, 9)>>
UartProps ==
    <<fdt_prop_str("compatible"), fdt_prop_word("reg", 0, UartBase, 0, UartSize),
      fdt_prop_cells1("clock-frequency", UART_CLOCK), fdt_prop_cells1("current-speed", UART_SPEED),
      fdt_prop_cells1("reg-shift", 0), fdt_prop_cells1("reg-io-width", 1),
      fdt_prop_cells1("interrupt-parent", FDT_PLIC_PHANDLE),
      fdt_prop_cells1("interrupts", UART_IRQ)>>

\* The calls that write properties.
LEMMA PropTokens ==
    /\ \A x \in PropNames : fdt_prop_str(x) \in Properties
    /\ \A x \in PropNames : fdt_prop_empty(x) \in Properties
    /\ \A x \in PropNames, a \in Nat : fdt_prop_cells1(x, a) \in Properties
    /\ \A x \in PropNames, a \in Nat, b \in Nat : fdt_prop_cells2(x, a, b) \in Properties
    /\ \A x \in PropNames, a \in Nat, b \in Nat, c \in Nat, d \in Nat :
          fdt_prop_word(x, a, b, c, d) \in Properties
  <1>1. \A x \in PropNames, v \in Seq(Nat) : Prop(x, v) \in Properties
    BY DEF Properties, Prop
  <1>2. /\ <<>> \in Seq(Nat)
        /\ \A a \in Nat : <<a>> \in Seq(Nat)
        /\ \A a \in Nat, b \in Nat : <<a, b>> \in Seq(Nat)
        /\ \A a \in Nat, b \in Nat, c \in Nat, d \in Nat : <<a, b, c, d>> \in Seq(Nat)
    OBVIOUS
  <1> QED
    BY <1>1, <1>2 DEF fdt_prop_str, fdt_prop_empty, fdt_prop_cells1, fdt_prop_cells2, fdt_prop_word

\* Short rows are sequences.
LEMMA Pair ==
    ASSUME NEW S, NEW a \in S, NEW b \in S
    PROVE  <<a, b>> \in Seq(S)
  OBVIOUS

\* ... and so are the long ones.
LEMMA Tuples ==
    ASSUME NEW S, NEW a \in S, NEW b \in S, NEW c \in S, NEW d \in S, NEW e \in S,
           NEW f \in S, NEW g \in S
    PROVE  /\ <<a, b, c, d, e, f, g>> \in Seq(S)
           /\ \A h \in S : <<a, b, c, d, e, f, g, h>> \in Seq(S)
  OBVIOUS

\* Every row is a sequence of properties.
LEMMA Rows ==
    /\ RootProps \in Seq(Properties) /\ MemoryProps \in Seq(Properties)
    /\ CpusProps \in Seq(Properties) /\ CpuProps \in Seq(Properties)
    /\ IntcProps \in Seq(Properties) /\ SocProps \in Seq(Properties)
    /\ ClintProps \in Seq(Properties) /\ PlicProps \in Seq(Properties)
    /\ UartProps \in Seq(Properties)
  <1>a. {ClintBase, ClintSize, PlicBase, PlicSize, UartBase, UartSize, RamStart, RamSize} \subseteq Nat
    BY DeviceTreeAssumption
  <1>b. {FDT_CPU_INTC_PHANDLE, FDT_PLIC_PHANDLE, PLIC_NDEV, UART_IRQ} \subseteq Nat
    BY DEF FDT_CPU_INTC_PHANDLE, FDT_PLIC_PHANDLE, PLIC_NDEV, UART_IRQ
  <1>c. {FDT_TIMEBASE_FREQ, UART_CLOCK, UART_SPEED} \subseteq Nat
    BY SMT DEF FDT_TIMEBASE_FREQ, UART_CLOCK, UART_SPEED
  <1>1. RootProps \in Seq(Properties)
    <2>1. fdt_prop_cells1("#address-cells", 2) \in Properties
      BY <1>a, <1>b, <1>c, NamesKnown, PropTokens
    <2>2. fdt_prop_cells1("#size-cells", 2) \in Properties
      BY <1>a, <1>b, <1>c, NamesKnown, PropTokens
    <2>3. fdt_prop_str("compatible") \in Properties
      BY <1>a, <1>b, <1>c, NamesKnown, PropTokens
    <2>4. fdt_prop_str("model") \in Properties
      BY <1>a, <1>b, <1>c, NamesKnown, PropTokens
    <2> QED
      BY <2>1, <2>2, <2>3, <2>4 DEF RootProps
  <1>2. MemoryProps \in Seq(Properties)
    <2>1. fdt_prop_str("device_type") \in Properties
      BY <1>a, <1>b, <1>c, NamesKnown, PropTokens
    <2>2. fdt_prop_word("reg", 0, RamStart, 0, RamSize) \in Properties
      BY <1>a, <1>b, <1>c, NamesKnown, PropTokens
    <2> QED
      BY <2>1, <2>2 DEF MemoryProps
  <1>3. CpusProps \in Seq(Properties)
    <2>1. fdt_prop_cells1("#address-cells", 1) \in Properties
      BY <1>a, <1>b, <1>c, NamesKnown, PropTokens
    <2>2. fdt_prop_cells1("#size-cells", 0) \in Properties
      BY <1>a, <1>b, <1>c, NamesKnown, PropTokens
    <2>3. fdt_prop_cells1("timebase-frequency", FDT_TIMEBASE_FREQ) \in Properties
      BY <1>a, <1>b, <1>c, NamesKnown, PropTokens
    <2> QED
      BY <2>1, <2>2, <2>3 DEF CpusProps
  <1>4. CpuProps \in Seq(Properties)
    <2>1. fdt_prop_str("device_type") \in Properties
      BY <1>a, <1>b, <1>c, NamesKnown, PropTokens
    <2>2. fdt_prop_cells1("reg", 0) \in Properties
      BY <1>a, <1>b, <1>c, NamesKnown, PropTokens
    <2>3. fdt_prop_str("compatible") \in Properties
      BY <1>a, <1>b, <1>c, NamesKnown, PropTokens
    <2>4. fdt_prop_str("mmu-type") \in Properties
      BY <1>a, <1>b, <1>c, NamesKnown, PropTokens
    <2>5. fdt_prop_str("riscv,isa") \in Properties
      BY <1>a, <1>b, <1>c, NamesKnown, PropTokens
    <2>6. fdt_prop_str("riscv,isa-base") \in Properties
      BY <1>a, <1>b, <1>c, NamesKnown, PropTokens
    <2>7. fdt_prop_str("riscv,isa-extensions") \in Properties
      BY <1>a, <1>b, <1>c, NamesKnown, PropTokens
    <2> QED
      BY <2>1, <2>2, <2>3, <2>4, <2>5, <2>6, <2>7, Tuples DEF CpuProps
  <1>5. IntcProps \in Seq(Properties)
    <2>1. fdt_prop_cells1("phandle", FDT_CPU_INTC_PHANDLE) \in Properties
      BY <1>a, <1>b, <1>c, NamesKnown, PropTokens
    <2>2. fdt_prop_cells1("#interrupt-cells", 1) \in Properties
      BY <1>a, <1>b, <1>c, NamesKnown, PropTokens
    <2>3. fdt_prop_str("compatible") \in Properties
      BY <1>a, <1>b, <1>c, NamesKnown, PropTokens
    <2>4. fdt_prop_empty("interrupt-controller") \in Properties
      BY <1>a, <1>b, <1>c, NamesKnown, PropTokens
    <2> QED
      BY <2>1, <2>2, <2>3, <2>4 DEF IntcProps
  <1>6. SocProps \in Seq(Properties)
    <2>1. fdt_prop_str("compatible") \in Properties
      BY <1>a, <1>b, <1>c, NamesKnown, PropTokens
    <2>2. fdt_prop_cells1("#address-cells", 2) \in Properties
      BY <1>a, <1>b, <1>c, NamesKnown, PropTokens
    <2>3. fdt_prop_cells1("#size-cells", 2) \in Properties
      BY <1>a, <1>b, <1>c, NamesKnown, PropTokens
    <2>4. fdt_prop_empty("ranges") \in Properties
      BY <1>a, <1>b, <1>c, NamesKnown, PropTokens
    <2> QED
      BY <2>1, <2>2, <2>3, <2>4 DEF SocProps
  <1>7. ClintProps \in Seq(Properties)
    <2>1. fdt_prop_str("compatible") \in Properties
      BY <1>a, <1>b, <1>c, NamesKnown, PropTokens
    <2>2. fdt_prop_word("reg", 0, ClintBase, 0, ClintSize) \in Properties
      BY <1>a, <1>b, <1>c, NamesKnown, PropTokens
    <2>3. fdt_prop_word("interrupts-extended", FDT_CPU_INTC_PHANDLE, 3, FDT_CPU_INTC_PHANDLE, 7) \in Properties
      BY <1>a, <1>b, <1>c, NamesKnown, PropTokens
    <2> QED
      BY <2>1, <2>2, <2>3 DEF ClintProps
  <1>8. PlicProps \in Seq(Properties)
    <2>1. fdt_prop_str("compatible") \in Properties
      BY <1>a, <1>b, <1>c, NamesKnown, PropTokens
    <2>2. fdt_prop_word("reg", 0, PlicBase, 0, PlicSize) \in Properties
      BY <1>a, <1>b, <1>c, NamesKnown, PropTokens
    <2>3. fdt_prop_cells1("#address-cells", 0) \in Properties
      BY <1>a, <1>b, <1>c, NamesKnown, PropTokens
    <2>4. fdt_prop_cells1("#interrupt-cells", 1) \in Properties
      BY <1>a, <1>b, <1>c, NamesKnown, PropTokens
    <2>5. fdt_prop_cells1("phandle", FDT_PLIC_PHANDLE) \in Properties
      BY <1>a, <1>b, <1>c, NamesKnown, PropTokens
    <2>6. fdt_prop_empty("interrupt-controller") \in Properties
      BY <1>a, <1>b, <1>c, NamesKnown, PropTokens
    <2>7. fdt_prop_cells1("riscv,ndev", PLIC_NDEV) \in Properties
      BY <1>a, <1>b, <1>c, NamesKnown, PropTokens
    <2>8. fdt_prop_word("interrupts-extended", FDT_CPU_INTC_PHANDLE, 11, FDT_CPU_INTC_PHANDLE, 9) \in Properties
      BY <1>a, <1>b, <1>c, NamesKnown, PropTokens
    <2> QED
      BY <2>1, <2>2, <2>3, <2>4, <2>5, <2>6, <2>7, <2>8, Tuples DEF PlicProps
  <1>9. UartProps \in Seq(Properties)
    <2>1. fdt_prop_str("compatible") \in Properties
      BY <1>a, <1>b, <1>c, NamesKnown, PropTokens
    <2>2. fdt_prop_word("reg", 0, UartBase, 0, UartSize) \in Properties
      BY <1>a, <1>b, <1>c, NamesKnown, PropTokens
    <2>3. fdt_prop_cells1("clock-frequency", UART_CLOCK) \in Properties
      BY <1>a, <1>b, <1>c, NamesKnown, PropTokens
    <2>4. fdt_prop_cells1("current-speed", UART_SPEED) \in Properties
      BY <1>a, <1>b, <1>c, NamesKnown, PropTokens
    <2>5. fdt_prop_cells1("reg-shift", 0) \in Properties
      BY <1>a, <1>b, <1>c, NamesKnown, PropTokens
    <2>6. fdt_prop_cells1("reg-io-width", 1) \in Properties
      BY <1>a, <1>b, <1>c, NamesKnown, PropTokens
    <2>7. fdt_prop_cells1("interrupt-parent", FDT_PLIC_PHANDLE) \in Properties
      BY <1>a, <1>b, <1>c, NamesKnown, PropTokens
    <2>8. fdt_prop_cells1("interrupts", UART_IRQ) \in Properties
      BY <1>a, <1>b, <1>c, NamesKnown, PropTokens
    <2> QED
      BY <2>1, <2>2, <2>3, <2>4, <2>5, <2>6, <2>7, <2>8 DEF UartProps
  <1> QED
    BY <1>1, <1>2, <1>3, <1>4, <1>5, <1>6, <1>7, <1>8, <1>9

\* The range of the initrd is two properties, or none.
LEMMA RangeRow ==
    ASSUME NEW start \in Nat, NEW end \in Nat
    PROVE  InitrdRange(start, end) \in Seq(Properties)
  <1> DEFINE y == InitrdRange(start, end)
  <1>1. fdt_prop_cells2("linux,initrd-start", 0, start) \in Properties
    BY NamesKnown, PropTokens
  <1>2. fdt_prop_cells2("linux,initrd-end", 0, end) \in Properties
    BY NamesKnown, PropTokens
  <1>3. <<fdt_prop_cells2("linux,initrd-start", 0, start), fdt_prop_cells2("linux,initrd-end", 0, end)>>
          \in Seq(Properties)
    BY <1>1, <1>2, Pair
  <1>4. <<>> \in Seq(Properties)
    OBVIOUS
  <1>5. \/ y = <<fdt_prop_cells2("linux,initrd-start", 0, start), fdt_prop_cells2("linux,initrd-end", 0, end)>>
        \/ y = <<>>
    BY DEF InitrdRange
  <1> QED
    BY <1>3, <1>4, <1>5, Zenon

\* The row of the chosen node.
LEMMA ChosenRow ==
    ASSUME NEW start \in Nat, NEW end \in Nat
    PROVE  /\ <<fdt_prop_str("stdout-path"), fdt_prop_str("bootargs")>> \in Seq(Properties)
           /\ ChosenProps(start, end) \in Seq(Properties)
  <1> DEFINE x == <<fdt_prop_str("stdout-path"), fdt_prop_str("bootargs")>>
             y == InitrdRange(start, end)
  <1>1. x \in Seq(Properties)
    <2>1. fdt_prop_str("stdout-path") \in Properties
      BY NamesKnown, PropTokens
    <2>2. fdt_prop_str("bootargs") \in Properties
      BY NamesKnown, PropTokens
    <2> QED
      BY <2>1, <2>2
  <1>2. y \in Seq(Properties)
    BY RangeRow
  <1>3. ChosenProps(start, end) = x \o y
    BY DEF ChosenProps
  <1>4. x \o y \in Seq(Properties)
    <2> HIDE DEF x, y
    <2> QED
      BY <1>1, <1>2
  <1> QED
    BY <1>1, <1>3, <1>4, Zenon

\* A sequence that is another with one element more.
LEMMA AppendTo ==
    ASSUME NEW S, NEW x \in Seq(S), NEW y \in Seq(S), NEW e \in S, Len(y) = Len(x) + 1,
           y[Len(x) + 1] = e, \A i \in 1 .. Len(x) : y[i] = x[i]
    PROVE  Append(x, e) = y
  <1> DEFINE z == Append(x, e)
  <1>0. Len(x) \in Nat
    BY LenProperties
  <1>1. /\ z \in Seq(S) /\ Len(z) = Len(x) + 1 /\ z[Len(x) + 1] = e
        /\ \A i \in 1 .. Len(x) : z[i] = x[i]
    BY AppendProperties
  <1> HIDE DEF z
  <1>2. \A i \in 1 .. Len(z) : i \in 1 .. Len(x) \/ i = Len(x) + 1
    BY <1>0, <1>1
  <1>3. \A i \in 1 .. Len(z) : z[i] = y[i]
    BY <1>1, <1>2
  <1>4. z = y
    BY <1>1, <1>3, SeqEqual
  <1> QED
    BY <1>4 DEF z

\* Paths, name by name.
LEMMA Paths ==
    /\ <<>> \in Path /\ Root \in Path /\ CpusNode \in Path /\ CpuNode \in Path /\ SocNode \in Path
    /\ Append(<<>>, "/") = Root
    /\ Append(Root, "chosen") = ChosenNode /\ Append(Root, "memory") = MemoryNode
    /\ Append(Root, "cpus") = CpusNode /\ Append(CpusNode, "cpu") = CpuNode
    /\ Append(CpuNode, "interrupt-controller") = IntcNode
    /\ Append(Root, "soc") = SocNode /\ Append(SocNode, "clint") = ClintNode
    /\ Append(SocNode, "plic") = PlicNode /\ Append(SocNode, "uart") = UartNode
  <1>1. \A a, b, c, d : /\ Append(<<>>, a) = <<a>> /\ Append(<<a>>, b) = <<a, b>>
                        /\ Append(<<a, b>>, c) = <<a, b, c>>
                        /\ Append(<<a, b, c>>, d) = <<a, b, c, d>>
    <2> SUFFICES ASSUME NEW a, NEW b, NEW c, NEW d
                 PROVE  /\ Append(<<>>, a) = <<a>> /\ Append(<<a>>, b) = <<a, b>>
                        /\ Append(<<a, b>>, c) = <<a, b, c>>
                        /\ Append(<<a, b, c>>, d) = <<a, b, c, d>>
      OBVIOUS
    <2> DEFINE S == {a, b, c, d}
    <2>s. a \in S /\ b \in S /\ c \in S /\ d \in S
      OBVIOUS
    <2> HIDE DEF S
    <2>1. Append(<<>>, a) = <<a>>
      BY <2>s, AppendProperties, SeqEqual
    <2>2. Append(<<a>>, b) = <<a, b>>
      <3>1. <<a>> \in Seq(S) /\ Len(<<a>>) = 1 /\ <<a, b>> \in Seq(S) /\ Len(<<a, b>>) = 2
        BY <2>s
      <3>2. <<a, b>>[1 + 1] = b /\ \A i \in 1 .. 1 : <<a, b>>[i] = <<a>>[i]
        OBVIOUS
      <3> DEFINE x == <<a>>
                 y == <<a, b>>
      <3>3. x \in Seq(S) /\ y \in Seq(S) /\ Len(x) = 1 /\ Len(y) = 1 + 1 /\ y[1 + 1] = b
            /\ \A i \in 1 .. 1 : y[i] = x[i]
        BY <3>1, <3>2
      <3>t. x \in Seq(S) /\ y \in Seq(S)
        BY <3>1
      <3> HIDE DEF x, y
      <3>4. Len(y) = Len(x) + 1 /\ y[Len(x) + 1] = b /\ \A i \in 1 .. Len(x) : y[i] = x[i]
        BY <3>3
      <3>5. Append(x, b) = y
        BY <2>s, <3>t, <3>4, AppendTo, Zenon
      <3> QED
        BY <3>5 DEF x, y
    <2>3. Append(<<a, b>>, c) = <<a, b, c>>
      <3>1. <<a, b>> \in Seq(S) /\ Len(<<a, b>>) = 2 /\ <<a, b, c>> \in Seq(S) /\ Len(<<a, b, c>>) = 3
        BY <2>s
      <3>2. <<a, b, c>>[2 + 1] = c /\ \A i \in 1 .. 2 : <<a, b, c>>[i] = <<a, b>>[i]
        OBVIOUS
      <3> DEFINE x == <<a, b>>
                 y == <<a, b, c>>
      <3>3. x \in Seq(S) /\ y \in Seq(S) /\ Len(x) = 2 /\ Len(y) = 2 + 1 /\ y[2 + 1] = c
            /\ \A i \in 1 .. 2 : y[i] = x[i]
        BY <3>1, <3>2
      <3>t. x \in Seq(S) /\ y \in Seq(S)
        BY <3>1
      <3> HIDE DEF x, y
      <3>4. Len(y) = Len(x) + 1 /\ y[Len(x) + 1] = c /\ \A i \in 1 .. Len(x) : y[i] = x[i]
        BY <3>3
      <3>5. Append(x, c) = y
        BY <2>s, <3>t, <3>4, AppendTo, Zenon
      <3> QED
        BY <3>5 DEF x, y
    <2>4. Append(<<a, b, c>>, d) = <<a, b, c, d>>
      <3>1. <<a, b, c>> \in Seq(S) /\ Len(<<a, b, c>>) = 3 /\ <<a, b, c, d>> \in Seq(S) /\ Len(<<a, b, c, d>>) = 4
        BY <2>s
      <3>2. <<a, b, c, d>>[3 + 1] = d /\ \A i \in 1 .. 3 : <<a, b, c, d>>[i] = <<a, b, c>>[i]
        OBVIOUS
      <3> DEFINE x == <<a, b, c>>
                 y == <<a, b, c, d>>
      <3>3. x \in Seq(S) /\ y \in Seq(S) /\ Len(x) = 3 /\ Len(y) = 3 + 1 /\ y[3 + 1] = d
            /\ \A i \in 1 .. 3 : y[i] = x[i]
        BY <3>1, <3>2
      <3>t. x \in Seq(S) /\ y \in Seq(S)
        BY <3>1
      <3> HIDE DEF x, y
      <3>4. Len(y) = Len(x) + 1 /\ y[Len(x) + 1] = d /\ \A i \in 1 .. Len(x) : y[i] = x[i]
        BY <3>3
      <3>5. Append(x, d) = y
        BY <2>s, <3>t, <3>4, AppendTo, Zenon
      <3> QED
        BY <3>5 DEF x, y
    <2> QED
      BY <2>1, <2>2, <2>3, <2>4
  <1>2. \A s \in Path, x \in NodeNames : Append(s, x) \in Path
    BY DEF Path
  <1>3. <<>> \in Path
    BY DEF Path
  <1>4. /\ Append(<<>>, "/") = Root
        /\ Append(Root, "chosen") = ChosenNode /\ Append(Root, "memory") = MemoryNode
        /\ Append(Root, "cpus") = CpusNode /\ Append(CpusNode, "cpu") = CpuNode
        /\ Append(CpuNode, "interrupt-controller") = IntcNode
        /\ Append(Root, "soc") = SocNode /\ Append(SocNode, "clint") = ClintNode
        /\ Append(SocNode, "plic") = PlicNode /\ Append(SocNode, "uart") = UartNode
    BY <1>1, ZenonT(60) DEF Root, ChosenNode, MemoryNode, CpusNode, CpuNode, IntcNode,
         SocNode, ClintNode, PlicNode, UartNode
  <1>5. Root \in Path
    BY <1>2, <1>3, <1>4, NamesKnown
  <1>6. CpusNode \in Path /\ SocNode \in Path
    BY <1>2, <1>4, <1>5, NamesKnown
  <1>7. CpuNode \in Path
    BY <1>2, <1>4, <1>6, NamesKnown
  <1> QED
    BY <1>3, <1>4, <1>5, <1>6, <1>7

TreeProps(start, end) ==
    Owned(Root, RootProps) \union Owned(ChosenNode, ChosenProps(start, end))
      \union Owned(MemoryNode, MemoryProps)
      \union (Owned(CpusNode, CpusProps) \union Owned(CpuNode, CpuProps) \union Owned(IntcNode, IntcProps))
      \union (Owned(SocNode, SocProps) \union Owned(ClintNode, ClintProps)
               \union Owned(PlicNode, PlicProps) \union Owned(UartNode, UartProps))

Body(start, end) == RootProps \o Chosen(start, end) \o Memory \o Cpus \o Soc

\* A node of properties only.
LEMMA ParsedLeaf ==
    ASSUME NEW o \in Path, NEW name \in NodeNames, NEW ps \in Seq(Properties)
    PROVE  Parsed(Node(name, ps), o, {Append(o, name)}, Owned(Append(o, name), ps))
  <1>1. Append(o, name) \in Path
    BY DEF Path
  <1>2. Parsed(ps, Append(o, name), {}, Owned(Append(o, name), ps))
    BY <1>1, ParsedProps
  <1>3. Parsed(Node(name, ps), o, {Append(o, name)} \union {}, Owned(Append(o, name), ps))
    BY <1>2, ParsedNode
  <1>4. {Append(o, name)} \union {} = {Append(o, name)}
    OBVIOUS
  <1> QED
    BY <1>3, <1>4

\* What the description of the machine says.
LEMMA BodyParsed ==
    ASSUME NEW start \in Nat, NEW end \in Nat
    PROVE  /\ Parsed(Body(start, end), Root, InnerNodes, TreeProps(start, end))
           /\ Parsed(Node("/", Body(start, end)), <<>>, TreeNodes, TreeProps(start, end))
  <1>1. Parsed(RootProps, Root, {}, Owned(Root, RootProps))
    BY ParsedProps, Paths, Rows
  <1>2. Parsed(Chosen(start, end), Root, {ChosenNode}, Owned(ChosenNode, ChosenProps(start, end)))
    <2>1. Chosen(start, end) = Node("chosen", ChosenProps(start, end))
      BY DEF Chosen, ChosenProps
    <2> QED
      BY <2>1, ChosenRow, ParsedLeaf, Paths, NamesKnown
  <1>3. Parsed(Memory, Root, {MemoryNode}, Owned(MemoryNode, MemoryProps))
    <2>1. Memory = Node("memory", MemoryProps)
      BY DEF Memory, MemoryProps
    <2> QED
      BY <2>1, Rows, ParsedLeaf, Paths, NamesKnown
  <1>4. Parsed(Intc, CpuNode, {IntcNode}, Owned(IntcNode, IntcProps))
    <2>1. Intc = Node("interrupt-controller", IntcProps)
      BY DEF Intc, IntcProps
    <2> QED
      BY <2>1, Rows, ParsedLeaf, Paths, NamesKnown
  <1>5. Parsed(Cpu, CpusNode, {CpuNode} \union ({} \union {IntcNode}),
               Owned(CpuNode, CpuProps) \union Owned(IntcNode, IntcProps))
    <2>1. Cpu = Node("cpu", CpuProps \o Intc)
      BY DEF Cpu, CpuProps
    <2>2. Parsed(CpuProps, CpuNode, {}, Owned(CpuNode, CpuProps))
      BY ParsedProps, Paths, Rows
    <2>3. Parsed(CpuProps \o Intc, CpuNode, {} \union {IntcNode},
                 Owned(CpuNode, CpuProps) \union Owned(IntcNode, IntcProps))
      BY <1>4, <2>2, ParsedConcat
    <2> QED
      BY <2>1, <2>3, ParsedNode, Paths, NamesKnown
  <1>6. Parsed(Cpus, Root, {CpusNode} \union ({} \union ({CpuNode} \union ({} \union {IntcNode}))),
               Owned(CpusNode, CpusProps) \union (Owned(CpuNode, CpuProps) \union Owned(IntcNode, IntcProps)))
    <2>1. Cpus = Node("cpus", CpusProps \o Cpu)
      BY DEF Cpus, CpusProps
    <2>2. Parsed(CpusProps, CpusNode, {}, Owned(CpusNode, CpusProps))
      BY ParsedProps, Paths, Rows
    <2>3. Parsed(CpusProps \o Cpu, CpusNode, {} \union ({CpuNode} \union ({} \union {IntcNode})),
                 Owned(CpusNode, CpusProps) \union (Owned(CpuNode, CpuProps) \union Owned(IntcNode, IntcProps)))
      BY <1>5, <2>2, ParsedConcat
    <2> QED
      BY <2>1, <2>3, ParsedNode, Paths, NamesKnown
  <1>7. Parsed(Soc, Root, {SocNode} \union ((({} \union {ClintNode}) \union {PlicNode}) \union {UartNode}),
               ((Owned(SocNode, SocProps) \union Owned(ClintNode, ClintProps))
                 \union Owned(PlicNode, PlicProps)) \union Owned(UartNode, UartProps))
    <2>1. Soc = Node("soc", ((SocProps \o fdt_build_clint) \o fdt_build_plic) \o fdt_build_uart)
      BY DEF Soc, SocProps
    <2>2. Parsed(SocProps, SocNode, {}, Owned(SocNode, SocProps))
      BY ParsedProps, Paths, Rows
    <2>3. Parsed(fdt_build_clint, SocNode, {ClintNode}, Owned(ClintNode, ClintProps))
      <3>1. fdt_build_clint = Node("clint", ClintProps)
        BY DEF fdt_build_clint, ClintProps
      <3> QED
        BY <3>1, Rows, ParsedLeaf, Paths, NamesKnown
    <2>4. Parsed(fdt_build_plic, SocNode, {PlicNode}, Owned(PlicNode, PlicProps))
      <3>1. fdt_build_plic = Node("plic", PlicProps)
        BY DEF fdt_build_plic, PlicProps
      <3> QED
        BY <3>1, Rows, ParsedLeaf, Paths, NamesKnown
    <2>5. Parsed(fdt_build_uart, SocNode, {UartNode}, Owned(UartNode, UartProps))
      <3>1. fdt_build_uart = Node("uart", UartProps)
        BY DEF fdt_build_uart, UartProps
      <3> QED
        BY <3>1, Rows, ParsedLeaf, Paths, NamesKnown
    <2>6. Parsed(SocProps \o fdt_build_clint, SocNode, {} \union {ClintNode},
                 Owned(SocNode, SocProps) \union Owned(ClintNode, ClintProps))
      BY <2>2, <2>3, ParsedConcat
    <2>7. Parsed((SocProps \o fdt_build_clint) \o fdt_build_plic, SocNode,
                 ({} \union {ClintNode}) \union {PlicNode},
                 (Owned(SocNode, SocProps) \union Owned(ClintNode, ClintProps))
                   \union Owned(PlicNode, PlicProps))
      BY <2>4, <2>6, ParsedConcat
    <2>8. Parsed(((SocProps \o fdt_build_clint) \o fdt_build_plic) \o fdt_build_uart, SocNode,
                 (({} \union {ClintNode}) \union {PlicNode}) \union {UartNode},
                 ((Owned(SocNode, SocProps) \union Owned(ClintNode, ClintProps))
                   \union Owned(PlicNode, PlicProps)) \union Owned(UartNode, UartProps))
      BY <2>5, <2>7, ParsedConcat
    <2> QED
      BY <2>1, <2>8, ParsedNode, Paths, NamesKnown
  <1> DEFINE P1 == Owned(Root, RootProps)
             P2 == Owned(ChosenNode, ChosenProps(start, end))
             P3 == Owned(MemoryNode, MemoryProps)
             N4 == {CpusNode} \union ({} \union ({CpuNode} \union ({} \union {IntcNode})))
             P4 == Owned(CpusNode, CpusProps) \union (Owned(CpuNode, CpuProps) \union Owned(IntcNode, IntcProps))
             N5 == {SocNode} \union ((({} \union {ClintNode}) \union {PlicNode}) \union {UartNode})
             P5 == ((Owned(SocNode, SocProps) \union Owned(ClintNode, ClintProps))
                     \union Owned(PlicNode, PlicProps)) \union Owned(UartNode, UartProps)
             N == ((({} \union {ChosenNode}) \union {MemoryNode}) \union N4) \union N5
             P == (((P1 \union P2) \union P3) \union P4) \union P5
  <1>n. N = InnerNodes
    BY DEF InnerNodes
  <1>p. P = TreeProps(start, end)
    BY DEF TreeProps
  <1>c. Parsed(Cpus, Root, N4, P4) /\ Parsed(Soc, Root, N5, P5)
    BY <1>6, <1>7
  <1> HIDE DEF P1, P2, P3, P4, P5, N4, N5
  <1>8. Parsed(RootProps \o Chosen(start, end), Root, {} \union {ChosenNode}, P1 \union P2)
    BY <1>1, <1>2, ParsedConcat DEF P1, P2
  <1>9. Parsed((RootProps \o Chosen(start, end)) \o Memory, Root, ({} \union {ChosenNode}) \union {MemoryNode},
               (P1 \union P2) \union P3)
    BY <1>3, <1>8, ParsedConcat DEF P3
  <1>10. Parsed(((RootProps \o Chosen(start, end)) \o Memory) \o Cpus, Root,
                (({} \union {ChosenNode}) \union {MemoryNode}) \union N4, ((P1 \union P2) \union P3) \union P4)
    BY <1>9, <1>c, ParsedConcat
  <1>11. Parsed((((RootProps \o Chosen(start, end)) \o Memory) \o Cpus) \o Soc, Root, N, P)
    BY <1>10, <1>c, ParsedConcat
  <1> HIDE DEF N, P
  <1>12. Parsed(Body(start, end), Root, InnerNodes, TreeProps(start, end))
    BY <1>11, <1>n, <1>p DEF Body
  <1>13. Parsed(Node("/", Body(start, end)), <<>>, {Root} \union InnerNodes, TreeProps(start, end))
    BY <1>12, ParsedNode, Paths, NamesKnown
  <1> QED
    BY <1>12, <1>13 DEF TreeNodes

\* The tree that is written, and what is read from it.
LEMMA TreeRead ==
    ASSUME NEW start \in Nat, NEW end \in Nat
    PROVE  LET b == fdt_build_riscvemu(start, end)
           IN  b.h = 1 /\ Read(b.out) = [open |-> <<>>, nodes |-> TreeNodes, props |-> TreeProps(start, end)]
  <1> DEFINE s == Body(start, end)
             b == fdt_build_riscvemu(start, end)
             c == [out |-> <<Begin("/")>> \o s, depth |-> 0, h |-> 1]
  <1>1. PICK w : Walk(s, Root, w)
    BY BodyParsed DEF Parsed
  <1>2. PICK v : /\ Walk(Node("/", s), <<>>, v)
                 /\ TreeNodes = NodesTo(Node("/", s), v, Len(Node("/", s)))
                 /\ TreeProps(start, end) = PropsTo(Node("/", s), v, Len(Node("/", s)))
    BY BodyParsed DEF Parsed
  <1>3. b = fdt_serialize(Fold(Call, fdt_builder_init, s))
    BY DEF fdt_build_riscvemu, Body, RootProps
  <1> HIDE DEF s
  <1>4. Fold(Call, fdt_builder_init, s) = c
    BY <1>1, CallsWrite
  <1>5. b = [out |-> Append(<<Begin("/")>> \o s, End), depth |-> 0, h |-> 1]
    <2>1. b = fdt_serialize(c)
      BY <1>3, <1>4
    <2>2. c.h = 1 /\ c.depth = 0 /\ c.out = <<Begin("/")>> \o s
      OBVIOUS
    <2>3. fdt_serialize(c) = [c EXCEPT !.out = Append(c.out, End)]
      BY <2>2 DEF fdt_serialize
    <2> HIDE DEF b
    <2>4. \A x : [c EXCEPT !.out = x] = [out |-> x, depth |-> 0, h |-> 1]
      OBVIOUS
    <2> HIDE DEF c
    <2> QED
      BY <2>1, <2>2, <2>3, <2>4
  <1>6. Append(<<Begin("/")>> \o s, End) = Node("/", s)
    <2>1. s \in Seq(Tokens) /\ Begin("/") \in Tokens /\ End \in Tokens
      BY <1>1, NamesKnown DEF Walk, Tokens
    <2>2. <<Begin("/")>> \o s \in Seq(Tokens)
      BY <2>1
    <2> QED
      BY <2>1, <2>2, AppendIsConcat DEF Node, Push, Pop
  <1>7. b.h = 1 /\ b.out = Node("/", s)
    <2> HIDE DEF b
    <2> QED
      BY <1>5, <1>6
  <1>8. Read(Node("/", s)) = [open |-> <<>>, nodes |-> TreeNodes, props |-> TreeProps(start, end)]
    BY <1>2, ReadIs
  <1> HIDE DEF b
  <1>9. b.h = 1 /\ Read(b.out) = [open |-> <<>>, nodes |-> TreeNodes, props |-> TreeProps(start, end)]
    BY <1>7, <1>8
  <1> QED
    BY <1>9 DEF b

\* No two nodes have the same path.
LEMMA NodesDiffer ==
    /\ Root # ChosenNode /\ Root # MemoryNode /\ Root # CpusNode /\ Root # CpuNode
    /\ Root # IntcNode /\ Root # SocNode /\ Root # ClintNode /\ Root # PlicNode /\ Root # UartNode
    /\ ChosenNode # MemoryNode /\ ChosenNode # CpusNode /\ ChosenNode # CpuNode
    /\ ChosenNode # IntcNode /\ ChosenNode # SocNode /\ ChosenNode # ClintNode
    /\ ChosenNode # PlicNode /\ ChosenNode # UartNode
    /\ MemoryNode # CpusNode /\ MemoryNode # CpuNode /\ MemoryNode # IntcNode
    /\ MemoryNode # SocNode /\ MemoryNode # ClintNode /\ MemoryNode # PlicNode
    /\ MemoryNode # UartNode
    /\ CpusNode # CpuNode /\ CpusNode # IntcNode /\ CpusNode # SocNode /\ CpusNode # ClintNode
    /\ CpusNode # PlicNode /\ CpusNode # UartNode
    /\ CpuNode # IntcNode /\ CpuNode # SocNode /\ CpuNode # ClintNode /\ CpuNode # PlicNode
    /\ CpuNode # UartNode
    /\ IntcNode # SocNode /\ IntcNode # ClintNode /\ IntcNode # PlicNode /\ IntcNode # UartNode
    /\ SocNode # ClintNode /\ SocNode # PlicNode /\ SocNode # UartNode
    /\ ClintNode # PlicNode /\ ClintNode # UartNode
    /\ PlicNode # UartNode
  BY DEF Root, ChosenNode, MemoryNode, CpusNode, CpuNode, IntcNode, SocNode, ClintNode, PlicNode,
       UartNode

\* The property c of a row has the value v.
Holds(ps, c, v) == \E i \in 1 .. Len(ps) : ps[i].name = c /\ ps[i].val = v

\* The values of a node are those of its own row.
LEMMA OwnedValues ==
    ASSUME NEW r, NEW n, NEW ps, NEW Q, r.props = Owned(n, ps) \union Q, \A q \in Q : q.node # n
    PROVE  \A c, v : v \in Values(r, n, c) <=> Holds(ps, c, v)
  <1> SUFFICES ASSUME NEW c, NEW v PROVE v \in Values(r, n, c) <=> Holds(ps, c, v)
    OBVIOUS
  <1>1. ASSUME v \in Values(r, n, c) PROVE Holds(ps, c, v)
    <2>1. PICK p \in r.props : p.node = n /\ p.name = c /\ p.val = v
      BY <1>1 DEF Values
    <2>2. p \in Owned(n, ps)
      BY <2>1
    <2>3. PICK i \in 1 .. Len(ps) : p = [node |-> n, name |-> ps[i].name, val |-> ps[i].val]
      BY <2>2 DEF Owned
    <2> QED
      BY <2>1, <2>3 DEF Holds
  <1>2. ASSUME Holds(ps, c, v) PROVE v \in Values(r, n, c)
    <2>1. PICK i \in 1 .. Len(ps) : ps[i].name = c /\ ps[i].val = v
      BY <1>2 DEF Holds
    <2> DEFINE p == [node |-> n, name |-> ps[i].name, val |-> ps[i].val]
    <2>2. p \in r.props
      BY DEF Owned
    <2>3. p.node = n /\ p.name = c /\ p.val = v
      BY <2>1
    <2> HIDE DEF p
    <2> QED
      BY <2>2, <2>3 DEF Values
  <1> QED
    BY <1>1, <1>2

\* A row belongs to its node.
LEMMA OwnedNode ==
    ASSUME NEW n, NEW ps, NEW q \in Owned(n, ps)
    PROVE  q.node = n
  BY DEF Owned

\* What the reader knows of each node.
ReadsTree(r, start, end) ==
    /\ \A c, v : v \in Values(r, Root, c) <=> Holds(RootProps, c, v)
    /\ \A c, v : v \in Values(r, ChosenNode, c) <=> Holds(ChosenProps(start, end), c, v)
    /\ \A c, v : v \in Values(r, MemoryNode, c) <=> Holds(MemoryProps, c, v)
    /\ \A c, v : v \in Values(r, CpusNode, c) <=> Holds(CpusProps, c, v)
    /\ \A c, v : v \in Values(r, CpuNode, c) <=> Holds(CpuProps, c, v)
    /\ \A c, v : v \in Values(r, IntcNode, c) <=> Holds(IntcProps, c, v)
    /\ \A c, v : v \in Values(r, SocNode, c) <=> Holds(SocProps, c, v)
    /\ \A c, v : v \in Values(r, ClintNode, c) <=> Holds(ClintProps, c, v)
    /\ \A c, v : v \in Values(r, PlicNode, c) <=> Holds(PlicProps, c, v)
    /\ \A c, v : v \in Values(r, UartNode, c) <=> Holds(UartProps, c, v)

\* The reader's values are those of the rows.
LEMMA TreeValues ==
    ASSUME NEW start, NEW end, NEW r, r.props = TreeProps(start, end)
    PROVE  ReadsTree(r, start, end)
  <1>1. \A c, v : v \in Values(r, Root, c) <=> Holds(RootProps, c, v)
    <2> DEFINE Q == Owned(ChosenNode, ChosenProps(start, end))
                       \union Owned(MemoryNode, MemoryProps) \union Owned(CpusNode, CpusProps)
                       \union Owned(CpuNode, CpuProps) \union Owned(IntcNode, IntcProps)
                       \union Owned(SocNode, SocProps)
                       \union Owned(ClintNode, ClintProps)
                       \union Owned(PlicNode, PlicProps) \union Owned(UartNode, UartProps)
    <2>1. TreeProps(start, end) = Owned(Root, RootProps) \union Q
      BY DEF TreeProps
    <2>2. \A q \in Q : q.node # Root
      BY OwnedNode, NodesDiffer
    <2> HIDE DEF Q
    <2> QED
      BY <2>1, <2>2, OwnedValues
  <1>2. \A c, v : v \in Values(r, ChosenNode, c) <=> Holds(ChosenProps(start, end), c, v)
    <2> DEFINE Q == Owned(Root, RootProps) \union Owned(MemoryNode, MemoryProps)
                       \union Owned(CpusNode, CpusProps)
                       \union Owned(CpuNode, CpuProps) \union Owned(IntcNode, IntcProps)
                       \union Owned(SocNode, SocProps)
                       \union Owned(ClintNode, ClintProps)
                       \union Owned(PlicNode, PlicProps) \union Owned(UartNode, UartProps)
    <2>1. TreeProps(start, end) = Owned(ChosenNode, ChosenProps(start, end)) \union Q
      BY DEF TreeProps
    <2>2. \A q \in Q : q.node # ChosenNode
      BY OwnedNode, NodesDiffer
    <2> HIDE DEF Q
    <2> QED
      BY <2>1, <2>2, OwnedValues
  <1>3. \A c, v : v \in Values(r, MemoryNode, c) <=> Holds(MemoryProps, c, v)
    <2> DEFINE Q == Owned(Root, RootProps)
                       \union Owned(ChosenNode, ChosenProps(start, end))
                       \union Owned(CpusNode, CpusProps)
                       \union Owned(CpuNode, CpuProps) \union Owned(IntcNode, IntcProps)
                       \union Owned(SocNode, SocProps)
                       \union Owned(ClintNode, ClintProps)
                       \union Owned(PlicNode, PlicProps) \union Owned(UartNode, UartProps)
    <2>1. TreeProps(start, end) = Owned(MemoryNode, MemoryProps) \union Q
      BY DEF TreeProps
    <2>2. \A q \in Q : q.node # MemoryNode
      BY OwnedNode, NodesDiffer
    <2> HIDE DEF Q
    <2> QED
      BY <2>1, <2>2, OwnedValues
  <1>4. \A c, v : v \in Values(r, CpusNode, c) <=> Holds(CpusProps, c, v)
    <2> DEFINE Q == Owned(Root, RootProps)
                       \union Owned(ChosenNode, ChosenProps(start, end))
                       \union Owned(MemoryNode, MemoryProps)
                       \union Owned(CpuNode, CpuProps) \union Owned(IntcNode, IntcProps)
                       \union Owned(SocNode, SocProps)
                       \union Owned(ClintNode, ClintProps)
                       \union Owned(PlicNode, PlicProps) \union Owned(UartNode, UartProps)
    <2>1. TreeProps(start, end) = Owned(CpusNode, CpusProps) \union Q
      BY DEF TreeProps
    <2>2. \A q \in Q : q.node # CpusNode
      BY OwnedNode, NodesDiffer
    <2> HIDE DEF Q
    <2> QED
      BY <2>1, <2>2, OwnedValues
  <1>5. \A c, v : v \in Values(r, CpuNode, c) <=> Holds(CpuProps, c, v)
    <2> DEFINE Q == Owned(Root, RootProps)
                       \union Owned(ChosenNode, ChosenProps(start, end))
                       \union Owned(MemoryNode, MemoryProps)
                       \union Owned(CpusNode, CpusProps) \union Owned(IntcNode, IntcProps)
                       \union Owned(SocNode, SocProps)
                       \union Owned(ClintNode, ClintProps)
                       \union Owned(PlicNode, PlicProps) \union Owned(UartNode, UartProps)
    <2>1. TreeProps(start, end) = Owned(CpuNode, CpuProps) \union Q
      BY DEF TreeProps
    <2>2. \A q \in Q : q.node # CpuNode
      BY OwnedNode, NodesDiffer
    <2> HIDE DEF Q
    <2> QED
      BY <2>1, <2>2, OwnedValues
  <1>6. \A c, v : v \in Values(r, IntcNode, c) <=> Holds(IntcProps, c, v)
    <2> DEFINE Q == Owned(Root, RootProps)
                       \union Owned(ChosenNode, ChosenProps(start, end))
                       \union Owned(MemoryNode, MemoryProps)
                       \union Owned(CpusNode, CpusProps) \union Owned(CpuNode, CpuProps)
                       \union Owned(SocNode, SocProps)
                       \union Owned(ClintNode, ClintProps)
                       \union Owned(PlicNode, PlicProps) \union Owned(UartNode, UartProps)
    <2>1. TreeProps(start, end) = Owned(IntcNode, IntcProps) \union Q
      BY DEF TreeProps
    <2>2. \A q \in Q : q.node # IntcNode
      BY OwnedNode, NodesDiffer
    <2> HIDE DEF Q
    <2> QED
      BY <2>1, <2>2, OwnedValues
  <1>7. \A c, v : v \in Values(r, SocNode, c) <=> Holds(SocProps, c, v)
    <2> DEFINE Q == Owned(Root, RootProps)
                       \union Owned(ChosenNode, ChosenProps(start, end))
                       \union Owned(MemoryNode, MemoryProps)
                       \union Owned(CpusNode, CpusProps) \union Owned(CpuNode, CpuProps)
                       \union Owned(IntcNode, IntcProps)
                       \union Owned(ClintNode, ClintProps)
                       \union Owned(PlicNode, PlicProps) \union Owned(UartNode, UartProps)
    <2>1. TreeProps(start, end) = Owned(SocNode, SocProps) \union Q
      BY DEF TreeProps
    <2>2. \A q \in Q : q.node # SocNode
      BY OwnedNode, NodesDiffer
    <2> HIDE DEF Q
    <2> QED
      BY <2>1, <2>2, OwnedValues
  <1>8. \A c, v : v \in Values(r, ClintNode, c) <=> Holds(ClintProps, c, v)
    <2> DEFINE Q == Owned(Root, RootProps)
                       \union Owned(ChosenNode, ChosenProps(start, end))
                       \union Owned(MemoryNode, MemoryProps)
                       \union Owned(CpusNode, CpusProps) \union Owned(CpuNode, CpuProps)
                       \union Owned(IntcNode, IntcProps)
                       \union Owned(SocNode, SocProps) \union Owned(PlicNode, PlicProps)
                       \union Owned(UartNode, UartProps)
    <2>1. TreeProps(start, end) = Owned(ClintNode, ClintProps) \union Q
      BY DEF TreeProps
    <2>2. \A q \in Q : q.node # ClintNode
      BY OwnedNode, NodesDiffer
    <2> HIDE DEF Q
    <2> QED
      BY <2>1, <2>2, OwnedValues
  <1>9. \A c, v : v \in Values(r, PlicNode, c) <=> Holds(PlicProps, c, v)
    <2> DEFINE Q == Owned(Root, RootProps)
                       \union Owned(ChosenNode, ChosenProps(start, end))
                       \union Owned(MemoryNode, MemoryProps)
                       \union Owned(CpusNode, CpusProps) \union Owned(CpuNode, CpuProps)
                       \union Owned(IntcNode, IntcProps)
                       \union Owned(SocNode, SocProps) \union Owned(ClintNode, ClintProps)
                       \union Owned(UartNode, UartProps)
    <2>1. TreeProps(start, end) = Owned(PlicNode, PlicProps) \union Q
      BY DEF TreeProps
    <2>2. \A q \in Q : q.node # PlicNode
      BY OwnedNode, NodesDiffer
    <2> HIDE DEF Q
    <2> QED
      BY <2>1, <2>2, OwnedValues
  <1>10. \A c, v : v \in Values(r, UartNode, c) <=> Holds(UartProps, c, v)
    <2> DEFINE Q == Owned(Root, RootProps)
                       \union Owned(ChosenNode, ChosenProps(start, end))
                       \union Owned(MemoryNode, MemoryProps)
                       \union Owned(CpusNode, CpusProps) \union Owned(CpuNode, CpuProps)
                       \union Owned(IntcNode, IntcProps)
                       \union Owned(SocNode, SocProps) \union Owned(ClintNode, ClintProps)
                       \union Owned(PlicNode, PlicProps)
    <2>1. TreeProps(start, end) = Owned(UartNode, UartProps) \union Q
      BY DEF TreeProps
    <2>2. \A q \in Q : q.node # UartNode
      BY OwnedNode, NodesDiffer
    <2> HIDE DEF Q
    <2> QED
      BY <2>1, <2>2, OwnedValues
  <1> QED
    BY <1>1, <1>2, <1>3, <1>4, <1>5, <1>6, <1>7, <1>8, <1>9, <1>10 DEF ReadsTree
\* The name and the value of a property token.
LEMMA PropParts ==
    ASSUME NEW t, NEW x, NEW y, t = Prop(x, y)
    PROVE  \A c, v : (t.name = c /\ t.val = v) <=> (c = x /\ v = y)
  BY DEF Prop

\* What each row says, property by property; first the root's.
LEMMA RootSays ==
    \A c, v : Holds(RootProps, c, v) <=>
        \/ c = "#address-cells" /\ v = <<2>>
        \/ c = "#size-cells" /\ v = <<2>>
        \/ c = "compatible" /\ v = <<>>
        \/ c = "model" /\ v = <<>>
  <1> DEFINE ps == RootProps
             At(i, c, v) == ps[i].name = c /\ ps[i].val = v
  <1>1. Len(ps) = 4
    BY DEF RootProps
  <1>p1. ps[1] = Prop("#address-cells", <<2>>)
    BY DEF RootProps, fdt_prop_cells1, fdt_prop_word, fdt_prop_str, fdt_prop_empty,
         FDT_CPU_INTC_PHANDLE, FDT_PLIC_PHANDLE,
         UART_IRQ, PLIC_NDEV
  <1>p2. ps[2] = Prop("#size-cells", <<2>>)
    BY DEF RootProps, fdt_prop_cells1, fdt_prop_word, fdt_prop_str, fdt_prop_empty,
         FDT_CPU_INTC_PHANDLE, FDT_PLIC_PHANDLE,
         UART_IRQ, PLIC_NDEV
  <1>p3. ps[3] = Prop("compatible", <<>>)
    BY DEF RootProps, fdt_prop_cells1, fdt_prop_word, fdt_prop_str, fdt_prop_empty,
         FDT_CPU_INTC_PHANDLE, FDT_PLIC_PHANDLE,
         UART_IRQ, PLIC_NDEV
  <1>p4. ps[4] = Prop("model", <<>>)
    BY DEF RootProps, fdt_prop_cells1, fdt_prop_word, fdt_prop_str, fdt_prop_empty,
         FDT_CPU_INTC_PHANDLE, FDT_PLIC_PHANDLE,
         UART_IRQ, PLIC_NDEV
  <1> HIDE DEF ps
  <1>a1. \A c, v : At(1, c, v) <=> (c = "#address-cells" /\ v = <<2>>)
    BY <1>p1, PropParts
  <1>a2. \A c, v : At(2, c, v) <=> (c = "#size-cells" /\ v = <<2>>)
    BY <1>p2, PropParts
  <1>a3. \A c, v : At(3, c, v) <=> (c = "compatible" /\ v = <<>>)
    BY <1>p3, PropParts
  <1>a4. \A c, v : At(4, c, v) <=> (c = "model" /\ v = <<>>)
    BY <1>p4, PropParts
  <1>3. 1 .. Len(ps) = {1, 2, 3, 4}
    BY <1>1
  <1>4. \A c, v : Holds(ps, c, v) <=> \E i \in 1 .. Len(ps) : At(i, c, v)
    BY DEF Holds
  <1> HIDE DEF At
  <1>5. \A c, v : Holds(ps, c, v) <=> At(1, c, v) \/ At(2, c, v) \/ At(3, c, v) \/ At(4, c, v)
    BY <1>3, <1>4, Zenon
  <1> QED
    BY <1>5, <1>a1, <1>a2, <1>a3, <1>a4, Zenon DEF ps

\* The row of the memory node.
LEMMA MemorySays ==
    \A c, v : Holds(MemoryProps, c, v) <=>
        \/ c = "device_type" /\ v = <<>>
        \/ c = "reg" /\ v = <<0, RamStart, 0, RamSize>>
  <1> DEFINE ps == MemoryProps
             At(i, c, v) == ps[i].name = c /\ ps[i].val = v
  <1>1. Len(ps) = 2
    BY DEF MemoryProps
  <1>p1. ps[1] = Prop("device_type", <<>>)
    BY DEF MemoryProps, fdt_prop_cells1, fdt_prop_word, fdt_prop_str, fdt_prop_empty,
         FDT_CPU_INTC_PHANDLE, FDT_PLIC_PHANDLE,
         UART_IRQ, PLIC_NDEV
  <1>p2. ps[2] = Prop("reg", <<0, RamStart, 0, RamSize>>)
    BY DEF MemoryProps, fdt_prop_cells1, fdt_prop_word, fdt_prop_str, fdt_prop_empty,
         FDT_CPU_INTC_PHANDLE, FDT_PLIC_PHANDLE,
         UART_IRQ, PLIC_NDEV
  <1> HIDE DEF ps
  <1>a1. \A c, v : At(1, c, v) <=> (c = "device_type" /\ v = <<>>)
    BY <1>p1, PropParts
  <1>a2. \A c, v : At(2, c, v) <=> (c = "reg" /\ v = <<0, RamStart, 0, RamSize>>)
    BY <1>p2, PropParts
  <1>3. 1 .. Len(ps) = {1, 2}
    BY <1>1
  <1>4. \A c, v : Holds(ps, c, v) <=> \E i \in 1 .. Len(ps) : At(i, c, v)
    BY DEF Holds
  <1> HIDE DEF At
  <1>5. \A c, v : Holds(ps, c, v) <=> At(1, c, v) \/ At(2, c, v)
    BY <1>3, <1>4, Zenon
  <1> QED
    BY <1>5, <1>a1, <1>a2, Zenon DEF ps

\* The row of the cpus node.
LEMMA CpusSays ==
    \A c, v : Holds(CpusProps, c, v) <=>
        \/ c = "#address-cells" /\ v = <<1>>
        \/ c = "#size-cells" /\ v = <<0>>
        \/ c = "timebase-frequency" /\ v = <<FDT_TIMEBASE_FREQ>>
  <1> DEFINE ps == CpusProps
             At(i, c, v) == ps[i].name = c /\ ps[i].val = v
  <1>1. Len(ps) = 3
    BY DEF CpusProps
  <1>p1. ps[1] = Prop("#address-cells", <<1>>)
    BY DEF CpusProps, fdt_prop_cells1, fdt_prop_word, fdt_prop_str, fdt_prop_empty,
         FDT_CPU_INTC_PHANDLE, FDT_PLIC_PHANDLE,
         UART_IRQ, PLIC_NDEV
  <1>p2. ps[2] = Prop("#size-cells", <<0>>)
    BY DEF CpusProps, fdt_prop_cells1, fdt_prop_word, fdt_prop_str, fdt_prop_empty,
         FDT_CPU_INTC_PHANDLE, FDT_PLIC_PHANDLE,
         UART_IRQ, PLIC_NDEV
  <1>p3. ps[3] = Prop("timebase-frequency", <<FDT_TIMEBASE_FREQ>>)
    BY DEF CpusProps, fdt_prop_cells1, fdt_prop_word, fdt_prop_str, fdt_prop_empty,
         FDT_CPU_INTC_PHANDLE, FDT_PLIC_PHANDLE,
         UART_IRQ, PLIC_NDEV
  <1> HIDE DEF ps
  <1>a1. \A c, v : At(1, c, v) <=> (c = "#address-cells" /\ v = <<1>>)
    BY <1>p1, PropParts
  <1>a2. \A c, v : At(2, c, v) <=> (c = "#size-cells" /\ v = <<0>>)
    BY <1>p2, PropParts
  <1>a3. \A c, v : At(3, c, v) <=> (c = "timebase-frequency" /\ v = <<FDT_TIMEBASE_FREQ>>)
    BY <1>p3, PropParts
  <1>3. 1 .. Len(ps) = {1, 2, 3}
    BY <1>1
  <1>4. \A c, v : Holds(ps, c, v) <=> \E i \in 1 .. Len(ps) : At(i, c, v)
    BY DEF Holds
  <1> HIDE DEF At
  <1>5. \A c, v : Holds(ps, c, v) <=> At(1, c, v) \/ At(2, c, v) \/ At(3, c, v)
    BY <1>3, <1>4, Zenon
  <1> QED
    BY <1>5, <1>a1, <1>a2, <1>a3, Zenon DEF ps

\* The row of the cpu node.
LEMMA CpuSays ==
    \A c, v : Holds(CpuProps, c, v) <=>
        \/ c = "device_type" /\ v = <<>>
        \/ c = "reg" /\ v = <<0>>
        \/ c = "compatible" /\ v = <<>>
        \/ c = "mmu-type" /\ v = <<>>
        \/ c = "riscv,isa" /\ v = <<>>
        \/ c = "riscv,isa-base" /\ v = <<>>
        \/ c = "riscv,isa-extensions" /\ v = <<>>
  <1> DEFINE ps == CpuProps
             At(i, c, v) == ps[i].name = c /\ ps[i].val = v
  <1>1. Len(ps) = 7
    BY DEF CpuProps
  <1>p1. ps[1] = Prop("device_type", <<>>)
    BY DEF CpuProps, fdt_prop_cells1, fdt_prop_word, fdt_prop_str, fdt_prop_empty,
         FDT_CPU_INTC_PHANDLE, FDT_PLIC_PHANDLE,
         UART_IRQ, PLIC_NDEV
  <1>p2. ps[2] = Prop("reg", <<0>>)
    BY DEF CpuProps, fdt_prop_cells1, fdt_prop_word, fdt_prop_str, fdt_prop_empty,
         FDT_CPU_INTC_PHANDLE, FDT_PLIC_PHANDLE,
         UART_IRQ, PLIC_NDEV
  <1>p3. ps[3] = Prop("compatible", <<>>)
    BY DEF CpuProps, fdt_prop_cells1, fdt_prop_word, fdt_prop_str, fdt_prop_empty,
         FDT_CPU_INTC_PHANDLE, FDT_PLIC_PHANDLE,
         UART_IRQ, PLIC_NDEV
  <1>p4. ps[4] = Prop("mmu-type", <<>>)
    BY DEF CpuProps, fdt_prop_cells1, fdt_prop_word, fdt_prop_str, fdt_prop_empty,
         FDT_CPU_INTC_PHANDLE, FDT_PLIC_PHANDLE,
         UART_IRQ, PLIC_NDEV
  <1>p5. ps[5] = Prop("riscv,isa", <<>>)
    BY DEF CpuProps, fdt_prop_cells1, fdt_prop_word, fdt_prop_str, fdt_prop_empty,
         FDT_CPU_INTC_PHANDLE, FDT_PLIC_PHANDLE,
         UART_IRQ, PLIC_NDEV
  <1>p6. ps[6] = Prop("riscv,isa-base", <<>>)
    BY DEF CpuProps, fdt_prop_cells1, fdt_prop_word, fdt_prop_str, fdt_prop_empty,
         FDT_CPU_INTC_PHANDLE, FDT_PLIC_PHANDLE,
         UART_IRQ, PLIC_NDEV
  <1>p7. ps[7] = Prop("riscv,isa-extensions", <<>>)
    BY DEF CpuProps, fdt_prop_cells1, fdt_prop_word, fdt_prop_str, fdt_prop_empty,
         FDT_CPU_INTC_PHANDLE, FDT_PLIC_PHANDLE,
         UART_IRQ, PLIC_NDEV
  <1> HIDE DEF ps
  <1>a1. \A c, v : At(1, c, v) <=> (c = "device_type" /\ v = <<>>)
    BY <1>p1, PropParts
  <1>a2. \A c, v : At(2, c, v) <=> (c = "reg" /\ v = <<0>>)
    BY <1>p2, PropParts
  <1>a3. \A c, v : At(3, c, v) <=> (c = "compatible" /\ v = <<>>)
    BY <1>p3, PropParts
  <1>a4. \A c, v : At(4, c, v) <=> (c = "mmu-type" /\ v = <<>>)
    BY <1>p4, PropParts
  <1>a5. \A c, v : At(5, c, v) <=> (c = "riscv,isa" /\ v = <<>>)
    <2> DEFINE x == "riscv,isa"
    <2>1. ps[5] = Prop(x, <<>>)
      BY <1>p5, Zenon
    <2> HIDE DEF x
    <2>2. \A c, v : At(5, c, v) <=> (c = x /\ v = <<>>)
      BY <2>1, PropParts
    <2> QED
      BY <2>2, Zenon DEF x
  <1>a6. \A c, v : At(6, c, v) <=> (c = "riscv,isa-base" /\ v = <<>>)
    <2> DEFINE x == "riscv,isa-base"
    <2>1. ps[6] = Prop(x, <<>>)
      BY <1>p6, Zenon
    <2> HIDE DEF x
    <2>2. \A c, v : At(6, c, v) <=> (c = x /\ v = <<>>)
      BY <2>1, PropParts
    <2> QED
      BY <2>2, Zenon DEF x
  <1>a7. \A c, v : At(7, c, v) <=> (c = "riscv,isa-extensions" /\ v = <<>>)
    <2> DEFINE x == "riscv,isa-extensions"
    <2>1. ps[7] = Prop(x, <<>>)
      BY <1>p7, Zenon
    <2> HIDE DEF x
    <2>2. \A c, v : At(7, c, v) <=> (c = x /\ v = <<>>)
      BY <2>1, PropParts
    <2> QED
      BY <2>2, Zenon DEF x
  <1>3. 1 .. Len(ps) = {1, 2, 3, 4, 5, 6, 7}
    BY <1>1
  <1>4. \A c, v : Holds(ps, c, v) <=> \E i \in 1 .. Len(ps) : At(i, c, v)
    BY DEF Holds
  <1> HIDE DEF At
  <1>5. \A c, v : Holds(ps, c, v) <=> At(1, c, v) \/ At(2, c, v) \/ At(3, c, v) \/ At(4, c, v)
            \/ At(5, c, v) \/ At(6, c, v) \/ At(7, c, v)
    BY <1>3, <1>4, Zenon
  <1> QED
    BY <1>5, <1>a1, <1>a2, <1>a3, <1>a4, <1>a5, <1>a6, <1>a7, ZenonT(60) DEF ps

\* The row of the intc node.
LEMMA IntcSays ==
    \A c, v : Holds(IntcProps, c, v) <=>
        \/ c = "phandle" /\ v = <<1>>
        \/ c = "#interrupt-cells" /\ v = <<1>>
        \/ c = "compatible" /\ v = <<>>
        \/ c = "interrupt-controller" /\ v = <<>>
  <1> DEFINE ps == IntcProps
             At(i, c, v) == ps[i].name = c /\ ps[i].val = v
  <1>1. Len(ps) = 4
    BY DEF IntcProps
  <1>p1. ps[1] = Prop("phandle", <<1>>)
    BY DEF IntcProps, fdt_prop_cells1, fdt_prop_word, fdt_prop_str, fdt_prop_empty,
         FDT_CPU_INTC_PHANDLE, FDT_PLIC_PHANDLE,
         UART_IRQ, PLIC_NDEV
  <1>p2. ps[2] = Prop("#interrupt-cells", <<1>>)
    BY DEF IntcProps, fdt_prop_cells1, fdt_prop_word, fdt_prop_str, fdt_prop_empty,
         FDT_CPU_INTC_PHANDLE, FDT_PLIC_PHANDLE,
         UART_IRQ, PLIC_NDEV
  <1>p3. ps[3] = Prop("compatible", <<>>)
    BY DEF IntcProps, fdt_prop_cells1, fdt_prop_word, fdt_prop_str, fdt_prop_empty,
         FDT_CPU_INTC_PHANDLE, FDT_PLIC_PHANDLE,
         UART_IRQ, PLIC_NDEV
  <1>p4. ps[4] = Prop("interrupt-controller", <<>>)
    BY DEF IntcProps, fdt_prop_cells1, fdt_prop_word, fdt_prop_str, fdt_prop_empty,
         FDT_CPU_INTC_PHANDLE, FDT_PLIC_PHANDLE,
         UART_IRQ, PLIC_NDEV
  <1> HIDE DEF ps
  <1>a1. \A c, v : At(1, c, v) <=> (c = "phandle" /\ v = <<1>>)
    BY <1>p1, PropParts
  <1>a2. \A c, v : At(2, c, v) <=> (c = "#interrupt-cells" /\ v = <<1>>)
    BY <1>p2, PropParts
  <1>a3. \A c, v : At(3, c, v) <=> (c = "compatible" /\ v = <<>>)
    BY <1>p3, PropParts
  <1>a4. \A c, v : At(4, c, v) <=> (c = "interrupt-controller" /\ v = <<>>)
    BY <1>p4, PropParts
  <1>3. 1 .. Len(ps) = {1, 2, 3, 4}
    BY <1>1
  <1>4. \A c, v : Holds(ps, c, v) <=> \E i \in 1 .. Len(ps) : At(i, c, v)
    BY DEF Holds
  <1> HIDE DEF At
  <1>5. \A c, v : Holds(ps, c, v) <=> At(1, c, v) \/ At(2, c, v) \/ At(3, c, v) \/ At(4, c, v)
    BY <1>3, <1>4, Zenon
  <1> QED
    BY <1>5, <1>a1, <1>a2, <1>a3, <1>a4, Zenon DEF ps

\* The row of the soc node.
LEMMA SocSays ==
    \A c, v : Holds(SocProps, c, v) <=>
        \/ c = "compatible" /\ v = <<>>
        \/ c = "#address-cells" /\ v = <<2>>
        \/ c = "#size-cells" /\ v = <<2>>
        \/ c = "ranges" /\ v = <<>>
  <1> DEFINE ps == SocProps
             At(i, c, v) == ps[i].name = c /\ ps[i].val = v
  <1>1. Len(ps) = 4
    BY DEF SocProps
  <1>p1. ps[1] = Prop("compatible", <<>>)
    BY DEF SocProps, fdt_prop_cells1, fdt_prop_word, fdt_prop_str, fdt_prop_empty,
         FDT_CPU_INTC_PHANDLE, FDT_PLIC_PHANDLE,
         UART_IRQ, PLIC_NDEV
  <1>p2. ps[2] = Prop("#address-cells", <<2>>)
    BY DEF SocProps, fdt_prop_cells1, fdt_prop_word, fdt_prop_str, fdt_prop_empty,
         FDT_CPU_INTC_PHANDLE, FDT_PLIC_PHANDLE,
         UART_IRQ, PLIC_NDEV
  <1>p3. ps[3] = Prop("#size-cells", <<2>>)
    BY DEF SocProps, fdt_prop_cells1, fdt_prop_word, fdt_prop_str, fdt_prop_empty,
         FDT_CPU_INTC_PHANDLE, FDT_PLIC_PHANDLE,
         UART_IRQ, PLIC_NDEV
  <1>p4. ps[4] = Prop("ranges", <<>>)
    BY DEF SocProps, fdt_prop_cells1, fdt_prop_word, fdt_prop_str, fdt_prop_empty,
         FDT_CPU_INTC_PHANDLE, FDT_PLIC_PHANDLE,
         UART_IRQ, PLIC_NDEV
  <1> HIDE DEF ps
  <1>a1. \A c, v : At(1, c, v) <=> (c = "compatible" /\ v = <<>>)
    BY <1>p1, PropParts
  <1>a2. \A c, v : At(2, c, v) <=> (c = "#address-cells" /\ v = <<2>>)
    BY <1>p2, PropParts
  <1>a3. \A c, v : At(3, c, v) <=> (c = "#size-cells" /\ v = <<2>>)
    BY <1>p3, PropParts
  <1>a4. \A c, v : At(4, c, v) <=> (c = "ranges" /\ v = <<>>)
    BY <1>p4, PropParts
  <1>3. 1 .. Len(ps) = {1, 2, 3, 4}
    BY <1>1
  <1>4. \A c, v : Holds(ps, c, v) <=> \E i \in 1 .. Len(ps) : At(i, c, v)
    BY DEF Holds
  <1> HIDE DEF At
  <1>5. \A c, v : Holds(ps, c, v) <=> At(1, c, v) \/ At(2, c, v) \/ At(3, c, v) \/ At(4, c, v)
    BY <1>3, <1>4, Zenon
  <1> QED
    BY <1>5, <1>a1, <1>a2, <1>a3, <1>a4, Zenon DEF ps

\* The row of the clint node.
LEMMA ClintSays ==
    \A c, v : Holds(ClintProps, c, v) <=>
        \/ c = "compatible" /\ v = <<>>
        \/ c = "reg" /\ v = <<0, ClintBase, 0, ClintSize>>
        \/ c = "interrupts-extended" /\ v = <<1, 3, 1, 7>>
  <1> DEFINE ps == ClintProps
             At(i, c, v) == ps[i].name = c /\ ps[i].val = v
  <1>1. Len(ps) = 3
    BY DEF ClintProps
  <1>p1. ps[1] = Prop("compatible", <<>>)
    BY DEF ClintProps, fdt_prop_cells1, fdt_prop_word, fdt_prop_str, fdt_prop_empty,
         FDT_CPU_INTC_PHANDLE, FDT_PLIC_PHANDLE,
         UART_IRQ, PLIC_NDEV
  <1>p2. ps[2] = Prop("reg", <<0, ClintBase, 0, ClintSize>>)
    BY DEF ClintProps, fdt_prop_cells1, fdt_prop_word, fdt_prop_str, fdt_prop_empty,
         FDT_CPU_INTC_PHANDLE, FDT_PLIC_PHANDLE,
         UART_IRQ, PLIC_NDEV
  <1>p3. ps[3] = Prop("interrupts-extended", <<1, 3, 1, 7>>)
    BY DEF ClintProps, fdt_prop_cells1, fdt_prop_word, fdt_prop_str, fdt_prop_empty,
         FDT_CPU_INTC_PHANDLE, FDT_PLIC_PHANDLE,
         UART_IRQ, PLIC_NDEV
  <1> HIDE DEF ps
  <1>a1. \A c, v : At(1, c, v) <=> (c = "compatible" /\ v = <<>>)
    BY <1>p1, PropParts
  <1>a2. \A c, v : At(2, c, v) <=> (c = "reg" /\ v = <<0, ClintBase, 0, ClintSize>>)
    BY <1>p2, PropParts
  <1>a3. \A c, v : At(3, c, v) <=> (c = "interrupts-extended" /\ v = <<1, 3, 1, 7>>)
    BY <1>p3, PropParts
  <1>3. 1 .. Len(ps) = {1, 2, 3}
    BY <1>1
  <1>4. \A c, v : Holds(ps, c, v) <=> \E i \in 1 .. Len(ps) : At(i, c, v)
    BY DEF Holds
  <1> HIDE DEF At
  <1>5. \A c, v : Holds(ps, c, v) <=> At(1, c, v) \/ At(2, c, v) \/ At(3, c, v)
    BY <1>3, <1>4, Zenon
  <1> QED
    BY <1>5, <1>a1, <1>a2, <1>a3, Zenon DEF ps

\* The row of the plic node.
LEMMA PlicSays ==
    \A c, v : Holds(PlicProps, c, v) <=>
        \/ c = "compatible" /\ v = <<>>
        \/ c = "reg" /\ v = <<0, PlicBase, 0, PlicSize>>
        \/ c = "#address-cells" /\ v = <<0>>
        \/ c = "#interrupt-cells" /\ v = <<1>>
        \/ c = "phandle" /\ v = <<2>>
        \/ c = "interrupt-controller" /\ v = <<>>
        \/ c = "riscv,ndev" /\ v = <<10>>
        \/ c = "interrupts-extended" /\ v = <<1, 11, 1, 9>>
  <1> DEFINE ps == PlicProps
             At(i, c, v) == ps[i].name = c /\ ps[i].val = v
  <1>1. Len(ps) = 8
    BY DEF PlicProps
  <1>p1. ps[1] = Prop("compatible", <<>>)
    BY DEF PlicProps, fdt_prop_cells1, fdt_prop_word, fdt_prop_str, fdt_prop_empty,
         FDT_CPU_INTC_PHANDLE, FDT_PLIC_PHANDLE,
         UART_IRQ, PLIC_NDEV
  <1>p2. ps[2] = Prop("reg", <<0, PlicBase, 0, PlicSize>>)
    BY DEF PlicProps, fdt_prop_cells1, fdt_prop_word, fdt_prop_str, fdt_prop_empty,
         FDT_CPU_INTC_PHANDLE, FDT_PLIC_PHANDLE,
         UART_IRQ, PLIC_NDEV
  <1>p3. ps[3] = Prop("#address-cells", <<0>>)
    BY DEF PlicProps, fdt_prop_cells1, fdt_prop_word, fdt_prop_str, fdt_prop_empty,
         FDT_CPU_INTC_PHANDLE, FDT_PLIC_PHANDLE,
         UART_IRQ, PLIC_NDEV
  <1>p4. ps[4] = Prop("#interrupt-cells", <<1>>)
    BY DEF PlicProps, fdt_prop_cells1, fdt_prop_word, fdt_prop_str, fdt_prop_empty,
         FDT_CPU_INTC_PHANDLE, FDT_PLIC_PHANDLE,
         UART_IRQ, PLIC_NDEV
  <1>p5. ps[5] = Prop("phandle", <<2>>)
    BY DEF PlicProps, fdt_prop_cells1, fdt_prop_word, fdt_prop_str, fdt_prop_empty,
         FDT_CPU_INTC_PHANDLE, FDT_PLIC_PHANDLE,
         UART_IRQ, PLIC_NDEV
  <1>p6. ps[6] = Prop("interrupt-controller", <<>>)
    BY DEF PlicProps, fdt_prop_cells1, fdt_prop_word, fdt_prop_str, fdt_prop_empty,
         FDT_CPU_INTC_PHANDLE, FDT_PLIC_PHANDLE,
         UART_IRQ, PLIC_NDEV
  <1>p7. ps[7] = Prop("riscv,ndev", <<10>>)
    BY DEF PlicProps, fdt_prop_cells1, fdt_prop_word, fdt_prop_str, fdt_prop_empty,
         FDT_CPU_INTC_PHANDLE, FDT_PLIC_PHANDLE,
         UART_IRQ, PLIC_NDEV
  <1>p8. ps[8] = Prop("interrupts-extended", <<1, 11, 1, 9>>)
    BY DEF PlicProps, fdt_prop_cells1, fdt_prop_word, fdt_prop_str, fdt_prop_empty,
         FDT_CPU_INTC_PHANDLE, FDT_PLIC_PHANDLE,
         UART_IRQ, PLIC_NDEV
  <1> HIDE DEF ps
  <1>a1. \A c, v : At(1, c, v) <=> (c = "compatible" /\ v = <<>>)
    BY <1>p1, PropParts
  <1>a2. \A c, v : At(2, c, v) <=> (c = "reg" /\ v = <<0, PlicBase, 0, PlicSize>>)
    BY <1>p2, PropParts
  <1>a3. \A c, v : At(3, c, v) <=> (c = "#address-cells" /\ v = <<0>>)
    BY <1>p3, PropParts
  <1>a4. \A c, v : At(4, c, v) <=> (c = "#interrupt-cells" /\ v = <<1>>)
    BY <1>p4, PropParts
  <1>a5. \A c, v : At(5, c, v) <=> (c = "phandle" /\ v = <<2>>)
    BY <1>p5, PropParts
  <1>a6. \A c, v : At(6, c, v) <=> (c = "interrupt-controller" /\ v = <<>>)
    BY <1>p6, PropParts
  <1>a7. \A c, v : At(7, c, v) <=> (c = "riscv,ndev" /\ v = <<10>>)
    <2> DEFINE x == "riscv,ndev"
    <2>1. ps[7] = Prop(x, <<10>>)
      BY <1>p7, Zenon
    <2> HIDE DEF x
    <2>2. \A c, v : At(7, c, v) <=> (c = x /\ v = <<10>>)
      BY <2>1, PropParts
    <2> QED
      BY <2>2, Zenon DEF x
  <1>a8. \A c, v : At(8, c, v) <=> (c = "interrupts-extended" /\ v = <<1, 11, 1, 9>>)
    BY <1>p8, PropParts
  <1>3. 1 .. Len(ps) = {1, 2, 3, 4, 5, 6, 7, 8}
    BY <1>1
  <1>4. \A c, v : Holds(ps, c, v) <=> \E i \in 1 .. Len(ps) : At(i, c, v)
    BY DEF Holds
  <1> HIDE DEF At
  <1>5. \A c, v : Holds(ps, c, v) <=> At(1, c, v) \/ At(2, c, v) \/ At(3, c, v) \/ At(4, c, v)
            \/ At(5, c, v) \/ At(6, c, v) \/ At(7, c, v) \/ At(8, c, v)
    BY <1>3, <1>4, Zenon
  <1> QED
    BY <1>5, <1>a1, <1>a2, <1>a3, <1>a4, <1>a5, <1>a6, <1>a7, <1>a8, ZenonT(60) DEF ps

\* The row of the uart node.
LEMMA UartSays ==
    \A c, v : Holds(UartProps, c, v) <=>
        \/ c = "compatible" /\ v = <<>>
        \/ c = "reg" /\ v = <<0, UartBase, 0, UartSize>>
        \/ c = "clock-frequency" /\ v = <<UART_CLOCK>>
        \/ c = "current-speed" /\ v = <<UART_SPEED>>
        \/ c = "reg-shift" /\ v = <<0>>
        \/ c = "reg-io-width" /\ v = <<1>>
        \/ c = "interrupt-parent" /\ v = <<2>>
        \/ c = "interrupts" /\ v = <<10>>
  <1> DEFINE ps == UartProps
             At(i, c, v) == ps[i].name = c /\ ps[i].val = v
  <1>1. Len(ps) = 8
    BY DEF UartProps
  <1>p1. ps[1] = Prop("compatible", <<>>)
    BY DEF UartProps, fdt_prop_cells1, fdt_prop_word, fdt_prop_str, fdt_prop_empty,
         FDT_CPU_INTC_PHANDLE, FDT_PLIC_PHANDLE,
         UART_IRQ, PLIC_NDEV
  <1>p2. ps[2] = Prop("reg", <<0, UartBase, 0, UartSize>>)
    BY DEF UartProps, fdt_prop_cells1, fdt_prop_word, fdt_prop_str, fdt_prop_empty,
         FDT_CPU_INTC_PHANDLE, FDT_PLIC_PHANDLE,
         UART_IRQ, PLIC_NDEV
  <1>p3. ps[3] = Prop("clock-frequency", <<UART_CLOCK>>)
    BY DEF UartProps, fdt_prop_cells1, fdt_prop_word, fdt_prop_str, fdt_prop_empty,
         FDT_CPU_INTC_PHANDLE, FDT_PLIC_PHANDLE,
         UART_IRQ, PLIC_NDEV
  <1>p4. ps[4] = Prop("current-speed", <<UART_SPEED>>)
    BY DEF UartProps, fdt_prop_cells1, fdt_prop_word, fdt_prop_str, fdt_prop_empty,
         FDT_CPU_INTC_PHANDLE, FDT_PLIC_PHANDLE,
         UART_IRQ, PLIC_NDEV
  <1>p5. ps[5] = Prop("reg-shift", <<0>>)
    BY DEF UartProps, fdt_prop_cells1, fdt_prop_word, fdt_prop_str, fdt_prop_empty,
         FDT_CPU_INTC_PHANDLE, FDT_PLIC_PHANDLE,
         UART_IRQ, PLIC_NDEV
  <1>p6. ps[6] = Prop("reg-io-width", <<1>>)
    BY DEF UartProps, fdt_prop_cells1, fdt_prop_word, fdt_prop_str, fdt_prop_empty,
         FDT_CPU_INTC_PHANDLE, FDT_PLIC_PHANDLE,
         UART_IRQ, PLIC_NDEV
  <1>p7. ps[7] = Prop("interrupt-parent", <<2>>)
    BY DEF UartProps, fdt_prop_cells1, fdt_prop_word, fdt_prop_str, fdt_prop_empty,
         FDT_CPU_INTC_PHANDLE, FDT_PLIC_PHANDLE,
         UART_IRQ, PLIC_NDEV
  <1>p8. ps[8] = Prop("interrupts", <<10>>)
    BY DEF UartProps, fdt_prop_cells1, fdt_prop_word, fdt_prop_str, fdt_prop_empty,
         FDT_CPU_INTC_PHANDLE, FDT_PLIC_PHANDLE,
         UART_IRQ, PLIC_NDEV
  <1> HIDE DEF ps
  <1>a1. \A c, v : At(1, c, v) <=> (c = "compatible" /\ v = <<>>)
    BY <1>p1, PropParts
  <1>a2. \A c, v : At(2, c, v) <=> (c = "reg" /\ v = <<0, UartBase, 0, UartSize>>)
    BY <1>p2, PropParts
  <1>a3. \A c, v : At(3, c, v) <=> (c = "clock-frequency" /\ v = <<UART_CLOCK>>)
    BY <1>p3, PropParts
  <1>a4. \A c, v : At(4, c, v) <=> (c = "current-speed" /\ v = <<UART_SPEED>>)
    BY <1>p4, PropParts
  <1>a5. \A c, v : At(5, c, v) <=> (c = "reg-shift" /\ v = <<0>>)
    BY <1>p5, PropParts
  <1>a6. \A c, v : At(6, c, v) <=> (c = "reg-io-width" /\ v = <<1>>)
    BY <1>p6, PropParts
  <1>a7. \A c, v : At(7, c, v) <=> (c = "interrupt-parent" /\ v = <<2>>)
    BY <1>p7, PropParts
  <1>a8. \A c, v : At(8, c, v) <=> (c = "interrupts" /\ v = <<10>>)
    BY <1>p8, PropParts
  <1>3. 1 .. Len(ps) = {1, 2, 3, 4, 5, 6, 7, 8}
    BY <1>1
  <1>4. \A c, v : Holds(ps, c, v) <=> \E i \in 1 .. Len(ps) : At(i, c, v)
    BY DEF Holds
  <1> HIDE DEF At
  <1>5. \A c, v : Holds(ps, c, v) <=> At(1, c, v) \/ At(2, c, v) \/ At(3, c, v) \/ At(4, c, v)
            \/ At(5, c, v) \/ At(6, c, v) \/ At(7, c, v) \/ At(8, c, v)
    BY <1>3, <1>4, Zenon
  <1> QED
    BY <1>5, <1>a1, <1>a2, <1>a3, <1>a4, <1>a5, <1>a6, <1>a7, <1>a8, ZenonT(60) DEF ps


\* The properties of two rows, one after the other.
LEMMA HoldsConcat ==
    ASSUME NEW S, NEW x \in Seq(S), NEW y \in Seq(S)
    PROVE  \A c, v : Holds(x \o y, c, v) <=> Holds(x, c, v) \/ Holds(y, c, v)
  <1> SUFFICES ASSUME NEW c, NEW v PROVE Holds(x \o y, c, v) <=> Holds(x, c, v) \/ Holds(y, c, v)
    OBVIOUS
  <1> DEFINE z == x \o y
  <1>1. /\ Len(x) \in Nat /\ Len(y) \in Nat /\ Len(z) = Len(x) + Len(y)
        /\ \A i \in 1 .. Len(x) : z[i] = x[i]
        /\ \A i \in 1 .. Len(y) : z[Len(x) + i] = y[i]
    BY ConcatProperties, LenProperties
  <1> HIDE DEF z
  <1>2. ASSUME Holds(z, c, v) PROVE Holds(x, c, v) \/ Holds(y, c, v)
    <2>1. PICK i \in 1 .. Len(z) : z[i].name = c /\ z[i].val = v
      BY <1>2 DEF Holds
    <2>2. CASE i \in 1 .. Len(x)
      BY <1>1, <2>1, <2>2 DEF Holds
    <2>3. CASE i \notin 1 .. Len(x)
      <3>1. i - Len(x) \in 1 .. Len(y) /\ Len(x) + (i - Len(x)) = i
        BY <1>1, <2>3
      <3>2. z[i] = y[i - Len(x)]
        BY <1>1, <3>1
      <3> QED
        BY <2>1, <3>1, <3>2 DEF Holds
    <2> QED
      BY <2>2, <2>3
  <1>3. ASSUME Holds(x, c, v) PROVE Holds(z, c, v)
    <2>1. PICK i \in 1 .. Len(x) : x[i].name = c /\ x[i].val = v
      BY <1>3 DEF Holds
    <2>2. i \in 1 .. Len(z) /\ z[i] = x[i]
      BY <1>1
    <2> QED
      BY <2>1, <2>2 DEF Holds
  <1>4. ASSUME Holds(y, c, v) PROVE Holds(z, c, v)
    <2>1. PICK i \in 1 .. Len(y) : y[i].name = c /\ y[i].val = v
      BY <1>4 DEF Holds
    <2>2. Len(x) + i \in 1 .. Len(z) /\ z[Len(x) + i] = y[i]
      BY <1>1
    <2> QED
      BY <2>1, <2>2 DEF Holds
  <1> QED
    BY <1>2, <1>3, <1>4 DEF z

\* A row of two properties, and one of none.
LEMMA HoldsPair ==
    /\ \A a, x, b, y, c, v : Holds(<<Prop(a, x), Prop(b, y)>>, c, v) <=> (c = a /\ v = x) \/ (c = b /\ v = y)
    /\ \A c, v : ~Holds(<<>>, c, v)
  <1>1. \A c, v : ~Holds(<<>>, c, v)
    BY DEF Holds
  <1>2. ASSUME NEW a, NEW x, NEW b, NEW y, NEW c, NEW v
        PROVE  Holds(<<Prop(a, x), Prop(b, y)>>, c, v) <=> (c = a /\ v = x) \/ (c = b /\ v = y)
    <2> DEFINE ps == <<Prop(a, x), Prop(b, y)>>
    <2>1. Len(ps) = 2 /\ ps[1] = Prop(a, x) /\ ps[2] = Prop(b, y)
      OBVIOUS
    <2> HIDE DEF ps
    <2>2. 1 .. Len(ps) = {1, 2}
      BY <2>1
    <2>3. (ps[1].name = c /\ ps[1].val = v) <=> (c = a /\ v = x)
      BY <2>1, PropParts
    <2>4. (ps[2].name = c /\ ps[2].val = v) <=> (c = b /\ v = y)
      BY <2>1, PropParts
    <2>5. Holds(ps, c, v) <=> (c = a /\ v = x) \/ (c = b /\ v = y)
      BY <2>2, <2>3, <2>4 DEF Holds
    <2> QED
      BY <2>5 DEF ps
  <1> QED
    BY <1>1, <1>2

\* What the chosen node says: the initrd is announced unless its start or end is 0.
ChosenHolds(start, end, c, v) ==
    \/ c = "stdout-path" /\ v = <<>>
    \/ c = "bootargs" /\ v = <<>>
    \/ start # 0 /\ end # 0 /\ c = "linux,initrd-start" /\ v = <<0, start>>
    \/ start # 0 /\ end # 0 /\ c = "linux,initrd-end" /\ v = <<0, end>>

\* The chosen node's row says just that.
LEMMA ChosenSays ==
    ASSUME NEW start \in Nat, NEW end \in Nat
    PROVE  \A c, v : Holds(ChosenProps(start, end), c, v) <=> ChosenHolds(start, end, c, v)
  <1> DEFINE x == <<fdt_prop_str("stdout-path"), fdt_prop_str("bootargs")>>
             y == InitrdRange(start, end)
             a == "linux,initrd-start"
             b == "linux,initrd-end"
             z == <<fdt_prop_cells2(a, 0, start), fdt_prop_cells2(b, 0, end)>>
  <1>1. x \in Seq(Properties)
    BY ChosenRow, Zenon
  <1>2. y \in Seq(Properties)
    BY RangeRow
  <1>3. ChosenProps(start, end) = x \o y
    BY DEF ChosenProps
  <1>4. \A c, v : Holds(x, c, v) <=> (c = "stdout-path" /\ v = <<>>) \/ (c = "bootargs" /\ v = <<>>)
    BY HoldsPair DEF fdt_prop_str
  <1>5. \A c, v : Holds(z, c, v) <=> (c = a /\ v = <<0, start>>) \/ (c = b /\ v = <<0, end>>)
    <2> HIDE DEF a, b
    <2> QED
      BY HoldsPair DEF fdt_prop_cells2
  <1>6. y = IF start # 0 /\ end # 0 THEN z ELSE <<>>
    BY Zenon DEF InitrdRange
  <1>7. \A c, v : Holds(y, c, v) <=> start # 0 /\ end # 0 /\ Holds(z, c, v)
    <2> HIDE DEF x, y, z
    <2> QED
      BY <1>6, HoldsPair, Zenon
  <1>8. \A c, v : Holds(ChosenProps(start, end), c, v) <=> Holds(x, c, v) \/ Holds(y, c, v)
    <2> HIDE DEF x, y, z
    <2> QED
      BY <1>1, <1>2, <1>3, HoldsConcat
  <1> HIDE DEF x, y, z
  <1> QED
    BY <1>4, <1>5, <1>7, <1>8, Zenon DEF ChosenHolds

\* The properties the reader's rules are about.
Known ==
    {"#address-cells", "#size-cells", "#interrupt-cells", "phandle", "reg", "linux,initrd-start",
     "linux,initrd-end", "interrupts-extended", "interrupts", "interrupt-controller"}

\* Which of them each node has, and their values.
Table(r, start, end) ==
    /\ \A c \in Known \ {"#address-cells", "#size-cells"} : Values(r, Root, c) = {}
    /\ Values(r, Root, "#address-cells") = {<<2>>}
    /\ Values(r, Root, "#size-cells") = {<<2>>}
    /\ \A c \in Known \ {"reg"} : Values(r, MemoryNode, c) = {}
    /\ Values(r, MemoryNode, "reg") = {<<0, RamStart, 0, RamSize>>}
    /\ \A c \in Known \ {"#address-cells", "#size-cells"} : Values(r, CpusNode, c) = {}
    /\ Values(r, CpusNode, "#address-cells") = {<<1>>}
    /\ Values(r, CpusNode, "#size-cells") = {<<0>>}
    /\ \A c \in Known \ {"reg"} : Values(r, CpuNode, c) = {}
    /\ Values(r, CpuNode, "reg") = {<<0>>}
    /\ \A c \in Known \ {"phandle", "#interrupt-cells", "interrupt-controller"} : Values(r, IntcNode, c) = {}
    /\ Values(r, IntcNode, "phandle") = {<<1>>}
    /\ Values(r, IntcNode, "#interrupt-cells") = {<<1>>}
    /\ <<>> \in Values(r, IntcNode, "interrupt-controller")
    /\ \A c \in Known \ {"#address-cells", "#size-cells"} : Values(r, SocNode, c) = {}
    /\ Values(r, SocNode, "#address-cells") = {<<2>>}
    /\ Values(r, SocNode, "#size-cells") = {<<2>>}
    /\ \A c \in Known \ {"reg", "interrupts-extended"} : Values(r, ClintNode, c) = {}
    /\ Values(r, ClintNode, "reg") = {<<0, ClintBase, 0, ClintSize>>}
    /\ Values(r, ClintNode, "interrupts-extended") = {<<1, 3, 1, 7>>}
    /\ \A c \in Known \ {"reg", "#address-cells", "#interrupt-cells", "phandle",
                         "interrupt-controller", "interrupts-extended"} : Values(r, PlicNode, c) = {}
    /\ Values(r, PlicNode, "reg") = {<<0, PlicBase, 0, PlicSize>>}
    /\ Values(r, PlicNode, "#address-cells") = {<<0>>}
    /\ Values(r, PlicNode, "#interrupt-cells") = {<<1>>}
    /\ Values(r, PlicNode, "phandle") = {<<2>>}
    /\ <<>> \in Values(r, PlicNode, "interrupt-controller")
    /\ Values(r, PlicNode, "riscv,ndev") = {<<10>>}
    /\ Values(r, PlicNode, "interrupts-extended") = {<<1, 11, 1, 9>>}
    /\ \A c \in Known \ {"reg", "interrupts"} : Values(r, UartNode, c) = {}
    /\ Values(r, UartNode, "reg") = {<<0, UartBase, 0, UartSize>>}
    /\ Values(r, UartNode, "interrupt-parent") = {<<2>>}
    /\ Values(r, UartNode, "interrupts") = {<<10>>}
    /\ \A c \in Known \ {"linux,initrd-start", "linux,initrd-end"} : Values(r, ChosenNode, c) = {}
    /\ Values(r, ChosenNode, "linux,initrd-start") = IF start # 0 /\ end # 0 THEN {<<0, start>>} ELSE {}
    /\ Values(r, ChosenNode, "linux,initrd-end") = IF start # 0 /\ end # 0 THEN {<<0, end>>} ELSE {}

\* What is read of a node, from its row.
LEMMA TableRead ==
    ASSUME NEW r, NEW start \in Nat, NEW end \in Nat, ReadsTree(r, start, end)
    PROVE  Table(r, start, end)
  <1>1. /\ \A c \in Known \ {"#address-cells", "#size-cells"} : Values(r, Root, c) = {}
        /\ Values(r, Root, "#address-cells") = {<<2>>}
        /\ Values(r, Root, "#size-cells") = {<<2>>}
    <2>1. \A c, v : v \in Values(r, Root, c) <=> Holds(RootProps, c, v)
      BY Zenon DEF ReadsTree
    <2>2. \A c, v : v \in Values(r, Root, c) <=>
             \/ c = "#address-cells" /\ v = <<2>>
             \/ c = "#size-cells" /\ v = <<2>>
             \/ c = "compatible" /\ v = <<>>
             \/ c = "model" /\ v = <<>>
      BY <2>1, RootSays, Zenon
    <2>3. \A c \in Known \ {"#address-cells", "#size-cells"} : Values(r, Root, c) = {}
      BY <2>2, Zenon DEF Known
    <2>4. Values(r, Root, "#address-cells") = {<<2>>}
      BY <2>2, Zenon
    <2>5. Values(r, Root, "#size-cells") = {<<2>>}
      BY <2>2, Zenon
    <2> QED
      BY <2>3, <2>4, <2>5, Zenon
  <1>2. /\ \A c \in Known \ {"reg"} : Values(r, MemoryNode, c) = {}
        /\ Values(r, MemoryNode, "reg") = {<<0, RamStart, 0, RamSize>>}
    <2>1. \A c, v : v \in Values(r, MemoryNode, c) <=> Holds(MemoryProps, c, v)
      BY Zenon DEF ReadsTree
    <2>2. \A c, v : v \in Values(r, MemoryNode, c) <=>
             \/ c = "device_type" /\ v = <<>>
             \/ c = "reg" /\ v = <<0, RamStart, 0, RamSize>>
      BY <2>1, MemorySays, Zenon
    <2>3. \A c \in Known \ {"reg"} : Values(r, MemoryNode, c) = {}
      BY <2>2, Zenon DEF Known
    <2>4. Values(r, MemoryNode, "reg") = {<<0, RamStart, 0, RamSize>>}
      BY <2>2, Zenon
    <2> QED
      BY <2>3, <2>4, Zenon
  <1>3. /\ \A c \in Known \ {"#address-cells", "#size-cells"} : Values(r, CpusNode, c) = {}
        /\ Values(r, CpusNode, "#address-cells") = {<<1>>}
        /\ Values(r, CpusNode, "#size-cells") = {<<0>>}
    <2>1. \A c, v : v \in Values(r, CpusNode, c) <=> Holds(CpusProps, c, v)
      BY Zenon DEF ReadsTree
    <2>2. \A c, v : v \in Values(r, CpusNode, c) <=>
             \/ c = "#address-cells" /\ v = <<1>>
             \/ c = "#size-cells" /\ v = <<0>>
             \/ c = "timebase-frequency" /\ v = <<FDT_TIMEBASE_FREQ>>
      BY <2>1, CpusSays, Zenon
    <2>3. \A c \in Known \ {"#address-cells", "#size-cells"} : Values(r, CpusNode, c) = {}
      BY <2>2, Zenon DEF Known
    <2>4. Values(r, CpusNode, "#address-cells") = {<<1>>}
      BY <2>2, Zenon
    <2>5. Values(r, CpusNode, "#size-cells") = {<<0>>}
      BY <2>2, Zenon
    <2> QED
      BY <2>3, <2>4, <2>5, Zenon
  <1>4. /\ \A c \in Known \ {"reg"} : Values(r, CpuNode, c) = {}
        /\ Values(r, CpuNode, "reg") = {<<0>>}
    <2>1. \A c, v : v \in Values(r, CpuNode, c) <=> Holds(CpuProps, c, v)
      BY Zenon DEF ReadsTree
    <2>2. \A c, v : v \in Values(r, CpuNode, c) <=>
             \/ c = "device_type" /\ v = <<>>
             \/ c = "reg" /\ v = <<0>>
             \/ c = "compatible" /\ v = <<>>
             \/ c = "mmu-type" /\ v = <<>>
             \/ c = "riscv,isa" /\ v = <<>>
             \/ c = "riscv,isa-base" /\ v = <<>>
             \/ c = "riscv,isa-extensions" /\ v = <<>>
      BY <2>1, CpuSays, Zenon
    <2>3. \A c \in Known \ {"reg"} : Values(r, CpuNode, c) = {}
      BY <2>2, Zenon DEF Known
    <2>4. Values(r, CpuNode, "reg") = {<<0>>}
      BY <2>2, Zenon
    <2> QED
      BY <2>3, <2>4, Zenon
  <1>5. /\ \A c \in Known \ {"phandle", "#interrupt-cells", "interrupt-controller"} : Values(r, IntcNode, c) = {}
        /\ Values(r, IntcNode, "phandle") = {<<1>>}
        /\ Values(r, IntcNode, "#interrupt-cells") = {<<1>>}
        /\ <<>> \in Values(r, IntcNode, "interrupt-controller")
    <2>1. \A c, v : v \in Values(r, IntcNode, c) <=> Holds(IntcProps, c, v)
      BY Zenon DEF ReadsTree
    <2>2. \A c, v : v \in Values(r, IntcNode, c) <=>
             \/ c = "phandle" /\ v = <<1>>
             \/ c = "#interrupt-cells" /\ v = <<1>>
             \/ c = "compatible" /\ v = <<>>
             \/ c = "interrupt-controller" /\ v = <<>>
      BY <2>1, IntcSays, Zenon
    <2>3. \A c \in Known \ {"phandle", "#interrupt-cells", "interrupt-controller"} : Values(r, IntcNode, c) = {}
      BY <2>2, Zenon DEF Known
    <2>4. Values(r, IntcNode, "phandle") = {<<1>>}
      BY <2>2, Zenon
    <2>5. Values(r, IntcNode, "#interrupt-cells") = {<<1>>}
      BY <2>2, Zenon
    <2>6. <<>> \in Values(r, IntcNode, "interrupt-controller")
      BY <2>2, Zenon
    <2> QED
      BY <2>3, <2>4, <2>5, <2>6, Zenon
  <1>6. /\ \A c \in Known \ {"#address-cells", "#size-cells"} : Values(r, SocNode, c) = {}
        /\ Values(r, SocNode, "#address-cells") = {<<2>>}
        /\ Values(r, SocNode, "#size-cells") = {<<2>>}
    <2>1. \A c, v : v \in Values(r, SocNode, c) <=> Holds(SocProps, c, v)
      BY Zenon DEF ReadsTree
    <2>2. \A c, v : v \in Values(r, SocNode, c) <=>
             \/ c = "compatible" /\ v = <<>>
             \/ c = "#address-cells" /\ v = <<2>>
             \/ c = "#size-cells" /\ v = <<2>>
             \/ c = "ranges" /\ v = <<>>
      BY <2>1, SocSays, Zenon
    <2>3. \A c \in Known \ {"#address-cells", "#size-cells"} : Values(r, SocNode, c) = {}
      BY <2>2, Zenon DEF Known
    <2>4. Values(r, SocNode, "#address-cells") = {<<2>>}
      BY <2>2, Zenon
    <2>5. Values(r, SocNode, "#size-cells") = {<<2>>}
      BY <2>2, Zenon
    <2> QED
      BY <2>3, <2>4, <2>5, Zenon
  <1>7. /\ \A c \in Known \ {"reg", "interrupts-extended"} : Values(r, ClintNode, c) = {}
        /\ Values(r, ClintNode, "reg") = {<<0, ClintBase, 0, ClintSize>>}
        /\ Values(r, ClintNode, "interrupts-extended") = {<<1, 3, 1, 7>>}
    <2>1. \A c, v : v \in Values(r, ClintNode, c) <=> Holds(ClintProps, c, v)
      BY Zenon DEF ReadsTree
    <2>2. \A c, v : v \in Values(r, ClintNode, c) <=>
             \/ c = "compatible" /\ v = <<>>
             \/ c = "reg" /\ v = <<0, ClintBase, 0, ClintSize>>
             \/ c = "interrupts-extended" /\ v = <<1, 3, 1, 7>>
      BY <2>1, ClintSays, Zenon
    <2>3. \A c \in Known \ {"reg", "interrupts-extended"} : Values(r, ClintNode, c) = {}
      BY <2>2, Zenon DEF Known
    <2>4. Values(r, ClintNode, "reg") = {<<0, ClintBase, 0, ClintSize>>}
      BY <2>2, Zenon
    <2>5. Values(r, ClintNode, "interrupts-extended") = {<<1, 3, 1, 7>>}
      BY <2>2, Zenon
    <2> QED
      BY <2>3, <2>4, <2>5, Zenon
  <1>8. /\ \A c \in Known \ {"reg", "#address-cells", "#interrupt-cells", "phandle",
                             "interrupt-controller", "interrupts-extended"} : Values(r, PlicNode, c) = {}
        /\ Values(r, PlicNode, "reg") = {<<0, PlicBase, 0, PlicSize>>}
        /\ Values(r, PlicNode, "#address-cells") = {<<0>>}
        /\ Values(r, PlicNode, "#interrupt-cells") = {<<1>>}
        /\ Values(r, PlicNode, "phandle") = {<<2>>}
        /\ <<>> \in Values(r, PlicNode, "interrupt-controller")
        /\ Values(r, PlicNode, "riscv,ndev") = {<<10>>}
        /\ Values(r, PlicNode, "interrupts-extended") = {<<1, 11, 1, 9>>}
    <2>1. \A c, v : v \in Values(r, PlicNode, c) <=> Holds(PlicProps, c, v)
      BY Zenon DEF ReadsTree
    <2>2. \A c, v : v \in Values(r, PlicNode, c) <=>
             \/ c = "compatible" /\ v = <<>>
             \/ c = "reg" /\ v = <<0, PlicBase, 0, PlicSize>>
             \/ c = "#address-cells" /\ v = <<0>>
             \/ c = "#interrupt-cells" /\ v = <<1>>
             \/ c = "phandle" /\ v = <<2>>
             \/ c = "interrupt-controller" /\ v = <<>>
             \/ c = "riscv,ndev" /\ v = <<10>>
             \/ c = "interrupts-extended" /\ v = <<1, 11, 1, 9>>
      BY <2>1, PlicSays, Zenon
    <2>3. \A c \in Known \ {"reg", "#address-cells", "#interrupt-cells", "phandle",
                            "interrupt-controller", "interrupts-extended"} : Values(r, PlicNode, c) = {}
      BY <2>2, Zenon DEF Known
    <2>4. Values(r, PlicNode, "reg") = {<<0, PlicBase, 0, PlicSize>>}
      BY <2>2, Zenon
    <2>5. Values(r, PlicNode, "#address-cells") = {<<0>>}
      BY <2>2, Zenon
    <2>6. Values(r, PlicNode, "#interrupt-cells") = {<<1>>}
      BY <2>2, Zenon
    <2>7. Values(r, PlicNode, "phandle") = {<<2>>}
      BY <2>2, Zenon
    <2>8. <<>> \in Values(r, PlicNode, "interrupt-controller")
      BY <2>2, Zenon
    <2>9. Values(r, PlicNode, "riscv,ndev") = {<<10>>}
      BY <2>2, Zenon
    <2>10. Values(r, PlicNode, "interrupts-extended") = {<<1, 11, 1, 9>>}
      BY <2>2, Zenon
    <2> QED
      BY <2>3, <2>4, <2>5, <2>6, <2>7, <2>8, <2>9, <2>10, Zenon
  <1>9. /\ \A c \in Known \ {"reg", "interrupts"} : Values(r, UartNode, c) = {}
        /\ Values(r, UartNode, "reg") = {<<0, UartBase, 0, UartSize>>}
        /\ Values(r, UartNode, "interrupt-parent") = {<<2>>}
        /\ Values(r, UartNode, "interrupts") = {<<10>>}
    <2>1. \A c, v : v \in Values(r, UartNode, c) <=> Holds(UartProps, c, v)
      BY Zenon DEF ReadsTree
    <2>2. \A c, v : v \in Values(r, UartNode, c) <=>
             \/ c = "compatible" /\ v = <<>>
             \/ c = "reg" /\ v = <<0, UartBase, 0, UartSize>>
             \/ c = "clock-frequency" /\ v = <<UART_CLOCK>>
             \/ c = "current-speed" /\ v = <<UART_SPEED>>
             \/ c = "reg-shift" /\ v = <<0>>
             \/ c = "reg-io-width" /\ v = <<1>>
             \/ c = "interrupt-parent" /\ v = <<2>>
             \/ c = "interrupts" /\ v = <<10>>
      BY <2>1, UartSays, Zenon
    <2>3. \A c \in Known \ {"reg", "interrupts"} : Values(r, UartNode, c) = {}
      BY <2>2, Zenon DEF Known
    <2>4. Values(r, UartNode, "reg") = {<<0, UartBase, 0, UartSize>>}
      BY <2>2, Zenon
    <2>5. Values(r, UartNode, "interrupt-parent") = {<<2>>}
      BY <2>2, Zenon
    <2>6. Values(r, UartNode, "interrupts") = {<<10>>}
      BY <2>2, Zenon
    <2> QED
      BY <2>3, <2>4, <2>5, <2>6, Zenon
  <1>10. /\ \A c \in Known \ {"linux,initrd-start", "linux,initrd-end"} : Values(r, ChosenNode, c) = {}
         /\ Values(r, ChosenNode, "linux,initrd-start") = IF start # 0 /\ end # 0 THEN {<<0, start>>} ELSE {}
         /\ Values(r, ChosenNode, "linux,initrd-end") = IF start # 0 /\ end # 0 THEN {<<0, end>>} ELSE {}
    <2>1. \A c, v : v \in Values(r, ChosenNode, c) <=> Holds(ChosenProps(start, end), c, v)
      BY Zenon DEF ReadsTree
    <2>2. \A c, v : v \in Values(r, ChosenNode, c) <=>
             ChosenHolds(start, end, c, v)
      BY <2>1, ChosenSays, Zenon
    <2>3. \A c \in Known \ {"linux,initrd-start", "linux,initrd-end"} : Values(r, ChosenNode, c) = {}
      BY <2>2, Zenon DEF Known, ChosenHolds
    <2>4. Values(r, ChosenNode, "linux,initrd-start") = IF start # 0 /\ end # 0 THEN {<<0, start>>} ELSE {}
      <3> DEFINE a == "linux,initrd-start"
                 b == "linux,initrd-end"
                 x == "linux,initrd-start"
                 w == <<0, start>>
      <3>1. \A c, v : v \in Values(r, ChosenNode, c) <=>
               \/ c = "stdout-path" /\ v = <<>>
               \/ c = "bootargs" /\ v = <<>>
               \/ start # 0 /\ end # 0 /\ c = a /\ v = <<0, start>>
               \/ start # 0 /\ end # 0 /\ c = b /\ v = <<0, end>>
        BY <2>2 DEF ChosenHolds
      <3>2. x # "stdout-path" /\ x # "bootargs" /\ a # b /\ x = a
        OBVIOUS
      <3> HIDE DEF a, b, x
      <3>3. \A v : v \in Values(r, ChosenNode, x) <=> start # 0 /\ end # 0 /\ v = w
        BY <3>1, <3>2
      <3> HIDE DEF w
      <3>4. Values(r, ChosenNode, x) = IF start # 0 /\ end # 0 THEN {w} ELSE {}
        BY <3>3, Zenon
      <3> QED
        BY <3>4, Zenon DEF w, x
    <2>5. Values(r, ChosenNode, "linux,initrd-end") = IF start # 0 /\ end # 0 THEN {<<0, end>>} ELSE {}
      <3> DEFINE a == "linux,initrd-start"
                 b == "linux,initrd-end"
                 x == "linux,initrd-end"
                 w == <<0, end>>
      <3>1. \A c, v : v \in Values(r, ChosenNode, c) <=>
               \/ c = "stdout-path" /\ v = <<>>
               \/ c = "bootargs" /\ v = <<>>
               \/ start # 0 /\ end # 0 /\ c = a /\ v = <<0, start>>
               \/ start # 0 /\ end # 0 /\ c = b /\ v = <<0, end>>
        BY <2>2 DEF ChosenHolds
      <3>2. x # "stdout-path" /\ x # "bootargs" /\ a # b /\ x = b
        OBVIOUS
      <3> HIDE DEF a, b, x
      <3>3. \A v : v \in Values(r, ChosenNode, x) <=> start # 0 /\ end # 0 /\ v = w
        BY <3>1, <3>2
      <3> HIDE DEF w
      <3>4. Values(r, ChosenNode, x) = IF start # 0 /\ end # 0 THEN {w} ELSE {}
        BY <3>3, Zenon
      <3> QED
        BY <3>4, Zenon DEF w, x
    <2> QED
      BY <2>3, <2>4, <2>5, Zenon
  <1> QED
    BY <1>1, <1>2, <1>3, <1>4, <1>5, <1>6, <1>7, <1>8, <1>9, <1>10, Zenon DEF Table

\* The controllers of the tree, and those with a given handle.
Controllers(r) == {n \in r.nodes : Values(r, n, "interrupt-controller") # {}}
Handles(r, h) == {n \in Controllers(r) : Values(r, n, "phandle") = {<<h>>}}

\* The reader's rules for one node.
CountsGood(r, n) ==
    \A c \in {"#address-cells", "#size-cells", "#interrupt-cells", "phandle"} :
       \A v \in Values(r, n, c) : Len(v) = 1
RegGood(r, n) ==
    \A v \in Values(r, n, "reg") :
       Len(v) = Cell(r, Front(n), "#address-cells", 2) + Cell(r, Front(n), "#size-cells", 1)
RangeGood(r, n) ==
    \A c \in {"linux,initrd-start", "linux,initrd-end"} :
       \A v \in Values(r, n, c) : Len(v) = Cell(r, Front(n), "#address-cells", 2)
ExtendedGood(r, n) ==
    \A v \in Values(r, n, "interrupts-extended") :
       \A k \in {1, 3} : Cardinality(Handles(r, v[k])) = 1
InterruptsGood(r, n) ==
    \A v \in Values(r, n, "interrupts") :
       \E c \in Handles(r, Cell(r, n, "interrupt-parent", 0)) :
          /\ Len(v) = Cell(r, c, "#interrupt-cells", 0)
          /\ v[1] <= Cell(r, c, "riscv,ndev", 0)
NodeGood(r, n) ==
    CountsGood(r, n) /\ RegGood(r, n) /\ RangeGood(r, n) /\ ExtendedGood(r, n) /\ InterruptsGood(r, n)

\* A property of one cell.
LEMMA CellIs ==
    ASSUME NEW r, NEW n, NEW c, NEW w, Values(r, n, c) = {w}
    PROVE  \A d : Cell(r, n, c, d) = w[1]
  <1>1. (CHOOSE v \in {w} : TRUE) = w
    OBVIOUS
  <1>2. {w} # {}
    OBVIOUS
  <1> QED
    BY <1>1, <1>2, Zenon DEF Cell

\* The node above each node that has an address.
LEMMA Parents ==
    /\ Front(ChosenNode) = Root /\ Front(MemoryNode) = Root /\ Front(CpuNode) = CpusNode
    /\ Front(ClintNode) = SocNode /\ Front(PlicNode) = SocNode /\ Front(UartNode) = SocNode
  <1>1. ASSUME NEW o \in Path, NEW x \in NodeNames PROVE Front(Append(o, x)) = o
    <2> DEFINE p == Append(o, x)
    <2>1. p \in Path /\ Len(o) \in Nat /\ Len(p) = Len(o) + 1 /\ \A i \in 1 .. Len(o) : p[i] = o[i]
      BY AppendProperties, LenProperties DEF Path
    <2>2. 1 .. Len(o) = 1 .. Len(p) - 1
      BY <2>1
    <2>3. o = [i \in 1 .. Len(o) |-> o[i]]
      BY DEF Path
    <2> HIDE DEF p
    <2>4. Front(p) = [i \in 1 .. Len(p) - 1 |-> p[i]]
      BY <2>1 DEF Front, Path
    <2> QED
      BY <2>1, <2>2, <2>3, <2>4 DEF p
  <1> QED
    BY <1>1, Paths, NamesKnown, Zenon

\* The hart's controller has handle 1 and the PLIC handle 2.
LEMMA Controls ==
    ASSUME NEW r, NEW start, NEW end, r.nodes = TreeNodes, Table(r, start, end)
    PROVE  Handles(r, 1) = {IntcNode} /\ Handles(r, 2) = {PlicNode}
  <1>1. Controllers(r) = {IntcNode, PlicNode}
    <2>1. Values(r, Root, "interrupt-controller") = {}
      BY Zenon DEF Table, Known
    <2>2. Values(r, ChosenNode, "interrupt-controller") = {}
      BY Zenon DEF Table, Known
    <2>3. Values(r, MemoryNode, "interrupt-controller") = {}
      BY Zenon DEF Table, Known
    <2>4. Values(r, CpusNode, "interrupt-controller") = {}
      BY Zenon DEF Table, Known
    <2>5. Values(r, CpuNode, "interrupt-controller") = {}
      BY Zenon DEF Table, Known
    <2>6. Values(r, SocNode, "interrupt-controller") = {}
      BY Zenon DEF Table, Known
    <2>7. Values(r, ClintNode, "interrupt-controller") = {}
      BY Zenon DEF Table, Known
    <2>8. Values(r, UartNode, "interrupt-controller") = {}
      BY Zenon DEF Table, Known
    <2>9. Values(r, IntcNode, "interrupt-controller") # {} /\ Values(r, PlicNode, "interrupt-controller") # {}
      BY Zenon DEF Table
    <2> QED
      BY <2>1, <2>2, <2>3, <2>4, <2>5, <2>6, <2>7, <2>8, <2>9, Zenon DEF Controllers, TreeNodes,
           InnerNodes
  <1>2. Values(r, IntcNode, "phandle") = {<<1>>} /\ Values(r, PlicNode, "phandle") = {<<2>>}
    BY Zenon DEF Table
  <1>3. {<<1>>} # {<<2>>}
    <2>1. <<1>>[1] # <<2>>[1]
      OBVIOUS
    <2> QED
      BY <2>1
  <1>4. \A h, n : n \in Handles(r, h) <=> n \in Controllers(r) /\ Values(r, n, "phandle") = {<<h>>}
    BY DEF Handles
  <1>5. Handles(r, 1) = {IntcNode}
    BY <1>1, <1>2, <1>3, <1>4
  <1>6. Handles(r, 2) = {PlicNode}
    BY <1>1, <1>2, <1>3, <1>4
  <1> QED
    BY <1>5, <1>6

\* Every node follows the rules.
LEMMA NodesGood ==
    ASSUME NEW r, NEW start \in Nat, NEW end \in Nat, r.nodes = TreeNodes, Table(r, start, end)
    PROVE  \A n \in r.nodes : NodeGood(r, n)
  <1>c1. Cell(r, Root, "#address-cells", 2) = 2
    <2> DEFINE w == <<2>>
    <2>1. Values(r, Root, "#address-cells") = {w}
      BY Zenon DEF Table
    <2>2. w[1] = 2
      OBVIOUS
    <2> HIDE DEF w
    <2>3. Cell(r, Root, "#address-cells", 2) = w[1]
      BY <2>1, CellIs, Zenon
    <2> QED
      BY <2>2, <2>3
  <1>c2. Cell(r, Root, "#size-cells", 1) = 2
    <2> DEFINE w == <<2>>
    <2>1. Values(r, Root, "#size-cells") = {w}
      BY Zenon DEF Table
    <2>2. w[1] = 2
      OBVIOUS
    <2> HIDE DEF w
    <2>3. Cell(r, Root, "#size-cells", 1) = w[1]
      BY <2>1, CellIs, Zenon
    <2> QED
      BY <2>2, <2>3
  <1>c3. Cell(r, CpusNode, "#address-cells", 2) = 1
    <2> DEFINE w == <<1>>
    <2>1. Values(r, CpusNode, "#address-cells") = {w}
      BY Zenon DEF Table
    <2>2. w[1] = 1
      OBVIOUS
    <2> HIDE DEF w
    <2>3. Cell(r, CpusNode, "#address-cells", 2) = w[1]
      BY <2>1, CellIs, Zenon
    <2> QED
      BY <2>2, <2>3
  <1>c4. Cell(r, CpusNode, "#size-cells", 1) = 0
    <2> DEFINE w == <<0>>
    <2>1. Values(r, CpusNode, "#size-cells") = {w}
      BY Zenon DEF Table
    <2>2. w[1] = 0
      OBVIOUS
    <2> HIDE DEF w
    <2>3. Cell(r, CpusNode, "#size-cells", 1) = w[1]
      BY <2>1, CellIs, Zenon
    <2> QED
      BY <2>2, <2>3
  <1>c5. Cell(r, SocNode, "#address-cells", 2) = 2
    <2> DEFINE w == <<2>>
    <2>1. Values(r, SocNode, "#address-cells") = {w}
      BY Zenon DEF Table
    <2>2. w[1] = 2
      OBVIOUS
    <2> HIDE DEF w
    <2>3. Cell(r, SocNode, "#address-cells", 2) = w[1]
      BY <2>1, CellIs, Zenon
    <2> QED
      BY <2>2, <2>3
  <1>c6. Cell(r, SocNode, "#size-cells", 1) = 2
    <2> DEFINE w == <<2>>
    <2>1. Values(r, SocNode, "#size-cells") = {w}
      BY Zenon DEF Table
    <2>2. w[1] = 2
      OBVIOUS
    <2> HIDE DEF w
    <2>3. Cell(r, SocNode, "#size-cells", 1) = w[1]
      BY <2>1, CellIs, Zenon
    <2> QED
      BY <2>2, <2>3
  <1>h. Handles(r, 1) = {IntcNode} /\ Handles(r, 2) = {PlicNode}
    BY Controls
  <1>1. NodeGood(r, Root)
    <2>1. CountsGood(r, Root)
      <3>1. Len(<<2>>) = 1
        OBVIOUS
      <3>2. \A v \in Values(r, Root, "#address-cells") : Len(v) = 1
        BY <3>1, Zenon DEF Table, Known
      <3>3. \A v \in Values(r, Root, "#size-cells") : Len(v) = 1
        BY <3>1, Zenon DEF Table, Known
      <3>4. \A v \in Values(r, Root, "#interrupt-cells") : Len(v) = 1
        BY <3>1, Zenon DEF Table, Known
      <3>5. \A v \in Values(r, Root, "phandle") : Len(v) = 1
        BY <3>1, Zenon DEF Table, Known
      <3> QED
        BY <3>2, <3>3, <3>4, <3>5, Zenon DEF CountsGood
    <2>2. RegGood(r, Root)
      BY Zenon DEF Table, Known, RegGood
    <2>3. RangeGood(r, Root)
      BY Zenon DEF Table, Known, RangeGood
    <2>4. ExtendedGood(r, Root)
      BY Zenon DEF Table, Known, ExtendedGood
    <2>5. InterruptsGood(r, Root)
      BY Zenon DEF Table, Known, InterruptsGood
    <2> QED
      BY <2>1, <2>2, <2>3, <2>4, <2>5 DEF NodeGood
  <1>2. NodeGood(r, ChosenNode)
    <2>1. CountsGood(r, ChosenNode)
      BY Zenon DEF Table, Known, CountsGood
    <2>2. RegGood(r, ChosenNode)
      BY Zenon DEF Table, Known, RegGood
    <2>3. RangeGood(r, ChosenNode)
      <3> DEFINE x == <<0, start>>
                 y == <<0, end>>
      <3>1. Len(x) = 2 /\ Len(y) = 2
        OBVIOUS
      <3>2. /\ Values(r, ChosenNode, "linux,initrd-start") = IF start # 0 /\ end # 0 THEN {x} ELSE {}
            /\ Values(r, ChosenNode, "linux,initrd-end") = IF start # 0 /\ end # 0 THEN {y} ELSE {}
        BY Zenon DEF Table
      <3> HIDE DEF x, y
      <3>3. \A v \in Values(r, ChosenNode, "linux,initrd-start") : Len(v) = 2
        BY <3>1, <3>2, Zenon
      <3>4. \A v \in Values(r, ChosenNode, "linux,initrd-end") : Len(v) = 2
        BY <3>1, <3>2, Zenon
      <3> QED
        BY <1>c1, <1>c2, <1>c3, <1>c4, <1>c5, <1>c6, <3>3, <3>4, Parents, Zenon DEF RangeGood
    <2>4. ExtendedGood(r, ChosenNode)
      BY Zenon DEF Table, Known, ExtendedGood
    <2>5. InterruptsGood(r, ChosenNode)
      BY Zenon DEF Table, Known, InterruptsGood
    <2> QED
      BY <2>1, <2>2, <2>3, <2>4, <2>5 DEF NodeGood
  <1>3. NodeGood(r, MemoryNode)
    <2>1. CountsGood(r, MemoryNode)
      BY Zenon DEF Table, Known, CountsGood
    <2>2. RegGood(r, MemoryNode)
      <3>1. Values(r, MemoryNode, "reg") = {<<0, RamStart, 0, RamSize>>}
        BY Zenon DEF Table
      <3>2. Len(<<0, RamStart, 0, RamSize>>) = 2 + 2
        OBVIOUS
      <3> QED
        BY <1>c1, <1>c2, <1>c3, <1>c4, <1>c5, <1>c6, <3>1, <3>2, Parents, Zenon DEF RegGood
    <2>3. RangeGood(r, MemoryNode)
      BY Zenon DEF Table, Known, RangeGood
    <2>4. ExtendedGood(r, MemoryNode)
      BY Zenon DEF Table, Known, ExtendedGood
    <2>5. InterruptsGood(r, MemoryNode)
      BY Zenon DEF Table, Known, InterruptsGood
    <2> QED
      BY <2>1, <2>2, <2>3, <2>4, <2>5 DEF NodeGood
  <1>4. NodeGood(r, CpusNode)
    <2>1. CountsGood(r, CpusNode)
      <3>1. Len(<<0>>) = 1 /\ Len(<<1>>) = 1
        OBVIOUS
      <3>2. \A v \in Values(r, CpusNode, "#address-cells") : Len(v) = 1
        BY <3>1, Zenon DEF Table, Known
      <3>3. \A v \in Values(r, CpusNode, "#size-cells") : Len(v) = 1
        BY <3>1, Zenon DEF Table, Known
      <3>4. \A v \in Values(r, CpusNode, "#interrupt-cells") : Len(v) = 1
        BY <3>1, Zenon DEF Table, Known
      <3>5. \A v \in Values(r, CpusNode, "phandle") : Len(v) = 1
        BY <3>1, Zenon DEF Table, Known
      <3> QED
        BY <3>2, <3>3, <3>4, <3>5, Zenon DEF CountsGood
    <2>2. RegGood(r, CpusNode)
      BY Zenon DEF Table, Known, RegGood
    <2>3. RangeGood(r, CpusNode)
      BY Zenon DEF Table, Known, RangeGood
    <2>4. ExtendedGood(r, CpusNode)
      BY Zenon DEF Table, Known, ExtendedGood
    <2>5. InterruptsGood(r, CpusNode)
      BY Zenon DEF Table, Known, InterruptsGood
    <2> QED
      BY <2>1, <2>2, <2>3, <2>4, <2>5 DEF NodeGood
  <1>5. NodeGood(r, CpuNode)
    <2>1. CountsGood(r, CpuNode)
      BY Zenon DEF Table, Known, CountsGood
    <2>2. RegGood(r, CpuNode)
      <3>1. Values(r, CpuNode, "reg") = {<<0>>}
        BY Zenon DEF Table
      <3>2. Len(<<0>>) = 1 + 0
        OBVIOUS
      <3> QED
        BY <1>c1, <1>c2, <1>c3, <1>c4, <1>c5, <1>c6, <3>1, <3>2, Parents, Zenon DEF RegGood
    <2>3. RangeGood(r, CpuNode)
      BY Zenon DEF Table, Known, RangeGood
    <2>4. ExtendedGood(r, CpuNode)
      BY Zenon DEF Table, Known, ExtendedGood
    <2>5. InterruptsGood(r, CpuNode)
      BY Zenon DEF Table, Known, InterruptsGood
    <2> QED
      BY <2>1, <2>2, <2>3, <2>4, <2>5 DEF NodeGood
  <1>6. NodeGood(r, IntcNode)
    <2>1. CountsGood(r, IntcNode)
      <3>1. Len(<<1>>) = 1
        OBVIOUS
      <3>2. \A v \in Values(r, IntcNode, "#address-cells") : Len(v) = 1
        BY <3>1, Zenon DEF Table, Known
      <3>3. \A v \in Values(r, IntcNode, "#size-cells") : Len(v) = 1
        BY <3>1, Zenon DEF Table, Known
      <3>4. \A v \in Values(r, IntcNode, "#interrupt-cells") : Len(v) = 1
        BY <3>1, Zenon DEF Table, Known
      <3>5. \A v \in Values(r, IntcNode, "phandle") : Len(v) = 1
        BY <3>1, Zenon DEF Table, Known
      <3> QED
        BY <3>2, <3>3, <3>4, <3>5, Zenon DEF CountsGood
    <2>2. RegGood(r, IntcNode)
      BY Zenon DEF Table, Known, RegGood
    <2>3. RangeGood(r, IntcNode)
      BY Zenon DEF Table, Known, RangeGood
    <2>4. ExtendedGood(r, IntcNode)
      BY Zenon DEF Table, Known, ExtendedGood
    <2>5. InterruptsGood(r, IntcNode)
      BY Zenon DEF Table, Known, InterruptsGood
    <2> QED
      BY <2>1, <2>2, <2>3, <2>4, <2>5 DEF NodeGood
  <1>7. NodeGood(r, SocNode)
    <2>1. CountsGood(r, SocNode)
      <3>1. Len(<<2>>) = 1
        OBVIOUS
      <3>2. \A v \in Values(r, SocNode, "#address-cells") : Len(v) = 1
        BY <3>1, Zenon DEF Table, Known
      <3>3. \A v \in Values(r, SocNode, "#size-cells") : Len(v) = 1
        BY <3>1, Zenon DEF Table, Known
      <3>4. \A v \in Values(r, SocNode, "#interrupt-cells") : Len(v) = 1
        BY <3>1, Zenon DEF Table, Known
      <3>5. \A v \in Values(r, SocNode, "phandle") : Len(v) = 1
        BY <3>1, Zenon DEF Table, Known
      <3> QED
        BY <3>2, <3>3, <3>4, <3>5, Zenon DEF CountsGood
    <2>2. RegGood(r, SocNode)
      BY Zenon DEF Table, Known, RegGood
    <2>3. RangeGood(r, SocNode)
      BY Zenon DEF Table, Known, RangeGood
    <2>4. ExtendedGood(r, SocNode)
      BY Zenon DEF Table, Known, ExtendedGood
    <2>5. InterruptsGood(r, SocNode)
      BY Zenon DEF Table, Known, InterruptsGood
    <2> QED
      BY <2>1, <2>2, <2>3, <2>4, <2>5 DEF NodeGood
  <1>8. NodeGood(r, ClintNode)
    <2>1. CountsGood(r, ClintNode)
      BY Zenon DEF Table, Known, CountsGood
    <2>2. RegGood(r, ClintNode)
      <3>1. Values(r, ClintNode, "reg") = {<<0, ClintBase, 0, ClintSize>>}
        BY Zenon DEF Table
      <3>2. Len(<<0, ClintBase, 0, ClintSize>>) = 2 + 2
        OBVIOUS
      <3> QED
        BY <1>c1, <1>c2, <1>c3, <1>c4, <1>c5, <1>c6, <3>1, <3>2, Parents, Zenon DEF RegGood
    <2>3. RangeGood(r, ClintNode)
      BY Zenon DEF Table, Known, RangeGood
    <2>4. ExtendedGood(r, ClintNode)
      <3> DEFINE w == <<1, 3, 1, 7>>
      <3>1. Values(r, ClintNode, "interrupts-extended") = {w}
        BY Zenon DEF Table
      <3>2. w[1] = 1 /\ w[3] = 1
        OBVIOUS
      <3> HIDE DEF w
      <3>3. Cardinality({IntcNode}) = 1
        BY FS_Singleton
      <3> QED
        BY <1>h, <3>1, <3>2, <3>3, Zenon DEF ExtendedGood
    <2>5. InterruptsGood(r, ClintNode)
      BY Zenon DEF Table, Known, InterruptsGood
    <2> QED
      BY <2>1, <2>2, <2>3, <2>4, <2>5 DEF NodeGood
  <1>9. NodeGood(r, PlicNode)
    <2>1. CountsGood(r, PlicNode)
      <3>1. Len(<<0>>) = 1 /\ Len(<<1>>) = 1 /\ Len(<<2>>) = 1
        OBVIOUS
      <3>2. \A v \in Values(r, PlicNode, "#address-cells") : Len(v) = 1
        BY <3>1, Zenon DEF Table, Known
      <3>3. \A v \in Values(r, PlicNode, "#size-cells") : Len(v) = 1
        BY <3>1, Zenon DEF Table, Known
      <3>4. \A v \in Values(r, PlicNode, "#interrupt-cells") : Len(v) = 1
        BY <3>1, Zenon DEF Table, Known
      <3>5. \A v \in Values(r, PlicNode, "phandle") : Len(v) = 1
        BY <3>1, Zenon DEF Table, Known
      <3> QED
        BY <3>2, <3>3, <3>4, <3>5, Zenon DEF CountsGood
    <2>2. RegGood(r, PlicNode)
      <3>1. Values(r, PlicNode, "reg") = {<<0, PlicBase, 0, PlicSize>>}
        BY Zenon DEF Table
      <3>2. Len(<<0, PlicBase, 0, PlicSize>>) = 2 + 2
        OBVIOUS
      <3> QED
        BY <1>c1, <1>c2, <1>c3, <1>c4, <1>c5, <1>c6, <3>1, <3>2, Parents, Zenon DEF RegGood
    <2>3. RangeGood(r, PlicNode)
      BY Zenon DEF Table, Known, RangeGood
    <2>4. ExtendedGood(r, PlicNode)
      <3> DEFINE w == <<1, 11, 1, 9>>
      <3>1. Values(r, PlicNode, "interrupts-extended") = {w}
        BY Zenon DEF Table
      <3>2. w[1] = 1 /\ w[3] = 1
        OBVIOUS
      <3> HIDE DEF w
      <3>3. Cardinality({IntcNode}) = 1
        BY FS_Singleton
      <3> QED
        BY <1>h, <3>1, <3>2, <3>3, Zenon DEF ExtendedGood
    <2>5. InterruptsGood(r, PlicNode)
      BY Zenon DEF Table, Known, InterruptsGood
    <2> QED
      BY <2>1, <2>2, <2>3, <2>4, <2>5 DEF NodeGood
  <1>10. NodeGood(r, UartNode)
    <2>1. CountsGood(r, UartNode)
      BY Zenon DEF Table, Known, CountsGood
    <2>2. RegGood(r, UartNode)
      <3>1. Values(r, UartNode, "reg") = {<<0, UartBase, 0, UartSize>>}
        BY Zenon DEF Table
      <3>2. Len(<<0, UartBase, 0, UartSize>>) = 2 + 2
        OBVIOUS
      <3> QED
        BY <1>c1, <1>c2, <1>c3, <1>c4, <1>c5, <1>c6, <3>1, <3>2, Parents, Zenon DEF RegGood
    <2>3. RangeGood(r, UartNode)
      BY Zenon DEF Table, Known, RangeGood
    <2>4. ExtendedGood(r, UartNode)
      BY Zenon DEF Table, Known, ExtendedGood
    <2>5. InterruptsGood(r, UartNode)
      <3> DEFINE w == <<10>>
      <3>1. Values(r, UartNode, "interrupts") = {w}
        BY Zenon DEF Table
      <3>2. Len(w) = 1 /\ w[1] <= 10
        OBVIOUS
      <3>3. Cell(r, UartNode, "interrupt-parent", 0) = 2
        <4> DEFINE z == <<2>>
        <4>1. Values(r, UartNode, "interrupt-parent") = {z}
          BY Zenon DEF Table
        <4>2. z[1] = 2
          OBVIOUS
        <4> HIDE DEF z
        <4>3. Cell(r, UartNode, "interrupt-parent", 0) = z[1]
          BY <4>1, CellIs, Zenon
        <4> QED
          BY <4>2, <4>3
      <3>4. Cell(r, PlicNode, "#interrupt-cells", 0) = 1
        <4> DEFINE z == <<1>>
        <4>1. Values(r, PlicNode, "#interrupt-cells") = {z}
          BY Zenon DEF Table
        <4>2. z[1] = 1
          OBVIOUS
        <4> HIDE DEF z
        <4>3. Cell(r, PlicNode, "#interrupt-cells", 0) = z[1]
          BY <4>1, CellIs, Zenon
        <4> QED
          BY <4>2, <4>3
      <3>5. Cell(r, PlicNode, "riscv,ndev", 0) = 10
        <4> DEFINE z == <<10>>
        <4>1. Values(r, PlicNode, "riscv,ndev") = {z}
          BY Zenon DEF Table
        <4>2. z[1] = 10
          OBVIOUS
        <4> HIDE DEF z
        <4>3. Cell(r, PlicNode, "riscv,ndev", 0) = z[1]
          BY <4>1, CellIs, Zenon
        <4> QED
          BY <4>2, <4>3
      <3> HIDE DEF w
      <3> QED
        BY <1>h, <3>1, <3>2, <3>3, <3>4, <3>5, Zenon DEF InterruptsGood
    <2> QED
      BY <2>1, <2>2, <2>3, <2>4, <2>5 DEF NodeGood
  <1> QED
    BY <1>1, <1>2, <1>3, <1>4, <1>5, <1>6, <1>7, <1>8, <1>9, <1>10, Zenon DEF TreeNodes, InnerNodes

\* The tree in memory is the one built for the command line.
TreeBuilt ==
    stage = "initrd" /\ ~NoFdt =>
        tree = fdt_build_riscvemu(IF HasInitrd THEN cmd.initrd.base ELSE 0,
                                  IF HasInitrd THEN EndOf(cmd.initrd) ELSE 0).out

\* At first nothing is claimed of the tree.
LEMMA InitTreeBuilt == Init => TreeBuilt
  BY DEF Init, TreeBuilt

\* Only BuildFdt enters the stage in which the initrd is copied.
LEMMA NextTreeBuilt == TreeBuilt /\ [Next]_vars => TreeBuilt'
  <1> SUFFICES ASSUME TreeBuilt, [Next]_vars, stage' = "initrd", ~NoFdt' PROVE TreeBuilt'
    BY DEF TreeBuilt
  <1> DEFINE start == IF HasInitrd THEN cmd.initrd.base ELSE 0
             end == IF HasInitrd THEN EndOf(cmd.initrd) ELSE 0
  <1>1. CASE BuildFdt
    <2>1. cmd' = cmd
      BY <1>1 DEF BuildFdt
    <2>2. ~NoFdt /\ start' = start /\ end' = end
      BY <2>1 DEF NoFdt, HasInitrd, EndOf
    <2>3. tree' = fdt_build_riscvemu(start, end).out
      BY <1>1, <2>2 DEF BuildFdt
    <2> HIDE DEF start, end
    <2>4. tree' = fdt_build_riscvemu(start', end').out
      BY <2>2, <2>3
    <2> QED
      BY <2>4, Zenon DEF TreeBuilt, start, end
  <1>2. CASE UNCHANGED vars
    <2>1. cmd' = cmd /\ stage' = stage /\ tree' = tree
      BY <1>2 DEF vars
    <2>2. stage = "initrd" /\ ~NoFdt /\ start' = start /\ end' = end
      BY <2>1 DEF NoFdt, HasInitrd, EndOf
    <2>3. tree = fdt_build_riscvemu(start, end).out
      BY <2>2 DEF TreeBuilt
    <2> HIDE DEF start, end
    <2>4. tree' = fdt_build_riscvemu(start', end').out
      BY <2>1, <2>2, <2>3
    <2> QED
      BY <2>4, Zenon DEF TreeBuilt, start, end
  <1>3. ASSUME LoadProgram \/ MapInitrd \/ CopyInitrd \/ LoadExtra \/ Start PROVE FALSE
    BY <1>3 DEF LoadProgram, MapInitrd, CopyInitrd, LoadExtra, Start, Fails
  <1> QED
    BY <1>1, <1>2, <1>3 DEF Next

(***************************************************************************)
(* Firmware can read the tree main leaves in memory, for every layout of   *)
(* the devices and every command line: every node is closed, every reg and *)
(* initrd address has the cells its parent's counts ask for, every         *)
(* interrupt leads to one controller that has the line, and the initrd is  *)
(* announced with its exact range.                                         *)
(***************************************************************************)
THEOREM LoaderTreeReadable == Spec => []TreeReadable
  <1>1. LInv /\ TreeBuilt => TreeReadable
    <2> SUFFICES ASSUME LInv, TreeBuilt, stage = "initrd", ~NoFdt PROVE TreeReadable
      BY DEF TreeReadable
    <2> DEFINE start == IF HasInitrd THEN cmd.initrd.base ELSE 0
               end == IF HasInitrd THEN EndOf(cmd.initrd) ELSE 0
               r == Read(tree)
    <2>1. cmd.initrd \in ImageType /\ (HasInitrd => ~Unloadable(cmd.initrd))
      BY Images DEF LInv
    <2>2. start \in Nat /\ end \in Nat /\ (start # 0 <=> HasInitrd /\ cmd.initrd.base # 0)
      BY <2>1 DEF ImageType, Unloadable, Unmapped, HasInitrd, EndOf
    <2>3. start # 0 => end # 0 /\ start = cmd.initrd.base /\ end = EndOf(cmd.initrd)
      BY <2>1 DEF ImageType, Unloadable, Unmapped, HasInitrd, EndOf
    <2>4. tree = fdt_build_riscvemu(start, end).out
      BY DEF TreeBuilt
    <2> HIDE DEF start, end
    <2>5. r = [open |-> <<>>, nodes |-> TreeNodes, props |-> TreeProps(start, end)]
      BY <2>2, <2>4, TreeRead
    <2> HIDE DEF r
    <2>6. r.open = <<>> /\ r.nodes = TreeNodes /\ r.props = TreeProps(start, end)
      BY <2>5
    <2>7. Table(r, start, end)
      BY <2>2, <2>6, TreeValues, TableRead
    <2>8. \A n \in r.nodes : NodeGood(r, n)
      BY <2>2, <2>6, <2>7, NodesGood
    <2> DEFINE starts == Values(r, <<"/", "chosen">>, "linux,initrd-start")
               ends == Values(r, <<"/", "chosen">>, "linux,initrd-end")
               x == <<0, cmd.initrd.base>>
               y == <<0, EndOf(cmd.initrd)>>
    <2>9. /\ starts = IF start # 0 /\ end # 0 THEN {<<0, start>>} ELSE {}
          /\ ends = IF start # 0 /\ end # 0 THEN {<<0, end>>} ELSE {}
      BY <2>7, Zenon DEF Table, ChosenNode
    <2> HIDE DEF starts, ends
    <2>10. starts \X ends = IF HasInitrd /\ cmd.initrd.base # 0 THEN {<<x, y>>} ELSE {}
      <3>1. CASE start # 0
        <4>1. starts = {x} /\ ends = {y}
          BY <2>3, <2>9, <3>1
        <4> HIDE DEF x, y
        <4>2. {x} \X {y} = {<<x, y>>}
          OBVIOUS
        <4> QED
          BY <2>2, <3>1, <4>1, <4>2
      <3>2. CASE start = 0
        <4>1. starts = {} /\ ends = {}
          BY <2>9, <3>2
        <4> HIDE DEF x, y
        <4> QED
          BY <2>2, <3>2, <4>1
      <3> QED
        BY <3>1, <3>2
    <2>11. starts \X ends = IF HasInitrd /\ cmd.initrd.base # 0
                           THEN {<<<<0, cmd.initrd.base>>, <<0, EndOf(cmd.initrd)>>>>} ELSE {}
      BY <2>10
    <2> DEFINE goal == IF HasInitrd /\ cmd.initrd.base # 0
                       THEN {<<<<0, cmd.initrd.base>>, <<0, EndOf(cmd.initrd)>>>>} ELSE {}
    <2>12. starts \X ends = goal
      BY <2>11, Zenon
    <2> HIDE DEF x, y, goal
    <2>13. /\ r.open = <<>>
           /\ starts \X ends = goal
           /\ \A n \in r.nodes : CountsGood(r, n) /\ RegGood(r, n) /\ RangeGood(r, n)
                                  /\ ExtendedGood(r, n) /\ InterruptsGood(r, n)
      BY <2>6, <2>8, <2>12, Zenon DEF NodeGood
    <2>14. \A q \in {Read(tree)} : q = r
      BY DEF r
    <2> SUFFICES ASSUME NEW q \in {Read(tree)}, q = r
                 PROVE  /\ q.open = <<>>
                        /\ starts \X ends = goal
                        /\ \A n \in q.nodes : CountsGood(q, n) /\ RegGood(q, n) /\ RangeGood(q, n)
                                               /\ ExtendedGood(q, n) /\ InterruptsGood(q, n)
      BY <2>14, ZenonT(60)
         DEF TreeReadable, CountsGood, RegGood, RangeGood, ExtendedGood, InterruptsGood, Handles,
             Controllers, r, starts, ends, goal
    <2> QED
      BY <2>13, Zenon
  <1> QED
    BY InitLInv, NextLInv, InitTreeBuilt, NextTreeBuilt, <1>1, PTL DEF Spec

-----------------------------------------------------------------------------
(***************************************************************************)
(* The spin detector.  The invariant: going back from loop_window_pos, the *)
(* ring holds the latest fetches in order, and spin_count is the length of *)
(* the latest run of repeats in the trace.                                 *)
(***************************************************************************)

\* A remainder is a valid index.
LEMMA ModRange ==
    ASSUME NEW a \in Nat, NEW b \in Nat \ {0}
    PROVE  a % b \in 0 .. b - 1
  OBVIOUS

\* The remainder of a number below twice the modulus.
LEMMA ModWindow ==
    ASSUME NEW a \in Nat, NEW b \in Nat \ {0}, a < 2 * b
    PROVE  a % b = IF a < b THEN a ELSE a - b
  OBVIOUS

\* The indices of loop_window.
Ring == 0 .. WindowSize - 1

\* The type invariant.
SpinTypeOK ==
    /\ loop_window \in [Ring -> Nat]
    /\ loop_window_pos \in Ring
    /\ spin_count \in 0 .. SpinLimit
    /\ spin_armed \in {0, 1} /\ terminated \in {0, 1}
    /\ spin_detect_active \in {0, 1}
    /\ pc \in Pcs
    /\ body \in 0 .. NPc
    /\ body > 0 => pc <= body
    /\ trace \in [1 .. Remembered -> Nat]

\* Where the ring keeps the j-th latest fetch.
SlotOf(pos, j) == IF pos >= j THEN pos - j ELSE pos + WindowSize - j

\* A window holds the latest WindowSize fetches of t.
Mirrors(window, pos, t) == \A j \in 1 .. WindowSize : window[SlotOf(pos, j)] = t[j]

\* Fetch i of t repeats one of the WindowSize before it.
RepeatsIn(t, i) == t[i] # 0 /\ \E j \in i + 1 .. i + WindowSize : t[j] = t[i]

\* n is the length of the latest run of repeats in t.
Run(t, n) ==
    /\ \A i \in 1 .. n : RepeatsIn(t, i)
    /\ n < SpinLimit => ~RepeatsIn(t, n + 1)

\* The inductive invariant.
SInv ==
    /\ SpinTypeOK
    /\ Mirrors(loop_window, loop_window_pos, trace)
    /\ Run(trace, spin_count)
    /\ terminated = 1 <=> spin_count = SpinLimit

\* The WindowSize latest fetches have slots in the ring ...
LEMMA SlotOfRange ==
    ASSUME NEW pos \in Ring, NEW j \in 1 .. WindowSize
    PROVE  SlotOf(pos, j) \in Ring
  BY SpinAssumption DEF Ring, SlotOf

\* ... and every slot of the ring is one of theirs.
LEMMA SlotOfOnto ==
    ASSUME NEW pos \in Ring, NEW i \in Ring
    PROVE  \E j \in 1 .. WindowSize : SlotOf(pos, j) = i
  <1> DEFINE j == IF i < pos THEN pos - i ELSE pos + WindowSize - i
  <1>1. j \in 1 .. WindowSize /\ SlotOf(pos, j) = i
    BY SpinAssumption DEF Ring, SlotOf
  <1> QED
    BY <1>1

\* So the loop over the ring asks whether pc is one of the latest fetches.
LEMMA SeenInTrace ==
    ASSUME NEW w \in [Ring -> Nat], NEW pos \in Ring, NEW t, Mirrors(w, pos, t)
    PROVE  Seen(w) <=> \E j \in 1 .. WindowSize : t[j] = pc
  <1>1. ASSUME NEW i \in Ring, w[i] = pc PROVE \E j \in 1 .. WindowSize : t[j] = pc
    BY <1>1, SlotOfOnto DEF Mirrors
  <1>2. ASSUME NEW j \in 1 .. WindowSize, t[j] = pc PROVE \E i \in Ring : w[i] = pc
    BY <1>2, SlotOfRange DEF Mirrors
  <1> QED
    BY <1>1, <1>2 DEF Seen, Ring

\* One fetch, counted and recorded.
LEMMA CountKeeps ==
    ASSUME NEW w \in [Ring -> Nat], NEW pos \in Ring, NEW n \in 0 .. SpinLimit - 1,
           NEW t \in [1 .. Remembered -> Nat],
           pc \in Pcs, Mirrors(w, pos, t), Run(t, n),
           Count(w, pos, n), trace' = Shift(t)
    PROVE  /\ loop_window' \in [Ring -> Nat] /\ loop_window_pos' \in Ring
           /\ spin_count' \in 0 .. SpinLimit /\ terminated' \in {0, 1}
           /\ trace' \in [1 .. Remembered -> Nat]
           /\ Mirrors(loop_window', loop_window_pos', trace')
           /\ Run(trace', spin_count')
           /\ terminated' = 1 <=> spin_count' = SpinLimit
  <1> DEFINE c == IF Seen(w) THEN n + 1 ELSE 0
             u == Shift(t)
             q == (pos + 1) % WindowSize
             x == [w EXCEPT ![pos] = pc]
  <1>a. WindowSize \in Nat \ {0} /\ SpinLimit \in Nat \ {0} /\ NPc \in Nat \ {0}
    BY SpinAssumption
  <1>b. Remembered = WindowSize + SpinLimit /\ pc \in Nat /\ pc # 0
    BY <1>a DEF Remembered, Pcs
  <1>1. /\ spin_count' = c /\ loop_window' = x /\ loop_window_pos' = q
        /\ terminated' = IF c >= SpinLimit THEN 1 ELSE 0
    BY DEF Count
  <1>2. u \in [1 .. Remembered -> Nat]
    <2>1. \A i \in 1 .. Remembered : i # 1 => i - 1 \in 1 .. Remembered
      BY <1>a, <1>b
    <2>2. \A i \in 1 .. Remembered : (IF i = 1 THEN pc ELSE t[i - 1]) \in Nat
      BY <1>b, <2>1
    <2> QED
      BY <2>2 DEF Shift
  <1>3. u[1] = pc /\ \A i \in 1 .. Remembered - 1 : u[i + 1] = t[i]
    <2>1. 1 \in 1 .. Remembered
      BY <1>a, <1>b
    <2>2. \A i \in 1 .. Remembered - 1 : i + 1 \in 1 .. Remembered /\ i + 1 # 1 /\ (i + 1) - 1 = i
      BY <1>a, <1>b
    <2> QED
      BY <2>1, <2>2 DEF Shift
  <1>4. q \in Ring /\ q = IF pos + 1 < WindowSize THEN pos + 1 ELSE 0
    <2>1. pos + 1 \in Nat /\ pos + 1 < 2 * WindowSize
      BY <1>a DEF Ring
    <2> DEFINE a == pos + 1
    <2> HIDE DEF a
    <2>4. a % WindowSize = IF a < WindowSize THEN a ELSE a - WindowSize
      BY <1>a, <2>1, ModWindow DEF a
    <2>5. q = a % WindowSize
      BY DEF a
    <2> HIDE DEF q
    <2>2. q = (IF a < WindowSize THEN a ELSE a - WindowSize) /\ a = pos + 1
      <3>1. q = (IF a < WindowSize THEN a ELSE a - WindowSize)
        BY <2>4, <2>5
      <3> QED
        BY <3>1 DEF a
    <2>3. pos \in Nat /\ pos < WindowSize
      BY <1>a DEF Ring
    <2> QED
      BY <1>a, <2>2, <2>3 DEF Ring
  <1>5. x \in [Ring -> Nat]
    BY <1>b
  <1> HIDE DEF u, q
  <1>6. Mirrors(x, q, u)
    <2> SUFFICES ASSUME NEW j \in 1 .. WindowSize PROVE x[SlotOf(q, j)] = u[j]
      BY DEF Mirrors
    <2>1. CASE j = 1
      <3>1. SlotOf(q, 1) = pos
        BY <1>a, <1>4 DEF SlotOf, Ring
      <3> QED
        BY <1>3, <2>1, <3>1
    <2>2. CASE j # 1
      <3>1. j - 1 \in 1 .. WindowSize /\ j - 1 \in 1 .. Remembered - 1 /\ (j - 1) + 1 = j
        BY <1>a, <1>b, <2>2
      <3>2. SlotOf(q, j) = SlotOf(pos, j - 1) /\ SlotOf(q, j) # pos
        BY <1>a, <1>4, <2>2 DEF SlotOf, Ring
      <3>3. SlotOf(pos, j - 1) \in Ring
        BY <3>1, SlotOfRange
      <3>4. u[j] = t[j - 1]
        BY <1>3, <3>1
      <3>5. w[SlotOf(pos, j - 1)] = t[j - 1]
        BY <3>1 DEF Mirrors
      <3> QED
        BY <3>2, <3>3, <3>4, <3>5
    <2> QED
      BY <2>1, <2>2
  <1>7. RepeatsIn(u, 1) <=> Seen(w)
    <2>1. Seen(w) <=> \E j \in 1 .. WindowSize : t[j] = pc
      BY SeenInTrace
    <2>2. ASSUME NEW j \in 1 .. WindowSize, t[j] = pc PROVE RepeatsIn(u, 1)
      <3>1. j + 1 \in 1 + 1 .. 1 + WindowSize /\ j \in 1 .. Remembered - 1
        BY <1>a, <1>b
      <3> QED
        BY <1>b, <1>3, <2>2, <3>1 DEF RepeatsIn
    <2>3. ASSUME RepeatsIn(u, 1) PROVE \E j \in 1 .. WindowSize : t[j] = pc
      <3>1. PICK i \in 1 + 1 .. 1 + WindowSize : u[i] = u[1]
        BY <2>3 DEF RepeatsIn
      <3>2. i - 1 \in 1 .. WindowSize /\ i - 1 \in 1 .. Remembered - 1 /\ (i - 1) + 1 = i
        BY <1>a, <1>b
      <3>3. t[i - 1] = pc
        BY <1>3, <3>1, <3>2
      <3> QED
        BY <3>2, <3>3
    <2> QED
      BY <2>1, <2>2, <2>3
  <1>8. ASSUME NEW i \in 1 .. SpinLimit - 1
        PROVE  RepeatsIn(u, i + 1) <=> RepeatsIn(t, i)
    <2>1. u[i + 1] = t[i]
      BY <1>a, <1>b, <1>3
    <2>2. ASSUME NEW j \in i + 1 .. i + WindowSize
          PROVE  j + 1 \in i + 1 + 1 .. i + 1 + WindowSize /\ u[j + 1] = t[j]
      BY <1>a, <1>b, <1>3
    <2>3. ASSUME NEW j \in i + 1 + 1 .. i + 1 + WindowSize
          PROVE  j - 1 \in i + 1 .. i + WindowSize /\ u[j] = t[j - 1]
      <3>1. j - 1 \in i + 1 .. i + WindowSize /\ j - 1 \in 1 .. Remembered - 1 /\ (j - 1) + 1 = j
        BY <1>a, <1>b
      <3> QED
        BY <1>3, <3>1
    <2> QED
      BY <2>1, <2>2, <2>3 DEF RepeatsIn
  <1>9. Run(u, c)
    <2>1. CASE ~Seen(w)
      BY <1>a, <1>7, <2>1 DEF Run
    <2>2. CASE Seen(w)
      <3>1. c = n + 1 /\ c \in Nat
        BY <1>a, <2>2
      <3>2. ASSUME NEW i \in 1 .. c PROVE RepeatsIn(u, i)
        <4>1. CASE i = 1
          BY <1>7, <2>2, <4>1
        <4>2. CASE i # 1
          <5>1. i - 1 \in 1 .. n /\ i - 1 \in 1 .. SpinLimit - 1 /\ (i - 1) + 1 = i
            BY <1>a, <3>1, <4>2
          <5>2. RepeatsIn(t, i - 1)
            BY <5>1 DEF Run
          <5>3. RepeatsIn(u, (i - 1) + 1)
            BY <1>8, <5>1, <5>2
          <5> QED
            BY <5>1, <5>3
        <4> QED
          BY <4>1, <4>2
      <3>3. ASSUME c < SpinLimit PROVE ~RepeatsIn(u, c + 1)
        <4>1. c \in 1 .. SpinLimit - 1 /\ n < SpinLimit
          BY <1>a, <3>1, <3>3
        <4>2. ~RepeatsIn(t, c)
          BY <3>1, <4>1 DEF Run
        <4> QED
          BY <1>8, <4>1, <4>2
      <3> QED
        BY <3>2, <3>3 DEF Run
    <2> QED
      BY <2>1, <2>2
  <1>10. c \in 0 .. SpinLimit
    BY <1>a
  <1> HIDE DEF c, x
  <1> QED
    BY <1>a, <1>1, <1>2, <1>4, <1>5, <1>6, <1>9, <1>10 DEF u

\* The ring and the trace as a trap into M leaves them.
LEMMA EmptyOk ==
    /\ Zeros \in [Ring -> Nat] /\ 0 \in Ring
    /\ NoTrace \in [1 .. Remembered -> Nat]
    /\ Mirrors(Zeros, 0, NoTrace)
    /\ Run(NoTrace, 0)
    /\ 0 \in 0 .. SpinLimit - 1
  <1>1. WindowSize \in Nat \ {0} /\ SpinLimit \in Nat \ {0}
    BY SpinAssumption
  <1>2. Zeros \in [Ring -> Nat] /\ 0 \in Ring /\ NoTrace \in [1 .. Remembered -> Nat]
    BY <1>1 DEF Zeros, Ring, NoTrace
  <1>3. \A j \in 1 .. WindowSize : SlotOf(0, j) \in Ring
    BY <1>2, SlotOfRange
  <1>4. \A j \in 1 .. WindowSize : NoTrace[j] = 0
    BY <1>1 DEF NoTrace, Remembered
  <1>5. Mirrors(Zeros, 0, NoTrace)
    BY <1>3, <1>4 DEF Mirrors, Zeros, Ring
  <1>6. NoTrace[1] = 0
    BY <1>1, <1>4
  <1>7. Run(NoTrace, 0)
    BY <1>1, <1>6 DEF Run, RepeatsIn
  <1> QED
    BY <1>1, <1>2, <1>5, <1>7

\* The invariant holds at first ...
LEMMA InitSInv == SpinInit => SInv
  BY EmptyOk, SpinAssumption DEF SpinInit, SInv, SpinTypeOK, Ring, Pcs

\* ... the detector preserves it, armed, re-armed or off ...
LEMMA DetectKeeps ==
    ASSUME SInv, NEW jt \in {0, 1}, Detect(jt), terminated = 0
    PROVE  /\ loop_window' \in [Ring -> Nat] /\ loop_window_pos' \in Ring
           /\ spin_count' \in 0 .. SpinLimit /\ terminated' \in {0, 1}
           /\ spin_armed' \in {0, 1}
           /\ trace' \in [1 .. Remembered -> Nat]
           /\ Mirrors(loop_window', loop_window_pos', trace')
           /\ Run(trace', spin_count')
           /\ terminated' = 1 <=> spin_count' = SpinLimit
  <1>1. CASE UNCHANGED <<detector, trace>>
    BY <1>1 DEF detector, SInv, SpinTypeOK
  <1>2. CASE spin_armed' = 1 /\ Count(Zeros, 0, 0) /\ trace' = Shift(NoTrace)
    BY <1>2, EmptyOk, CountKeeps DEF SInv, SpinTypeOK
  <1>3. CASE /\ UNCHANGED spin_armed /\ trace' = Shift(trace)
             /\ Count(loop_window, loop_window_pos, spin_count)
    <2>1. spin_count \in 0 .. SpinLimit - 1
      BY SpinAssumption DEF SInv, SpinTypeOK
    <2> QED
      BY <1>3, <2>1, CountKeeps DEF SInv, SpinTypeOK
  <1> QED
    BY <1>1, <1>2, <1>3 DEF Detect

\* ... and so does every iteration of the run loop.
LEMMA NextSInv == SInv /\ [SpinNext]_spinVars => SInv'
  <1> SUFFICES ASSUME SInv, [SpinNext]_spinVars PROVE SInv'
    OBVIOUS
  <1> USE SpinAssumption
  <1>1. ASSUME NEW jt \in {0, 1}, Running, Detect(jt), pc' \in Pcs, body' \in 0 .. NPc,
               body' > 0 => pc' <= body'
        PROVE  SInv'
    BY <1>1, DetectKeeps DEF Running, SInv, SpinTypeOK
  <1>2. CASE FreeInstruction
    BY <1>1, <1>2 DEF FreeInstruction, SInv, SpinTypeOK
  <1>3. CASE TrapToMachine
    BY <1>1, <1>3 DEF TrapToMachine, SInv, SpinTypeOK
  <1>4. CASE EnterLoop
    <2>1. pc' \in Pcs /\ body' \in 0 .. NPc /\ pc' <= body'
      BY <1>4 DEF EnterLoop, Pcs
    <2> QED
      BY <1>1, <1>4, <2>1 DEF EnterLoop
  <1>5. CASE LoopInstruction
    <2>1. pc' = (IF pc = body THEN 1 ELSE pc + 1) /\ body' \in {0, body} /\ body > 0
      BY <1>5 DEF LoopInstruction
    <2>2. pc \in 1 .. NPc /\ body \in 0 .. NPc /\ pc <= body
      BY <2>1 DEF SInv, SpinTypeOK, Pcs
    <2>3. pc' \in 1 .. NPc /\ pc' <= body
      BY <2>1, <2>2
    <2> QED
      BY <1>1, <1>5, <2>1, <2>2, <2>3 DEF LoopInstruction, Pcs
  <1>6. CASE UNCHANGED spinVars
    BY <1>6 DEF spinVars, detector, SInv, SpinTypeOK, Pcs
  <1> QED
    BY <1>2, <1>3, <1>4, <1>5, <1>6 DEF SpinNext

\* The length of the latest run is the maximum in CountsRepeatedFetches.
LEMMA RunIsMax ==
    ASSUME SInv
    PROVE  spin_count = Max({n \in 0 .. SpinLimit : \A i \in 1 .. n : Repeats(i)})
  <1> DEFINE S == {n \in 0 .. SpinLimit : \A i \in 1 .. n : Repeats(i)}
  <1>1. \A i : Repeats(i) <=> RepeatsIn(trace, i)
    BY DEF Repeats, RepeatsIn
  <1>2. SpinLimit \in Nat /\ spin_count \in 0 .. SpinLimit /\ Run(trace, spin_count)
    BY SpinAssumption DEF SInv, SpinTypeOK
  <1>3. spin_count \in S
    BY <1>1, <1>2 DEF Run
  <1>4. ASSUME NEW n \in S PROVE spin_count >= n
    <2>1. SUFFICES ASSUME n > spin_count PROVE FALSE
      BY <1>2
    <2>2. spin_count + 1 \in 1 .. n /\ spin_count < SpinLimit
      BY <1>2, <2>1
    <2> QED
      BY <1>1, <1>2, <2>2 DEF Run
  <1>5. \A x \in S : (\A y \in S : x >= y) => x = spin_count
    BY <1>2, <1>3, <1>4
  <1>6. Max(S) = CHOOSE x \in S : \A y \in S : x >= y
    BY DEF Max
  <1> QED
    BY <1>3, <1>4, <1>5, <1>6

(***************************************************************************)
(* spin_count is the number of latest fetches since the detector was armed *)
(* that each repeat one of the WindowSize fetches before them, and the     *)
(* emulation ends exactly when it reaches the limit.                       *)
(***************************************************************************)
THEOREM SpinCountsRepeats == SpinSpec => []CountsRepeatedFetches
  <1>1. SInv => CountsRepeatedFetches
    BY RunIsMax DEF SInv, CountsRepeatedFetches
  <1> QED
    BY InitSInv, NextSInv, <1>1, PTL DEF SpinSpec

-----------------------------------------------------------------------------
(***************************************************************************)
(* The console.  What was received is always a prefix of what was typed,   *)
(* so the invariant is about its length: where the escape was met, or how  *)
(* far it has been excluded.                                               *)
(***************************************************************************)

\* The type invariant.
ConsoleTypeOK ==
    /\ typed \in Seq(Byte) /\ consumed \in 0 .. Len(typed)
    /\ received \in Seq(Byte)
    /\ uart_esc_held \in {0, 1} /\ uart_quit_requested \in {0, 1}
    /\ uart_terminal_raw \in {0, 1} /\ uart_saved_termios \in {0, 1}
    /\ signalled \in {0, 1} /\ stopped \in {0, 1}

\* Ctrl-] x at position i of what read() has returned.
PairAt(i) == i + 1 <= consumed /\ typed[i] = Esc /\ typed[i + 1] = Quit

\* The inductive invariant.
CInv ==
    /\ ConsoleTypeOK
    /\ Len(received) <= consumed
    /\ received = SubSeq(typed, 1, Len(received))
    /\ stopped = 0 => uart_terminal_raw = uart_saved_termios
    /\ uart_saved_termios = 0 =>
          /\ uart_terminal_raw = 0 /\ signalled = 0
          /\ uart_esc_held = 0 /\ uart_quit_requested = 0
          /\ Len(received) = consumed
    /\ uart_saved_termios = 1 =>
          /\ \A i \in 1 .. Len(received) : ~PairAt(i)
          /\ signalled = 1 => uart_quit_requested = 1
          /\ signalled = 0 /\ uart_quit_requested = 1 => PairAt(Len(received) + 1)
          /\ signalled = 0 /\ uart_quit_requested = 0 =>
                /\ Len(received) = consumed - uart_esc_held
                /\ uart_esc_held = 1 <=> (consumed > 0 /\ typed[consumed] = Esc)

\* Slices of a sequence of bytes, by position.
LEMMA Slice ==
    ASSUME NEW s \in Seq(Byte), NEW a \in 1 .. Len(s) + 1, NEW b \in a - 1 .. Len(s)
    PROVE  /\ SubSeq(s, a, b) \in Seq(Byte)
           /\ Len(SubSeq(s, a, b)) = b - a + 1
           /\ \A i \in 1 .. b - a + 1 : SubSeq(s, a, b)[i] = s[a + i - 1]
  <1>1. Len(s) \in Nat /\ \A i \in a .. b : s[i] \in Byte
    BY ElementOfSeq, LenProperties
  <1>2. a \in Int /\ b \in Int
    BY <1>1
  <1>3. /\ SubSeq(s, a, b) \in Seq(Byte)
        /\ Len(SubSeq(s, a, b)) = IF a <= b THEN b - a + 1 ELSE 0
        /\ \A i \in 1 .. b - a + 1 : SubSeq(s, a, b)[i] = s[a + i - 1]
    BY <1>1, <1>2, SubSeqProperties
  <1> QED
    BY <1>1, <1>2, <1>3

\* A slice of a slice.
LEMMA SliceOfSlice ==
    ASSUME NEW s \in Seq(Byte), NEW a \in 1 .. Len(s) + 1, NEW b \in a - 1 .. Len(s),
           NEW k \in 0 .. b - a + 1
    PROVE  SubSeq(SubSeq(s, a, b), 1, k) = SubSeq(s, a, a + k - 1)
  <1> DEFINE u == SubSeq(s, a, b)
             x == SubSeq(u, 1, k)
             y == SubSeq(s, a, a + k - 1)
  <1>0. Len(s) \in Nat
    BY LenProperties
  <1>1. u \in Seq(Byte) /\ Len(u) = b - a + 1 /\ \A i \in 1 .. b - a + 1 : u[i] = s[a + i - 1]
    BY Slice
  <1>2. a + k - 1 \in a - 1 .. Len(s)
    BY <1>0
  <1>3. y \in Seq(Byte) /\ Len(y) = k /\ \A i \in 1 .. k : y[i] = s[a + i - 1]
    <2>1. (a + k - 1) - a + 1 = k
      BY <1>0
    <2> QED
      BY <1>2, <2>1, Slice
  <1> HIDE DEF u
  <1>4. x \in Seq(Byte) /\ Len(x) = k /\ \A i \in 1 .. k : x[i] = u[i]
    <2>1. 1 \in 1 .. Len(u) + 1 /\ k \in 1 - 1 .. Len(u) /\ k - 1 + 1 = k /\ \A i \in 1 .. k : 1 + i - 1 = i
      BY <1>0, <1>1
    <2> QED
      BY <1>1, <2>1, Slice
  <1>5. \A i \in 1 .. k : x[i] = y[i]
    BY <1>0, <1>1, <1>3, <1>4
  <1> HIDE DEF x, y
  <1>6. x = y
    BY <1>3, <1>4, <1>5, SeqEqual
  <1> QED
    BY <1>6 DEF x, y, u

\* Typing more leaves the slices of what was typed.
LEMMA SliceOfAppend ==
    ASSUME NEW s \in Seq(Byte), NEW e \in Byte, NEW b \in 0 .. Len(s)
    PROVE  SubSeq(Append(s, e), 1, b) = SubSeq(s, 1, b)
  <1> DEFINE t == Append(s, e)
             x == SubSeq(t, 1, b)
             y == SubSeq(s, 1, b)
  <1>0. Len(s) \in Nat
    BY LenProperties
  <1>1. t \in Seq(Byte) /\ Len(t) = Len(s) + 1 /\ \A i \in 1 .. Len(s) : t[i] = s[i]
    BY AppendProperties
  <1> HIDE DEF t
  <1>2. 1 \in 1 .. Len(s) + 1 /\ 1 \in 1 .. Len(t) + 1 /\ b \in 1 - 1 .. Len(s) /\ b \in 1 - 1 .. Len(t)
        /\ b - 1 + 1 = b /\ \A i \in 1 .. b : 1 + i - 1 = i
    BY <1>0, <1>1
  <1>3. x \in Seq(Byte) /\ Len(x) = b /\ \A i \in 1 .. b : x[i] = t[i]
    BY <1>1, <1>2, Slice
  <1>4. y \in Seq(Byte) /\ Len(y) = b /\ \A i \in 1 .. b : y[i] = s[i]
    BY <1>2, Slice
  <1>5. \A i \in 1 .. b : x[i] = y[i]
    BY <1>0, <1>1, <1>3, <1>4
  <1> HIDE DEF x, y
  <1>6. x = y
    BY <1>3, <1>4, <1>5, SeqEqual
  <1> QED
    BY <1>6 DEF x, y, t

-----------------------------------------------------------------------------
\* The loop over one batch, in closed form: it stops at the end, where the
\* signal cuts it, at a Ctrl-] that ends the batch or begins Ctrl-] x.
StopsAt(buf, raw, cut, j) ==
    \/ j = Len(buf) + 1
    \/ j >= cut
    \/ raw = 1 /\ buf[j] = Esc /\ (j = Len(buf) \/ buf[j + 1] = Quit)

\* j is where the loop that is at position i stops.
IsStop(buf, raw, cut, i, j) ==
    /\ j \in i .. Len(buf) + 1
    /\ StopsAt(buf, raw, cut, j)
    /\ \A k \in i .. j - 1 : ~StopsAt(buf, raw, cut, k)

\* What it has then done since it was at i.
AtStop(buf, cut, i, j) ==
    Outcome(SubSeq(buf, i, j - 1),
            IF j = Len(buf) /\ j < cut THEN 1 ELSE 0,
            IF j <= Len(buf) /\ (j >= cut \/ j < Len(buf)) THEN 1 ELSE 0)

\* One iteration of the loop of Scan.
LoopStep(buf, raw, cut, f, i) ==
    IF i > Len(buf) THEN Outcome(<<>>, 0, 0)
    ELSE IF i >= cut THEN Outcome(<<>>, 0, 1)
    ELSE IF raw = 1 /\ buf[i] = Esc
         THEN IF i = Len(buf) THEN Outcome(<<>>, 1, 0)
              ELSE IF buf[i + 1] = Quit THEN Outcome(<<>>, 0, 1)
              ELSE [f[i + 1] EXCEPT !.out = <<Esc>> \o @]
         ELSE [f[i + 1] EXCEPT !.out = <<buf[i]>> \o @]

IsLoopOver(buf, raw, cut, f) ==
    f = [i \in 1 .. Len(buf) + 1 |-> LoopStep(buf, raw, cut, f, i)]

\* From every position the loop stops somewhere, ...
LEMMA StopExists ==
    ASSUME NEW buf \in Seq(Byte), NEW raw, NEW cut \in Int, NEW i \in 1 .. Len(buf) + 1
    PROVE  \E j \in i .. Len(buf) + 1 : IsStop(buf, raw, cut, i, j)
  <1>0. Len(buf) \in Nat
    BY LenProperties
  <1> DEFINE T == {j \in i .. Len(buf) + 1 : StopsAt(buf, raw, cut, j)}
  <1>1. Len(buf) + 1 \in T /\ T \in SUBSET Nat
    BY <1>0 DEF StopsAt
  <1>2. PICK j \in T : \A k \in T : j <= k
    BY <1>1, LeastNat
  <1>3. j \in i .. Len(buf) + 1 /\ StopsAt(buf, raw, cut, j)
    OBVIOUS
  <1>4. ASSUME NEW k \in i .. j - 1 PROVE ~StopsAt(buf, raw, cut, k)
    <2>1. k \in i .. Len(buf) + 1 /\ ~(j <= k)
      BY <1>0, <1>3
    <2> QED
      BY <1>2, <2>1
  <1> QED
    BY <1>3, <1>4 DEF IsStop

\* ... at one place only, ...
LEMMA StopUnique ==
    ASSUME NEW buf \in Seq(Byte), NEW raw, NEW cut \in Int, NEW i \in 1 .. Len(buf) + 1,
           NEW j, NEW k, IsStop(buf, raw, cut, i, j), IsStop(buf, raw, cut, i, k)
    PROVE  j = k
  <1>0. Len(buf) \in Nat /\ j \in i .. Len(buf) + 1 /\ k \in i .. Len(buf) + 1
    BY LenProperties DEF IsStop
  <1>1. ~(j < k)
    <2> SUFFICES ASSUME j < k PROVE FALSE
      OBVIOUS
    <2>1. j \in i .. k - 1
      BY <1>0
    <2> QED
      BY <2>1 DEF IsStop
  <1>2. ~(k < j)
    <2> SUFFICES ASSUME k < j PROVE FALSE
      OBVIOUS
    <2>1. k \in i .. j - 1
      BY <1>0
    <2> QED
      BY <2>1 DEF IsStop
  <1> QED
    BY <1>0, <1>1, <1>2

\* ... which is the same from the next position if it is not this one.
LEMMA StopStep ==
    ASSUME NEW buf \in Seq(Byte), NEW raw, NEW cut \in Int, NEW i \in 1 .. Len(buf) + 1,
           NEW j, IsStop(buf, raw, cut, i, j)
    PROVE  IF StopsAt(buf, raw, cut, i)
           THEN j = i
           ELSE i <= Len(buf) /\ j > i /\ IsStop(buf, raw, cut, i + 1, j)
  <1>0. Len(buf) \in Nat /\ j \in i .. Len(buf) + 1
    BY LenProperties DEF IsStop
  <1>1. CASE StopsAt(buf, raw, cut, i)
    <2>1. i \in i .. j - 1 => FALSE
      BY <1>1 DEF IsStop
    <2> QED
      BY <1>0, <1>1, <2>1
  <1>2. CASE ~StopsAt(buf, raw, cut, i)
    <2>1. i # j /\ i # Len(buf) + 1
      BY <1>2 DEF IsStop, StopsAt
    <2>2. i <= Len(buf) /\ j > i /\ j \in i + 1 .. Len(buf) + 1
      BY <1>0, <2>1
    <2>3. \A k \in i + 1 .. j - 1 : k \in i .. j - 1
      BY <1>0
    <2> QED
      BY <1>2, <2>2, <2>3 DEF IsStop
  <1> QED
    BY <1>1, <1>2

\* Passing on a byte more.
LEMMA OutcomeExcept ==
    ASSUME NEW a, NEW h, NEW q, NEW b
    PROVE  [Outcome(a, h, q) EXCEPT !.out = b \o @] = Outcome(b \o a, h, q)
  <1> DEFINE c == b \o a
  <1>1. Outcome(a, h, q).out = a
    BY DEF Outcome
  <1>2. [Outcome(a, h, q) EXCEPT !.out = b \o @]
            = [Outcome(a, h, q) EXCEPT !.out = b \o Outcome(a, h, q).out]
    OBVIOUS
  <1>3. [Outcome(a, h, q) EXCEPT !.out = b \o @] = [Outcome(a, h, q) EXCEPT !.out = c]
    BY <1>1, <1>2
  <1> HIDE DEF c
  <1>4. [Outcome(a, h, q) EXCEPT !.out = c] = Outcome(c, h, q)
    BY DEF Outcome
  <1> QED
    BY <1>3, <1>4 DEF c

\* An iteration adds its byte to what the rest of the loop passes on.
LEMMA LoopClosed ==
    ASSUME NEW buf \in Seq(Byte), NEW raw, NEW cut \in Int, NEW i \in 1 .. Len(buf) + 1,
           NEW j, IsStop(buf, raw, cut, i, j), NEW f,
           i # j => f[i + 1] = AtStop(buf, cut, i + 1, j)
    PROVE  LoopStep(buf, raw, cut, f, i) = AtStop(buf, cut, i, j)
  <1>0. Len(buf) \in Nat /\ j \in i .. Len(buf) + 1
    BY LenProperties DEF IsStop
  <1>1. CASE StopsAt(buf, raw, cut, i)
    <2>1. j = i
      BY <1>1, StopStep
    <2>2. SubSeq(buf, i, j - 1) = <<>>
      <3>1. i \in Int /\ j - 1 \in Int /\ j - 1 < i
        BY <1>0, <2>1
      <3> QED
        BY <3>1, SubSeqEmpty
    <2>3. AtStop(buf, cut, i, j) = Outcome(<<>>, IF i = Len(buf) /\ i < cut THEN 1 ELSE 0,
              IF i <= Len(buf) /\ (i >= cut \/ i < Len(buf)) THEN 1 ELSE 0)
      BY <2>1, <2>2 DEF AtStop
    <2>4. CASE i > Len(buf)
      BY <1>0, <2>3, <2>4 DEF LoopStep
    <2>5. CASE i <= Len(buf) /\ i >= cut
      BY <1>0, <2>3, <2>5 DEF LoopStep
    <2>6. CASE i <= Len(buf) /\ i < cut
      <3>1. raw = 1 /\ buf[i] = Esc /\ (i = Len(buf) \/ buf[i + 1] = Quit)
        BY <1>0, <1>1, <2>6 DEF StopsAt
      <3> QED
        BY <1>0, <2>3, <2>6, <3>1 DEF LoopStep
    <2> QED
      BY <1>0, <2>4, <2>5, <2>6
  <1>2. CASE ~StopsAt(buf, raw, cut, i)
    <2>1. i <= Len(buf) /\ j > i /\ i # j
      BY <1>0, <1>2, StopStep
    <2>2. ~(i > Len(buf)) /\ ~(i >= cut)
          /\ ~(raw = 1 /\ buf[i] = Esc /\ (i = Len(buf) \/ buf[i + 1] = Quit))
      BY <1>0, <1>2, <2>1 DEF StopsAt
    <2>3. LoopStep(buf, raw, cut, f, i) = [f[i + 1] EXCEPT !.out = <<buf[i]>> \o @]
      BY <2>2 DEF LoopStep
    <2>4. <<buf[i]>> \o SubSeq(buf, i + 1, j - 1) = SubSeq(buf, i, j - 1)
      <3>1. i \in 1 .. Len(buf) /\ j - 1 \in i .. Len(buf)
        BY <1>0, <2>1
      <3> QED
        BY <3>1, SubSeqRecursiveFirst
    <2>5. f[i + 1] = AtStop(buf, cut, i + 1, j)
      BY <2>1
    <2>6. PICK h, q : /\ AtStop(buf, cut, i + 1, j) = Outcome(SubSeq(buf, i + 1, j - 1), h, q)
                      /\ AtStop(buf, cut, i, j) = Outcome(SubSeq(buf, i, j - 1), h, q)
      BY DEF AtStop
    <2>7. [f[i + 1] EXCEPT !.out = <<buf[i]>> \o @]
              = Outcome(<<buf[i]>> \o SubSeq(buf, i + 1, j - 1), h, q)
      <3> DEFINE a == SubSeq(buf, i + 1, j - 1)
                 b == <<buf[i]>>
      <3>1. f[i + 1] = Outcome(a, h, q)
        BY <2>5, <2>6
      <3> HIDE DEF a, b
      <3>2. [f[i + 1] EXCEPT !.out = b \o @] = [Outcome(a, h, q) EXCEPT !.out = b \o @]
        BY <3>1
      <3>3. [f[i + 1] EXCEPT !.out = b \o @] = Outcome(b \o a, h, q)
        <4>1. [Outcome(a, h, q) EXCEPT !.out = b \o @] = Outcome(b \o a, h, q)
          BY ONLY OutcomeExcept
        <4> QED
          BY ONLY <3>2, <4>1
      <3> QED
        BY <3>3 DEF a, b
    <2> QED
      BY <2>3, <2>4, <2>6, <2>7
  <1> QED
    BY <1>1, <1>2

\* So the recursive definition has a solution, ...
LEMMA LoopExists ==
    ASSUME NEW buf \in Seq(Byte), NEW raw, NEW cut \in Int
    PROVE  \E f : IsLoopOver(buf, raw, cut, f)
  <1> DEFINE g == [i \in 1 .. Len(buf) + 1 |->
                     AtStop(buf, cut, i, CHOOSE j : IsStop(buf, raw, cut, i, j))]
  <1>0. Len(buf) \in Nat
    BY LenProperties
  <1>1. ASSUME NEW i \in 1 .. Len(buf) + 1, NEW j, IsStop(buf, raw, cut, i, j)
        PROVE  g[i] = AtStop(buf, cut, i, j)
    <2> DEFINE c == CHOOSE k : IsStop(buf, raw, cut, i, k)
    <2>1. IsStop(buf, raw, cut, i, c)
      BY <1>1
    <2> HIDE DEF c
    <2>2. c = j
      BY <1>1, <2>1, StopUnique
    <2> QED
      BY <2>2 DEF c
  <1> HIDE DEF g
  <1>2. ASSUME NEW i \in 1 .. Len(buf) + 1
        PROVE  g[i] = LoopStep(buf, raw, cut, g, i)
    <2>1. PICK j : IsStop(buf, raw, cut, i, j)
      BY StopExists
    <2>2. ASSUME i # j PROVE g[i + 1] = AtStop(buf, cut, i + 1, j)
      <3>1. i <= Len(buf) /\ IsStop(buf, raw, cut, i + 1, j)
        BY <1>0, <2>1, <2>2, StopStep
      <3>2. i + 1 \in 1 .. Len(buf) + 1
        BY <1>0, <3>1
      <3> QED
        BY <1>1, <3>1, <3>2
    <2>3. LoopStep(buf, raw, cut, g, i) = AtStop(buf, cut, i, j)
      BY <2>1, <2>2, LoopClosed
    <2> QED
      BY <1>1, <2>1, <2>3
  <1>3. g = [i \in 1 .. Len(buf) + 1 |-> LoopStep(buf, raw, cut, g, i)]
    BY <1>2 DEF g
  <1> QED
    BY <1>3 DEF IsLoopOver

\* ... and every solution is the closed form.
LEMMA LoopIs ==
    ASSUME NEW buf \in Seq(Byte), NEW raw, NEW cut \in Int,
           NEW f, IsLoopOver(buf, raw, cut, f)
    PROVE  \A i \in 1 .. Len(buf) + 1 : \A j :
              IsStop(buf, raw, cut, i, j) => f[i] = AtStop(buf, cut, i, j)
  <1>0. Len(buf) \in Nat
    BY LenProperties
  <1> DEFINE Good(i) == \A j : IsStop(buf, raw, cut, i, j) => f[i] = AtStop(buf, cut, i, j)
             T == {n \in 0 .. Len(buf) : ~Good(Len(buf) + 1 - n)}
  <1>1. SUFFICES ASSUME T # {} PROVE FALSE
    <2>1. ASSUME NEW i \in 1 .. Len(buf) + 1, T = {} PROVE Good(i)
      <3>1. Len(buf) + 1 - i \in 0 .. Len(buf) /\ Len(buf) + 1 - (Len(buf) + 1 - i) = i
        BY <1>0
      <3> HIDE DEF Good
      <3>2. Good(Len(buf) + 1 - (Len(buf) + 1 - i))
        BY <2>1, <3>1
      <3> QED
        BY <3>1, <3>2
    <2> QED
      BY <2>1
  <1>2. PICK n \in T : \A k \in T : n <= k
    <2>1. T \in SUBSET Nat
      BY <1>0
    <2> QED
      BY <1>1, <2>1, LeastNat
  <1> DEFINE i == Len(buf) + 1 - n
  <1>3. n \in 0 .. Len(buf) /\ ~Good(i)
    OBVIOUS
  <1>4. i \in 1 .. Len(buf) + 1
    BY <1>0, <1>3
  <1>5. f[i] = LoopStep(buf, raw, cut, f, i)
    BY <1>4 DEF IsLoopOver
  <1>6. PICK j : IsStop(buf, raw, cut, i, j) /\ f[i] # AtStop(buf, cut, i, j)
    BY <1>3
  <1>7. ASSUME i # j PROVE f[i + 1] = AtStop(buf, cut, i + 1, j)
    <2> HIDE DEF i
    <2>1. i <= Len(buf) /\ IsStop(buf, raw, cut, i + 1, j)
      BY <1>0, <1>4, <1>6, <1>7, StopStep
    <2>2. n - 1 \in 0 .. Len(buf) /\ ~(n <= n - 1) /\ Len(buf) + 1 - (n - 1) = i + 1
      BY <1>0, <1>3, <2>1 DEF i
    <2> HIDE DEF Good
    <2>3. Good(Len(buf) + 1 - (n - 1))
      BY <1>2, <2>2
    <2>4. Good(i + 1)
      BY <2>2, <2>3
    <2> QED
      BY <2>1, <2>4 DEF Good
  <1> HIDE DEF i
  <1>8. LoopStep(buf, raw, cut, f, i) = AtStop(buf, cut, i, j)
    BY <1>4, <1>6, <1>7, LoopClosed
  <1> QED
    BY <1>5, <1>6, <1>8

\* What a scan returns.
LEMMA ScanIs ==
    ASSUME NEW buf \in Seq(Byte), NEW raw, NEW cut \in Int
    PROVE  \E j \in 1 .. Len(buf) + 1 : IsStop(buf, raw, cut, 1, j)
                                        /\ Scan(buf, raw, cut) = AtStop(buf, cut, 1, j)
  <1>0. Len(buf) \in Nat /\ 1 \in 1 .. Len(buf) + 1
    BY LenProperties
  <1>1. \E f : IsLoopOver(buf, raw, cut, f)
    BY LoopExists
  <1>2. PICK f : IsLoopOver(buf, raw, cut, f) /\ Scan(buf, raw, cut) = f[1]
    BY <1>1 DEF Scan, IsLoopOver, LoopStep
  <1>3. PICK j \in 1 .. Len(buf) + 1 : IsStop(buf, raw, cut, 1, j)
    BY <1>0, StopExists
  <1>4. f[1] = AtStop(buf, cut, 1, j)
    BY <1>0, <1>2, <1>3, LoopIs
  <1> QED
    BY <1>2, <1>3, <1>4

-----------------------------------------------------------------------------
\* Passing on the next slice.
LEMMA Advance ==
    ASSUME NEW t \in Seq(Byte), NEW a \in 0 .. Len(t), NEW b \in a .. Len(t)
    PROVE  /\ SubSeq(t, 1, a) \o SubSeq(t, a + 1, b) = SubSeq(t, 1, b)
           /\ SubSeq(t, 1, b) \in Seq(Byte) /\ Len(SubSeq(t, 1, b)) = b
  <1>0. Len(t) \in Nat
    BY LenProperties
  <1>1. 1 \in 1 .. Len(t) + 1 /\ a \in 1 - 1 .. Len(t) /\ b \in 1 - 1 .. Len(t) /\ b - 1 + 1 = b
    BY <1>0
  <1>2. SubSeq(t, 1, a) \o SubSeq(t, a + 1, b) = SubSeq(t, 1, b)
    BY <1>1, ConcatAdjacentSubSeq
  <1> QED
    BY <1>1, <1>2, Slice

\* What one read finds: the batch, the signal's place in it, and what becomes
\* of it.
LEMMA BatchRead ==
    ASSUME CInv, ReadBatch
    PROVE  \E n \in Nat \ {0}, cut \in Nat \ {0}, buf \in Seq(Byte) : \E r :
             /\ consumed + n <= Len(typed)
             /\ buf = SubSeq(typed, consumed + 1, consumed + n)
             /\ Len(buf) = n /\ \A i \in 1 .. n : buf[i] = typed[consumed + i]
             /\ r = Batch(buf, uart_esc_held, uart_terminal_raw, cut)
             /\ cut <= n + 1
             /\ cut <= n => uart_terminal_raw = 1 /\ signalled = 0
             /\ signalled' = IF cut <= n THEN 1 ELSE signalled
             /\ received' = received \o r.out
             /\ uart_esc_held' = r.held
             /\ uart_quit_requested' = IF cut <= n THEN 1 ELSE r.quit
             /\ consumed' = consumed + n
  <1>0. typed \in Seq(Byte) /\ Len(typed) \in Nat /\ consumed \in 0 .. Len(typed)
        /\ BatchSize \in Nat \ {0}
    BY LenProperties, ConsoleAssumption DEF CInv, ConsoleTypeOK
  <1>n. PICK n \in 1 .. BatchSize : \E cut \in 1 .. n + 1 :
          LET r == Batch(SubSeq(typed, consumed + 1, consumed + n),
                         uart_esc_held, uart_terminal_raw, cut)
          IN  /\ n <= Available
              /\ cut <= n => uart_terminal_raw = 1 /\ signalled = 0
              /\ signalled' = IF cut <= n THEN 1 ELSE signalled
              /\ received' = received \o r.out
              /\ uart_esc_held' = r.held
              /\ uart_quit_requested' = IF cut <= n THEN 1 ELSE r.quit
              /\ consumed' = consumed + n
    BY DEF ReadBatch
  <1>1. PICK cut \in 1 .. n + 1 :
          LET r == Batch(SubSeq(typed, consumed + 1, consumed + n),
                         uart_esc_held, uart_terminal_raw, cut)
          IN  /\ n <= Available
              /\ cut <= n => uart_terminal_raw = 1 /\ signalled = 0
              /\ signalled' = IF cut <= n THEN 1 ELSE signalled
              /\ received' = received \o r.out
              /\ uart_esc_held' = r.held
              /\ uart_quit_requested' = IF cut <= n THEN 1 ELSE r.quit
              /\ consumed' = consumed + n
    BY <1>n
  <1> DEFINE buf == SubSeq(typed, consumed + 1, consumed + n)
             r == Batch(buf, uart_esc_held, uart_terminal_raw, cut)
  <1>2. n \in Nat \ {0} /\ cut \in Nat \ {0} /\ cut <= n + 1 /\ consumed + n <= Len(typed)
    BY <1>0, <1>1 DEF Available
  <1>3. buf \in Seq(Byte) /\ Len(buf) = n /\ \A i \in 1 .. n : buf[i] = typed[consumed + i]
    <2>1. consumed + 1 \in 1 .. Len(typed) + 1 /\ consumed + n \in (consumed + 1) - 1 .. Len(typed)
          /\ (consumed + n) - (consumed + 1) + 1 = n
          /\ \A i \in 1 .. n : (consumed + 1) + i - 1 = consumed + i
      BY <1>0, <1>2
    <2>2. \A i \in 1 .. n : buf[i] = typed[(consumed + 1) + i - 1]
      BY <1>0, <2>1, Slice
    <2> QED
      BY <1>0, <2>1, <2>2, Slice
  <1>4. /\ cut <= n => uart_terminal_raw = 1 /\ signalled = 0
        /\ signalled' = IF cut <= n THEN 1 ELSE signalled
        /\ received' = received \o r.out
        /\ uart_esc_held' = r.held
        /\ uart_quit_requested' = IF cut <= n THEN 1 ELSE r.quit
        /\ consumed' = consumed + n
    BY <1>1
  <1> QED
    BY <1>2, <1>3, <1>4

\* One read keeps the invariant.
LEMMA ReadBatchKeeps ==
    ASSUME CInv, ReadBatch
    PROVE  CInv'
  <1>p. PICK n \in Nat \ {0}, cut \in Nat \ {0}, buf \in Seq(Byte) : \E r :
             /\ consumed + n <= Len(typed)
             /\ buf = SubSeq(typed, consumed + 1, consumed + n)
             /\ Len(buf) = n /\ \A i \in 1 .. n : buf[i] = typed[consumed + i]
             /\ r = Batch(buf, uart_esc_held, uart_terminal_raw, cut)
             /\ cut <= n + 1
             /\ cut <= n => uart_terminal_raw = 1 /\ signalled = 0
             /\ signalled' = IF cut <= n THEN 1 ELSE signalled
             /\ received' = received \o r.out
             /\ uart_esc_held' = r.held
             /\ uart_quit_requested' = IF cut <= n THEN 1 ELSE r.quit
             /\ consumed' = consumed + n
    BY BatchRead
  <1>0. PICK r :
             /\ consumed + n <= Len(typed)
             /\ buf = SubSeq(typed, consumed + 1, consumed + n)
             /\ Len(buf) = n /\ \A i \in 1 .. n : buf[i] = typed[consumed + i]
             /\ r = Batch(buf, uart_esc_held, uart_terminal_raw, cut)
             /\ cut <= n + 1
             /\ cut <= n => uart_terminal_raw = 1 /\ signalled = 0
             /\ signalled' = IF cut <= n THEN 1 ELSE signalled
             /\ received' = received \o r.out
             /\ uart_esc_held' = r.held
             /\ uart_quit_requested' = IF cut <= n THEN 1 ELSE r.quit
             /\ consumed' = consumed + n
    BY <1>p
  <1>u. /\ typed' = typed /\ uart_terminal_raw' = uart_terminal_raw
        /\ uart_saved_termios' = uart_saved_termios /\ stopped' = stopped
        /\ stopped = 0 /\ uart_quit_requested = 0
    BY DEF ReadBatch, Polling, hostVars, ttyVars
  <1> DEFINE t == typed
             c == consumed
             p == Len(received)
             h == uart_esc_held
  <1>t. /\ t \in Seq(Byte) /\ Len(t) \in Nat /\ c \in 0 .. Len(t) /\ p \in Nat /\ p <= c
        /\ received = SubSeq(t, 1, p)
        /\ h \in {0, 1} /\ signalled \in {0, 1} /\ uart_saved_termios \in {0, 1}
        /\ uart_terminal_raw = uart_saved_termios
    BY <1>u, LenProperties DEF CInv, ConsoleTypeOK
  <1>s. signalled = 0 /\ p = c - h
    <2>1. CASE uart_saved_termios = 0
      BY <1>t, <1>u, <2>1 DEF CInv
    <2>2. CASE uart_saved_termios = 1
      BY <1>t, <1>u, <2>2 DEF CInv
    <2> QED
      BY <1>t, <2>1, <2>2
  <1>z. n \in Nat \ {0} /\ cut \in Nat \ {0} /\ cut \in Int /\ cut <= n + 1 /\ Len(buf) = n
    BY <1>0
  <1>y. c \in Nat /\ p \in Nat /\ p <= c /\ c + n <= Len(t) /\ Len(t) \in Nat
    BY <1>0, <1>t
  <1>j. PICK j \in 1 .. n + 1 : /\ IsStop(buf, uart_terminal_raw, cut, 1, j)
                                /\ Scan(buf, uart_terminal_raw, cut) = AtStop(buf, cut, 1, j)
    <2>1. \E j \in 1 .. Len(buf) + 1 : /\ IsStop(buf, uart_terminal_raw, cut, 1, j)
                                       /\ Scan(buf, uart_terminal_raw, cut) = AtStop(buf, cut, 1, j)
      BY <1>z, ScanIs
    <2> QED
      BY <1>z, <2>1
  \* What is passed on, whether the Ctrl-] held before leads it or not.
  <1>o. SubSeq(buf, 1, j - 1) = SubSeq(t, c + 1, c + j - 1)
    <2>1. c + 1 \in 1 .. Len(t) + 1 /\ c + n \in (c + 1) - 1 .. Len(t)
          /\ j - 1 \in 0 .. (c + n) - (c + 1) + 1 /\ (c + 1) + (j - 1) - 1 = c + j - 1
      BY <1>0, <1>t
    <2>2. SubSeq(SubSeq(t, c + 1, c + n), 1, j - 1) = SubSeq(t, c + 1, (c + 1) + (j - 1) - 1)
      BY <1>t, <2>1, SliceOfSlice
    <2> QED
      BY <1>0, <2>1, <2>2
  <1> HIDE DEF t, c, p, h
  <1>k. ASSUME NEW q \in p .. c + n, r.out = SubSeq(t, p + 1, q)
        PROVE  /\ received' \in Seq(Byte) /\ Len(received') = q
               /\ received' = SubSeq(t, 1, q)
    <2>1. p \in 0 .. Len(t) /\ q \in p .. Len(t)
      BY <1>0, <1>t, <1>k DEF t, c
    <2>2. received' = SubSeq(t, 1, p) \o SubSeq(t, p + 1, q)
      BY <1>0, <1>t, <1>k
    <2>3. t \in Seq(Byte)
      BY <1>t
    <2> QED
      BY <2>1, <2>2, <2>3, Advance, SMTT(30)
  <1>m. consumed' \in 0 .. Len(t) /\ consumed' = c + n
    BY <1>0, <1>t DEF t, c
  <1>1. CASE uart_saved_termios = 0
    <2>1. h = 0 /\ cut = n + 1 /\ p = c /\ uart_terminal_raw = 0
      BY <1>0, <1>1, <1>s, <1>t, <1>u DEF CInv, h, c
    <2>2. j = n + 1
      BY <1>0, <1>j, <2>1 DEF IsStop, StopsAt
    <2>3. r = AtStop(buf, cut, 1, n + 1)
      BY <1>0, <1>j, <2>1, <2>2 DEF Batch, h
    <2>4. r.out = SubSeq(buf, 1, n) /\ r.held = 0 /\ r.quit = 0
      BY <1>z, <2>3 DEF AtStop, Outcome
    <2>5. r.out = SubSeq(t, p + 1, c + n) /\ c + n \in p .. c + n
      <3>1. j - 1 = n /\ c + j - 1 = c + n /\ c + n \in p .. c + n
        BY <1>z, <1>y, <2>2
      <3> QED
        BY <1>o, <2>1, <2>4, <3>1
    <2>6. received' \in Seq(Byte) /\ Len(received') = c + n /\ received' = SubSeq(t, 1, c + n)
      BY <1>k, <2>5
    <2>7. signalled' = 0 /\ uart_esc_held' = 0 /\ uart_quit_requested' = 0
      BY <1>0, <1>s, <2>1, <2>4
    <2>8. ConsoleTypeOK'
      BY <1>m, <1>t, <1>u, <2>6, <2>7 DEF ConsoleTypeOK, CInv, t
    <2> QED
      BY <1>1, <1>m, <1>t, <1>u, <2>6, <2>7, <2>8 DEF CInv, t
  <1>2. CASE uart_saved_termios = 1
    <2>1. /\ uart_terminal_raw = 1
          /\ \A i \in 1 .. p : ~(i + 1 <= c /\ t[i] = Esc /\ t[i + 1] = Quit)
          /\ h = 1 <=> (c > 0 /\ t[c] = Esc)
      BY <1>2, <1>s, <1>t, <1>u DEF CInv, PairAt, t, c, p, h
    <2>b. \A i \in 1 .. n : buf[i] = t[c + i]
      BY <1>0 DEF t, c
    <2>2. CASE h = 1 /\ buf[1] = Quit
      <3>1. r = Outcome(<<>>, 0, 1)
        BY <1>0, <2>2 DEF Batch, h
      <3>2. r.out = SubSeq(t, p + 1, p) /\ r.held = 0 /\ r.quit = 1
        <4>1. r.out = <<>> /\ r.held = 0 /\ r.quit = 1
          BY <3>1 DEF Outcome
        <4>2. SubSeq(t, p + 1, p) = <<>>
          BY <1>t, SubSeqEmpty
        <4> QED
          BY <4>1, <4>2
      <3>3. p \in p .. c + n
        BY <1>y, <1>z
      <3>4. received' \in Seq(Byte) /\ Len(received') = p /\ received' = SubSeq(t, 1, p)
        BY <1>k, <3>2, <3>3
      <3>5. uart_esc_held' = 0 /\ uart_quit_requested' = 1 /\ signalled' \in {0, 1}
        BY <1>0, <1>s, <3>2
      <3>6. p + 1 = c /\ t[p + 1] = Esc /\ t[(p + 1) + 1] = Quit /\ (p + 1) + 1 <= c + n
        <4>1. p + 1 = c /\ t[c] = Esc
          BY <1>s, <1>t, <2>1, <2>2
        <4>2. buf[1] = t[c + 1]
          BY <1>0, <2>b
        <4>3. (p + 1) + 1 = c + 1 /\ (p + 1) + 1 <= c + n
          BY <1>z, <1>y, <4>1
        <4> QED
          BY <2>2, <4>1, <4>2, <4>3
      <3>7. \A i \in 1 .. p : ~(i + 1 <= c + n /\ t[i] = Esc /\ t[i + 1] = Quit)
        BY <1>t, <2>1, <3>6
      <3>8. ConsoleTypeOK'
        BY <1>m, <1>t, <1>u, <3>4, <3>5 DEF ConsoleTypeOK, CInv, t
      <3> QED
        BY <1>2, <1>m, <1>t, <1>u, <3>3, <3>4, <3>5, <3>6, <3>7, <3>8 DEF CInv, PairAt, t
    <2>3. CASE ~(h = 1 /\ buf[1] = Quit)
      <3> DEFINE q == c + j - 1
                 a == AtStop(buf, cut, 1, j)
      <3>1. a.out = SubSeq(t, c + 1, q)
            /\ a.held = (IF j = n /\ j < cut THEN 1 ELSE 0)
            /\ a.quit = (IF j <= n /\ (j >= cut \/ j < n) THEN 1 ELSE 0)
        BY <1>0, <1>o DEF AtStop, Outcome
      <3>2. r.out = SubSeq(t, p + 1, q) /\ r.held = a.held /\ r.quit = a.quit
        <4>1. CASE h = 1
          <5> HIDE DEF a
          <5>1. r = [a EXCEPT !.out = <<Esc>> \o @]
            BY <1>0, <1>j, <2>3, <4>1 DEF Batch, h, a
          <5>2. PICK u, v : a = Outcome(a.out, u, v)
            BY DEF a, AtStop, Outcome
          <5>3. [Outcome(a.out, u, v) EXCEPT !.out = <<Esc>> \o @] = Outcome(<<Esc>> \o a.out, u, v)
            BY ONLY OutcomeExcept
          <5>4. r = Outcome(<<Esc>> \o a.out, u, v)
            BY ONLY <5>1, <5>2, <5>3
          <5>5. <<Esc>> \o SubSeq(t, c + 1, q) = SubSeq(t, c, q)
            <6>1. t[c] = Esc /\ c \in 1 .. Len(t) /\ q \in c .. Len(t)
              BY <1>0, <1>t, <2>1, <4>1 DEF t, c
            <6> QED
              BY <1>t, <6>1, SubSeqRecursiveFirst
          <5>6. p + 1 = c
            BY <1>s, <1>t, <4>1
          <5>7. r.out = <<Esc>> \o a.out /\ r.held = u /\ r.quit = v
            BY <5>4 DEF Outcome
          <5>8. a.held = u /\ a.quit = v
            BY <5>2 DEF Outcome
          <5> QED
            BY <3>1, <5>5, <5>6, <5>7, <5>8
        <4>2. CASE h # 1
          <5>1. r = a
            BY <1>0, <1>j, <4>2 DEF Batch, h
          <5>2. p + 1 = c + 1
            BY <1>s, <1>t, <4>2
          <5> QED
            BY <3>1, <5>1, <5>2
        <4> QED
          BY <4>1, <4>2
      <3>3. q \in p .. c + n
        BY <1>y, <1>z, <1>s
      <3> HIDE DEF q, a
      <3>4. received' \in Seq(Byte) /\ Len(received') = q /\ received' = SubSeq(t, 1, q)
        BY <1>k, <3>2, <3>3
      \* The loop passed over no escape.
      <3>5. ASSUME NEW k \in 1 .. j - 1
            PROVE  k < cut /\ (buf[k] = Esc => k < n /\ buf[k + 1] # Quit)
        <4>1. k \in 1 .. n /\ ~StopsAt(buf, 1, cut, k)
          BY <1>z, <1>j, <2>1 DEF IsStop
        <4>2. ~(k >= cut) /\ ~(buf[k] = Esc /\ (k = n \/ buf[k + 1] = Quit))
          BY <1>z, <4>1 DEF StopsAt
        <4> QED
          BY <1>z, <4>1, <4>2
      <3>6. ASSUME NEW i \in 1 .. q, i + 1 <= c + n, t[i] = Esc, t[i + 1] = Quit
            PROVE  FALSE
        <4>1. CASE i < c
          <5>1. i \in 1 .. p /\ i + 1 <= c
            BY <1>s, <1>t, <4>1
          <5> QED
            BY <2>1, <3>6, <5>1
        <4>2. CASE i = c
          <5>1. h = 1 /\ buf[1] = t[c + 1]
            BY <1>0, <1>t, <2>1, <2>b, <3>6, <4>2
          <5> QED
            BY <2>3, <3>6, <4>2, <5>1
        <4>3. CASE i > c
          <5>1. i - c \in 1 .. j - 1 /\ i - c \in 1 .. n /\ i - c + 1 \in 1 .. n
                /\ c + (i - c) = i /\ c + (i - c + 1) = i + 1
            BY <1>z, <1>y, <3>6, <4>3 DEF q
          <5>2. buf[i - c] = Esc /\ buf[i - c + 1] = Quit
            BY <2>b, <3>6, <5>1
          <5> QED
            BY <3>5, <5>1, <5>2
        <4> QED
          BY <1>t, <4>1, <4>2, <4>3
      <3>7. j <= n /\ j < cut => buf[j] = Esc /\ (j = n \/ buf[j + 1] = Quit)
        BY <1>z, <1>j, <2>1 DEF IsStop, StopsAt
      <3>8. j = n + 1 => cut = n + 1 /\ t[c + n] # Esc
        <4>1. ASSUME j = n + 1 PROVE n < cut /\ buf[n] # Esc
          BY <1>z, <3>5, <4>1
        <4>2. n \in 1 .. n /\ buf[n] = t[c + n]
          BY <2>b
        <4> QED
          BY <1>z, <4>1, <4>2
      <3>9. /\ signalled' = (IF cut <= n THEN 1 ELSE 0)
            /\ uart_esc_held' = (IF j = n /\ j < cut THEN 1 ELSE 0)
            /\ uart_quit_requested' = (IF cut <= n \/ (j <= n /\ (j >= cut \/ j < n)) THEN 1 ELSE 0)
        BY <1>0, <1>s, <3>1, <3>2
      <3>10. ConsoleTypeOK'
        BY <1>m, <1>t, <1>u, <3>4, <3>9 DEF ConsoleTypeOK, CInv, t
      <3>11. Len(received)' <= consumed' /\ received' = SubSeq(typed', 1, Len(received)')
        <4>1. Len(received)' = q /\ q <= consumed'
          BY <1>m, <1>y, <1>z, <3>3, <3>4
        <4> QED
          BY <1>u, <3>4, <4>1 DEF t
      <3>12. \A i \in 1 .. Len(received)' : ~PairAt(i)'
        BY <1>m, <1>u, <3>4, <3>6 DEF PairAt, t
      <3>13. ASSUME signalled' = 0, uart_quit_requested' = 1 PROVE PairAt(Len(received) + 1)'
        <4>1. j < n /\ j < cut
          BY <1>0, <3>9, <3>13
        <4>2. t[c + j] = Esc /\ t[c + j + 1] = Quit
          <5>1. buf[j] = Esc /\ buf[j + 1] = Quit /\ j \in 1 .. n /\ j + 1 \in 1 .. n
                /\ c + (j + 1) = c + j + 1
            BY <1>z, <1>y, <3>7, <4>1
          <5> QED
            BY <2>b, <5>1
        <4>3. Len(received') + 1 = c + j
          BY <1>t, <3>4 DEF q
        <4> QED
          <5>1. c + j + 1 <= consumed'
            BY <1>m, <1>y, <1>z, <4>1
          <5>2. (Len(received) + 1)' = c + j
            BY <4>3
          <5> QED
            BY <1>u, <4>2, <5>1, <5>2 DEF PairAt, t
      <3>14. ASSUME signalled' = 0, uart_quit_requested' = 0
             PROVE  /\ Len(received)' = consumed' - uart_esc_held'
                    /\ uart_esc_held' = 1 <=> (consumed' > 0 /\ typed'[consumed'] = Esc)
        <4>1. cut = n + 1 /\ (j = n \/ j = n + 1)
          BY <1>0, <3>9, <3>14
        <4>2. CASE j = n
          <5>1. uart_esc_held' = 1 /\ t[c + n] = Esc
            BY <1>0, <2>b, <3>7, <3>9, <4>1, <4>2, SMTT(30)
          <5>2. Len(received') = consumed' - uart_esc_held' /\ consumed' > 0
            BY <1>m, <1>y, <1>z, <3>4, <4>2, <5>1 DEF q
          <5> QED
            BY <1>m, <1>u, <5>1, <5>2 DEF t
        <4>3. CASE j = n + 1
          <5>1. uart_esc_held' = 0 /\ t[c + n] # Esc
            BY <1>0, <3>8, <3>9, <4>3
          <5>2. Len(received') = consumed' - uart_esc_held' /\ consumed' > 0
            BY <1>m, <1>y, <1>z, <3>4, <4>3, <5>1 DEF q
          <5> QED
            BY <1>m, <1>u, <5>1, <5>2 DEF t
        <4> QED
          BY <4>1, <4>2, <4>3
      <3>15. signalled' = 1 => uart_quit_requested' = 1
        BY <1>0, <3>9
      <3>16. uart_saved_termios' = 1 /\ uart_terminal_raw' = uart_saved_termios'
        BY <1>2, <1>t, <1>u
      <3> QED
        BY <3>10, <3>11, <3>12, <3>13, <3>14, <3>15, <3>16 DEF CInv
    <2> QED
      BY <2>2, <2>3
  <1> QED
    BY <1>1, <1>2, <1>t

\* The invariant holds at first ...
LEMMA InitCInv == ConsoleInit => CInv
  <1> SUFFICES ASSUME ConsoleInit PROVE CInv
    OBVIOUS
  <1>1. <<>> \in Seq(Byte) /\ Len(<<>>) = 0
    BY EmptySeq
  <1>2. SubSeq(<<>>, 1, 0) = <<>>
    BY SubSeqEmpty
  <1>3. ConsoleTypeOK
    BY <1>1 DEF ConsoleInit, ConsoleTypeOK
  <1>4. Len(received) = 0 /\ consumed = 0 /\ received = SubSeq(typed, 1, Len(received))
    BY <1>1, <1>2 DEF ConsoleInit
  <1>5. \A i \in 1 .. 0 : FALSE
    OBVIOUS
  <1> QED
    BY <1>3, <1>4, <1>5 DEF ConsoleInit, CInv

\* ... and every step preserves it.
LEMMA NextCInv == CInv /\ [ConsoleNext]_consoleVars => CInv'
  <1> SUFFICES ASSUME CInv, [ConsoleNext]_consoleVars PROVE CInv'
    OBVIOUS
  <1>t. ConsoleTypeOK /\ Len(typed) \in Nat /\ Len(received) \in Nat
    BY LenProperties DEF CInv, ConsoleTypeOK
  <1>1. CASE Type
    <2>1. PICK e \in Byte : typed' = Append(typed, e)
      BY <1>1 DEF Type
    <2>2. UNCHANGED <<escVars, ttyVars, signalled, uart_quit_requested, stopped>>
      BY <1>1 DEF Type
    <2>3. /\ typed' \in Seq(Byte) /\ Len(typed') = Len(typed) + 1
          /\ \A i \in 1 .. Len(typed) : typed'[i] = typed[i]
      BY <1>t, <2>1, AppendProperties DEF ConsoleTypeOK
    <2>4. ConsoleTypeOK'
      BY <1>t, <2>2, <2>3 DEF ConsoleTypeOK, escVars, ttyVars
    <2>5. received' = SubSeq(typed', 1, Len(received)') /\ Len(received)' <= consumed'
      <3>1. Len(received) \in 0 .. Len(typed) /\ typed \in Seq(Byte)
        <4>1. Len(received) <= consumed /\ consumed \in 0 .. Len(typed) /\ typed \in Seq(Byte)
          BY <1>t DEF CInv, ConsoleTypeOK
        <4> QED
          BY <1>t, <4>1
      <3>2. SubSeq(typed', 1, Len(received)) = SubSeq(typed, 1, Len(received))
        BY <2>1, <3>1, SliceOfAppend
      <3> QED
        BY <2>2, <3>2 DEF CInv, escVars
    <2>6. \A i \in 1 .. Len(received) + 1 : PairAt(i)' <=> PairAt(i)
      <3> SUFFICES ASSUME NEW i \in 1 .. Len(received) + 1 PROVE PairAt(i)' <=> PairAt(i)
        OBVIOUS
      <3>1. i + 1 <= consumed => i \in 1 .. Len(typed) /\ i + 1 \in 1 .. Len(typed)
        BY <1>t DEF ConsoleTypeOK
      <3> QED
        BY <2>2, <2>3, <3>1 DEF PairAt, escVars
    <2>7. consumed > 0 => typed'[consumed] = typed[consumed]
      BY <1>t, <2>3 DEF ConsoleTypeOK
    <2>8. \A i \in 1 .. Len(received) : i \in 1 .. Len(received) + 1
      BY <1>t
    <2>9. Len(received) + 1 \in 1 .. Len(received) + 1
      BY <1>t
    <2> QED
      BY <2>2, <2>4, <2>5, <2>6, <2>7, <2>8, <2>9 DEF CInv, escVars, ttyVars
  <1>2. CASE \/ Close \/ OpenEpoll \/ ReadEof \/ ReturnQuit \/ UNCHANGED consoleVars
    <2>1. /\ UNCHANGED <<typed, consumed, received, uart_esc_held, uart_saved_termios, signalled,
                         uart_quit_requested>>
          /\ UNCHANGED <<stopped, uart_terminal_raw>> \/ (stopped' = 1 /\ uart_terminal_raw' = 0)
      BY <1>2 DEF Close, OpenEpoll, ReadEof, ReturnQuit, consoleVars, hostVars, escVars, ttyVars
    <2> QED
      BY <2>1 DEF CInv, ConsoleTypeOK, PairAt
  <1>3. CASE uart_input_signal
    <2>1. /\ uart_terminal_raw = 1 /\ signalled' = 1 /\ uart_quit_requested' = 1
          /\ UNCHANGED <<typed, consumed, received, uart_esc_held, uart_saved_termios,
                         uart_terminal_raw, stopped>>
      BY <1>3 DEF uart_input_signal, hostVars, escVars, ttyVars
    <2>2. uart_saved_termios = 1
      BY <2>1, <1>3 DEF CInv, ConsoleTypeOK
    <2> QED
      BY <2>1, <2>2 DEF CInv, ConsoleTypeOK, PairAt
  <1>4. CASE ReadBatch
    BY <1>4, ReadBatchKeeps
  <1> QED
    BY <1>1, <1>2, <1>3, <1>4 DEF ConsoleNext, uart_poll_input

\* The invariant says what batching may not show.
LEMMA CInvInvisible == CInv => BatchingInvisible
  <1> SUFFICES ASSUME CInv PROVE BatchingInvisible
    OBVIOUS
  <1> DEFINE t == typed
             c == consumed
             p == Len(received)
             read == SubSeq(t, 1, c)
  <1>1. /\ t \in Seq(Byte) /\ Len(t) \in Nat /\ c \in 0 .. Len(t) /\ c \in Nat
        /\ p \in 0 .. c /\ p \in Nat /\ received \in Seq(Byte) /\ received = SubSeq(t, 1, p)
    <2>1. /\ t \in Seq(Byte) /\ c \in 0 .. Len(t) /\ p <= c
          /\ received \in Seq(Byte) /\ received = SubSeq(t, 1, p)
      BY DEF CInv, ConsoleTypeOK
    <2>2. Len(t) \in Nat /\ p \in Nat
      BY <2>1, LenProperties
    <2> QED
      BY <2>1, <2>2
  <1>2. read \in Seq(Byte) /\ Len(read) = c /\ \A i \in 1 .. c : read[i] = t[i]
    <2>1. 1 \in 1 .. Len(t) + 1 /\ c \in 1 - 1 .. Len(t) /\ c - 1 + 1 = c
          /\ \A i \in 1 .. c : 1 + i - 1 = i
      BY <1>1
    <2> QED
      BY <1>1, <2>1, Slice
  <1>3. QuitAt(read) = {i \in 1 .. c - 1 : t[i] = Esc /\ t[i + 1] = Quit}
    <2>1. \A i \in 1 .. c - 1 : i \in 1 .. c /\ i + 1 \in 1 .. c
      BY <1>1
    <2> HIDE DEF read
    <2> QED
      BY <1>2, <2>1 DEF QuitAt
  <1>4. \A i \in 1 .. c - 1 : i \in QuitAt(read) <=> PairAt(i)
    BY <1>1, <1>3 DEF PairAt
  <1>5. \A k \in 0 .. c : SubSeq(read, 1, k) = SubSeq(t, 1, k)
    <2> SUFFICES ASSUME NEW k \in 0 .. c PROVE SubSeq(read, 1, k) = SubSeq(t, 1, k)
      OBVIOUS
    <2>1. 1 \in 1 .. Len(t) + 1 /\ c \in 1 - 1 .. Len(t) /\ k \in 0 .. c - 1 + 1 /\ 1 + k - 1 = k
      BY <1>1
    <2>2. SubSeq(read, 1, k) = SubSeq(t, 1, 1 + k - 1)
      BY <1>1, <2>1, SliceOfSlice
    <2> QED
      BY <2>1, <2>2
  <1> HIDE DEF read, t, c, p
  <1>6. CASE uart_saved_termios = 0
    <2>1. received = read /\ uart_quit_requested = 0
      BY <1>1, <1>6 DEF CInv, read, p, c
    <2> QED
      BY <1>6, <2>1 DEF BatchingInvisible, read, t, c
  <1>7. CASE uart_saved_termios # 0 /\ signalled = 1
    <2>0. \A i \in 1 .. p : ~PairAt(i)
      BY <1>7 DEF CInv, ConsoleTypeOK, p
    <2>1. PICK k \in p .. c : Passed(read) = SubSeq(t, 1, k)
      <3>1. CASE QuitAt(read) = {}
        <4>1. Passed(read) = SubSeq(t, 1, c) /\ c \in p .. c
          BY <1>1, <3>1 DEF Passed, read
        <4> QED
          BY <4>1
      <3>2. CASE QuitAt(read) # {}
        <4> DEFINE z == Min(QuitAt(read))
        <4>1. z \in QuitAt(read)
          <5>1. QuitAt(read) \in SUBSET Nat
            BY <1>1, <1>3
          <5>2. \E x \in QuitAt(read) : \A y \in QuitAt(read) : x <= y
            BY <3>2, <5>1, LeastNat
          <5> QED
            BY <5>2 DEF Min
        <4>2. z \in 1 .. c - 1
          BY <1>3, <4>1
        <4>3. PairAt(z)
          BY <1>4, <4>1, <4>2
        <4> HIDE DEF z
        <4>4. ~(z \in 1 .. p)
          BY <2>0, <4>3
        <4>5. z - 1 \in p .. c /\ z - 1 \in 0 .. c
          BY <1>1, <4>2, <4>4
        <4>6. Passed(read) = SubSeq(read, 1, z - 1)
          BY <3>2 DEF Passed, z
        <4> QED
          BY <1>5, <4>5, <4>6
      <3> QED
        BY <3>1, <3>2
    <2>2. k \in 0 .. Len(t) /\ 1 \in 1 .. Len(t) + 1 /\ k \in 1 - 1 .. Len(t) /\ k - 1 + 1 = k
          /\ p \in 0 .. k - 1 + 1 /\ 1 + p - 1 = p /\ p <= k
      BY <1>1
    <2>3. Len(Passed(read)) = k
      BY <1>1, <2>1, <2>2, Slice
    <2>4. SubSeq(Passed(read), 1, p) = SubSeq(t, 1, 1 + p - 1)
      BY <1>1, <2>1, <2>2, SliceOfSlice
    <2>5. SubSeq(received, 1, p) = received
      BY <1>1, SubSeqFull DEF p
    <2>6. IsPrefix(received, Passed(read))
      BY <1>1, <2>2, <2>3, <2>4, <2>5 DEF IsPrefix, p
    <2> QED
      BY <1>7, <2>6 DEF BatchingInvisible, read, t, c
  <1>8. CASE uart_saved_termios # 0 /\ signalled # 1 /\ uart_quit_requested = 1
    <2>1. (\A i \in 1 .. p : ~PairAt(i)) /\ PairAt(p + 1)
      BY <1>8 DEF CInv, ConsoleTypeOK, p
    <2>2. p + 1 \in 1 .. c - 1 /\ p + 1 \in QuitAt(read)
      <3>1. p + 1 \in 1 .. c - 1
        BY <1>1, <2>1 DEF PairAt, c
      <3> QED
        BY <1>4, <2>1, <3>1
    <2>3. \A y \in QuitAt(read) : p + 1 <= y
      <3> SUFFICES ASSUME NEW y \in QuitAt(read) PROVE p + 1 <= y
        OBVIOUS
      <3>1. y \in 1 .. c - 1 /\ PairAt(y)
        BY <1>3, <1>4
      <3>2. ~(y \in 1 .. p)
        BY <2>1, <3>1
      <3> QED
        BY <1>1, <3>1, <3>2
    <2>4. Min(QuitAt(read)) = p + 1
      <3> DEFINE z == Min(QuitAt(read))
      <3>1. z \in QuitAt(read) /\ \A y \in QuitAt(read) : z <= y
        BY <2>2, <2>3 DEF Min
      <3>2. z <= p + 1 /\ p + 1 <= z /\ z \in 1 .. c - 1
        BY <1>3, <2>2, <2>3, <3>1
      <3> HIDE DEF z
      <3>3. z = p + 1
        BY <1>1, <3>2
      <3> QED
        BY <3>3 DEF z
    <2>5. Passed(read) = received
      <3>1. Passed(read) = SubSeq(read, 1, (p + 1) - 1) /\ (p + 1) - 1 = p
        BY <1>1, <2>2, <2>4 DEF Passed
      <3> QED
        BY <1>1, <1>5, <3>1
    <2>6. QuitAt(read) # {}
      BY <2>2
    <2> QED
      BY <1>8, <2>5, <2>6 DEF BatchingInvisible, read, t, c
  <1>9. CASE uart_saved_termios # 0 /\ signalled # 1 /\ uart_quit_requested # 1
    <2>1. /\ \A i \in 1 .. p : ~PairAt(i)
          /\ p = c - uart_esc_held /\ uart_esc_held \in {0, 1} /\ uart_quit_requested = 0
          /\ uart_esc_held = 1 => c > 0 /\ t[c] = Esc
      BY <1>9 DEF CInv, ConsoleTypeOK, p, c, t
    <2>2. QuitAt(read) = {}
      <3>1. \A i \in 1 .. c - 1 : i \in 1 .. p
        BY <1>1, <2>1
      <3>2. \A i \in 1 .. c - 1 : ~(i \in QuitAt(read))
        BY <1>4, <2>1, <3>1
      <3> QED
        BY <1>3, <3>2
    <2>3. received \o (IF uart_esc_held = 1 THEN <<Esc>> ELSE <<>>) = read
      <3>1. CASE uart_esc_held = 1
        <4>1. 1 \in 1 .. Len(t) /\ c \in 1 .. Len(t) /\ p = c - 1 /\ t[c] = Esc
          BY <1>1, <2>1, <3>1
        <4>2. SubSeq(t, 1, c) = SubSeq(t, 1, c - 1) \o <<t[c]>>
          BY <1>1, <4>1, SubSeqRecursiveSecond
        <4> QED
          BY <1>1, <3>1, <4>1, <4>2 DEF read
      <3>2. CASE uart_esc_held # 1
        <4>1. p = c
          BY <1>1, <2>1, <3>2
        <4>2. received \o <<>> = received
          BY <1>1, ConcatEmptySeq
        <4> QED
          BY <1>1, <3>2, <4>1, <4>2 DEF read
      <3> QED
        BY <3>1, <3>2
    <2> QED
      BY <1>9, <2>1, <2>2, <2>3 DEF BatchingInvisible, read, t, c
  <1> QED
    BY <1>6, <1>7, <1>8, <1>9

(***************************************************************************)
(* However read() splits the input, whatever its buffer holds and however  *)
(* much is typed, the guest of uart_poll_input receives exactly the bytes  *)
(* before the first Ctrl-] x, short of one that is held back, and a        *)
(* signal only cuts the tail off.                                          *)
(***************************************************************************)
THEOREM ConsoleBatchingInvisible == ConsoleSpec => []BatchingInvisible
  BY InitCInv, NextCInv, CInvInvisible, PTL DEF ConsoleSpec

=============================================================================
