----------------------------- MODULE DeviceTree -----------------------------
(***************************************************************************)
(* The device-tree writer (src/src/device/fdt.c).  The structure block is  *)
(* the sequence of its tokens; a builder is the record of the block, the   *)
(* nesting depth and h, the handle the last operation returned, 0 once one *)
(* has failed (every later one fails too).  A property value is a sequence *)
(* of 32-bit cells, or a string, whose bytes do not matter.                *)
(* The offsets of header, reserve map and strings block, and the padding,  *)
(* are left out.                                                           *)
(***************************************************************************)
EXTENDS Integers, Sequences, SequencesExt

CONSTANTS
    ClintBase, ClintSize, PlicBase, PlicSize, UartBase, UartSize, RamStart, RamSize

ASSUME DeviceTreeAssumption ==
    {ClintBase, ClintSize, PlicBase, PlicSize, UartBase, UartSize, RamStart, RamSize} \subseteq Nat

Begin(name) == [tag |-> "begin", name |-> name, val |-> <<>>]
End == [tag |-> "end", name |-> "", val |-> <<>>]
Prop(name, val) == [tag |-> "prop", name |-> name, val |-> val]

\* The root node is opened here and closed by fdt_serialize.
fdt_builder_init == [out |-> <<Begin("/")>>, depth |-> 0, h |-> 1]

fdt_node_push(b, name) == [b EXCEPT !.out = Append(@, Begin(name)), !.depth = @ + 1]

fdt_node_pop(b) ==
    IF b.depth = 0 THEN [b EXCEPT !.h = 0]
    ELSE [b EXCEPT !.out = Append(@, End), !.depth = @ - 1]

\* fdt_prop_word, _cells1, _cells2, _str, _bytes and _empty.
fdt_prop(b, name, val) == [b EXCEPT !.out = Append(@, Prop(name, val))]

\* Nothing but a balanced tree is serialised.
fdt_serialize(b) ==
    IF b.h = 0 \/ b.depth # 0 THEN [b EXCEPT !.h = 0]
    ELSE [b EXCEPT !.out = Append(@, End)]

\* Op over a sequence from the left.  The set makes TLC evaluate each
\* intermediate value once.
Fold(Op(_, _), first, seq) ==
    LET after[i \in 0 .. Len(seq)] ==
            IF i = 0 THEN first
            ELSE CHOOSE v \in {Op(x, seq[i]) : x \in {after[i - 1]}} : TRUE
    IN  after[Len(seq)]

\* A description is a sequence of calls, abandoned at the first that fails.
Push(name) == Begin(name)
Pop == End
Call(b, c) ==
    CASE b.h = 0 -> b
      [] b.h # 0 /\ c.tag = "begin" -> fdt_node_push(b, c.name)
      [] b.h # 0 /\ c.tag = "end" -> fdt_node_pop(b)
      [] b.h # 0 /\ c.tag = "prop" -> fdt_prop(b, c.name, c.val)

MutCells1Wide(name, v) == Prop(name, <<v, 0, 0, 0>>)

fdt_prop_cells1(name, v) == Prop(name, <<v>>)
fdt_prop_cells2(name, v0, v1) == Prop(name, <<v0, v1>>)
fdt_prop_word(name, v0, v1, v2, v3) == Prop(name, <<v0, v1, v2, v3>>)
fdt_prop_str(name) == Prop(name, <<>>)
fdt_prop_empty(name) == Prop(name, <<>>)

-----------------------------------------------------------------------------
\* The machine description.
FDT_CPU_INTC_PHANDLE == 1
FDT_PLIC_PHANDLE == 2
FDT_TIMEBASE_FREQ == 10000000
UART_CLOCK == 3686400
UART_SPEED == 115200
UART_IRQ == 10
PLIC_NDEV == 10

\* A node is opened, described and closed.
Node(name, body) == <<Push(name)>> \o body \o <<Pop>>

fdt_build_clint ==
    Node("clint", <<
      fdt_prop_str("compatible"), fdt_prop_word("reg", 0, ClintBase, 0, ClintSize),
      fdt_prop_word("interrupts-extended", FDT_CPU_INTC_PHANDLE, 3, FDT_CPU_INTC_PHANDLE, 7)>>)

fdt_build_plic ==
    Node("plic", <<
      fdt_prop_str("compatible"), fdt_prop_word("reg", 0, PlicBase, 0, PlicSize),
      fdt_prop_cells1("#address-cells", 0), fdt_prop_cells1("#interrupt-cells", 1),
      fdt_prop_cells1("phandle", FDT_PLIC_PHANDLE), fdt_prop_empty("interrupt-controller"),
      fdt_prop_cells1("riscv,ndev", PLIC_NDEV),
      fdt_prop_word("interrupts-extended", FDT_CPU_INTC_PHANDLE, 11, FDT_CPU_INTC_PHANDLE, 9)>>)

fdt_build_uart ==
    Node("uart", <<
      fdt_prop_str("compatible"), fdt_prop_word("reg", 0, UartBase, 0, UartSize),
      fdt_prop_cells1("clock-frequency", UART_CLOCK), fdt_prop_cells1("current-speed", UART_SPEED),
      fdt_prop_cells1("reg-shift", 0), fdt_prop_cells1("reg-io-width", 1),
      fdt_prop_cells1("interrupt-parent", FDT_PLIC_PHANDLE),
      fdt_prop_cells1("interrupts", UART_IRQ)>>)

\* An initrd that starts at 0 is taken for none.
InitrdRange(start, end) ==
    IF start # 0 /\ end # 0
    THEN <<fdt_prop_cells2("linux,initrd-start", 0, start),
           fdt_prop_cells2("linux,initrd-end", 0, end)>>
    ELSE <<>>

Chosen(start, end) ==
    Node("chosen", <<fdt_prop_str("stdout-path"), fdt_prop_str("bootargs")>>
                     \o InitrdRange(start, end))

Memory ==
    Node("memory", <<
      fdt_prop_str("device_type"), fdt_prop_word("reg", 0, RamStart, 0, RamSize)>>)

Intc ==
    Node("interrupt-controller", <<
      fdt_prop_cells1("phandle", FDT_CPU_INTC_PHANDLE), fdt_prop_cells1("#interrupt-cells", 1),
      fdt_prop_str("compatible"), fdt_prop_empty("interrupt-controller")>>)

Cpu ==
    Node("cpu", <<
      fdt_prop_str("device_type"), fdt_prop_cells1("reg", 0), fdt_prop_str("compatible"),
      fdt_prop_str("mmu-type"), fdt_prop_str("riscv,isa"), fdt_prop_str("riscv,isa-base"),
      fdt_prop_str("riscv,isa-extensions")>> \o Intc)

Cpus ==
    Node("cpus", <<
      fdt_prop_cells1("#address-cells", 1), fdt_prop_cells1("#size-cells", 0),
      fdt_prop_cells1("timebase-frequency", FDT_TIMEBASE_FREQ)>> \o Cpu)

Soc ==
    Node("soc", <<
      fdt_prop_str("compatible"), fdt_prop_cells1("#address-cells", 2),
      fdt_prop_cells1("#size-cells", 2), fdt_prop_empty("ranges")>>
      \o fdt_build_clint \o fdt_build_plic \o fdt_build_uart)

fdt_build_riscvemu(start, end) ==
    fdt_serialize(Fold(Call, fdt_builder_init,
        <<fdt_prop_cells1("#address-cells", 2), fdt_prop_cells1("#size-cells", 2),
          fdt_prop_str("compatible"), fdt_prop_str("model")>>
        \o Chosen(start, end) \o Memory \o Cpus \o Soc))

-----------------------------------------------------------------------------
\* How firmware reads a structure block: the names open, the nodes seen and the
\* properties with the node they belong to.
ReadToken(r, t) ==
    CASE t.tag = "begin" ->
            LET node == Append(r.open, t.name)
            IN  [r EXCEPT !.open = node, !.nodes = @ \union {node}]
      [] t.tag = "end" -> [r EXCEPT !.open = Front(@)]
      [] t.tag = "prop" ->
            [r EXCEPT !.props = @ \union {[node |-> r.open, name |-> t.name, val |-> t.val]}]

Read(out) == Fold(ReadToken, [open |-> <<>>, nodes |-> {}, props |-> {}], out)

Values(r, node, name) == {p.val : p \in {q \in r.props : q.node = node /\ q.name = name}}

\* The first cell of a property, `default` when the node lacks it.
Cell(r, node, name, default) ==
    LET vals == Values(r, node, name)
    IN  IF vals = {} THEN default ELSE (CHOOSE v \in vals : TRUE)[1]
=============================================================================
