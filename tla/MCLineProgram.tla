---------------------------- MODULE MCLineProgram ----------------------------
(***************************************************************************)
(* Instantiates LineProgram with the header GCC writes for x86             *)
(* (opcode_base 13, line_base -5, line_range 14, minimum_instruction_length *)
(* 1) and every program of at most MaxInstrs instructions from an alphabet *)
(* followed by end_sequence, whose rows have line numbers >= 0.            *)
(***************************************************************************)
EXTENDS LineProgram

CONSTANTS MaxInstrs, Alphabet

MCLineBase == -5

\* standard_opcode_lengths of opcodes 1..12, and of a 13th opcode with one
\* operand for a header with opcode_base 14.
MCStdOpcodeLengths   == <<0, 1, 1, 1, 1, 0, 0, 0, 1, 0, 0, 1>>
MCStdOpcodeLengths14 == MCStdOpcodeLengths \o <<1>>

Name(c) == <<c>>
MCHeaders ==
  {[dirs  |-> <<Name(100)>>,
    files |-> <<[name |-> <<97, 98>>, dir |-> 1, time |-> 0, size |-> 0]>>],
   [dirs  |-> <<Name(100), <<101, 102>>>>,
    files |-> <<[name |-> Name(97), dir |-> 0, time |-> 3, size |-> 9],
                [name |-> Name(98), dir |-> 2, time |-> 0, size |-> 5]>>]}

I(o, v) == [op |-> o, n |-> v]

\* Every opcode the header declares, with operands that change registers.
WellFormedOps ==
  {I("copy", 0), I("set_address", 16), I("advance_pc", 2),
   I("advance_line", -1), I("advance_line", 3), I("set_file", 2),
   I("set_column", 4), I("set_isa", 1), I("negate_stmt", 0),
   I("set_basic_block", 0), I("set_prologue_end", 0),
   I("set_epilogue_begin", 0), I("const_add_pc", 0),
   I("fixed_advance_pc", 300), I("special", 0), I("special", 20),
   I("special", 255 - OpcodeBase), I("end_sequence", 0)}

\* Also define_file, DW_LNE_set_discriminator (which GCC writes beyond
\* DWARF 2) and the opcode 13 a header with opcode_base 14 declares.
ExtendedOps ==
  WellFormedOps \cup {I("set_discriminator", 3), I("define_file", 1),
                      I("unknown_standard", 13)}

\* What GCC writes for x86 by default: the DWARF 2 opcodes and
\* DW_LNE_set_discriminator.
GCCOps == WellFormedOps \cup {I("set_discriminator", 3)}

Candidates ==
  {p \o <<I("end_sequence", 0)>> :
     p \in UNION {[1..k -> Alphabet] : k \in 0..MaxInstrs}}
MCPrograms ==
  {p \in Candidates : \A k \in DOMAIN Table(p) : Table(p)[k].line >= 0}

=============================================================================
