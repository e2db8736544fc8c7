---------------------------- MODULE LineProgram ----------------------------
(***************************************************************************)
(* dwarf2-line.c: the header of one .debug_line unit and the line-number   *)
(* state machine that replays its program, with the one callback the       *)
(* library passes to it, state_for_address_callback.                       *)
(*                                                                         *)
(* Bytes are numbers 0..255 in sequences indexed from 1. The fixed header  *)
(* fields (minimum_instruction_length, default_is_stmt, line_base,         *)
(* line_range, opcode_base) are CONSTANTS; the variable part of the        *)
(* header, from standard_opcode_lengths on, is the byte sequence           *)
(* HeaderBytes(h) of a header h = [dirs, files]. The program is a byte     *)
(* sequence of its own, so CUH_LINE_SIZE and CU_LINE_SIZE become its first *)
(* index and its length. A read past the end of the given bytes reads 0    *)
(* (the next unit or the end of the mapped file).                          *)
(***************************************************************************)
EXTENDS Integers, Sequences, FiniteSets, SequencesExt, Bytes

CONSTANTS
  MinInsnLength,    \* minimum_instruction_length
  DefaultIsStmt,    \* default_is_stmt
  LineBase,         \* line_base
  LineRange,        \* line_range
  OpcodeBase,       \* opcode_base
  StdOpcodeLengths, \* standard_opcode_lengths, OpcodeBase - 1 entries
  TargetAddress,    \* search_tmp.target_address
  Headers,          \* the headers [dirs, files] to parse
  Programs          \* the line programs, as sequences of Instruction

ASSUME MinInsnLength \in 1..255 /\ DefaultIsStmt \in BOOLEAN
ASSUME LineBase \in -128..127 /\ LineRange \in 1..255 /\ OpcodeBase \in 1..255
ASSUME StdOpcodeLengths \in Seq(0..255)
ASSUME Len(StdOpcodeLengths) = OpcodeBase - 1

\* enum line_opcode_standard_e and line_opcode_extended_e.
DW_LNS == [lne |-> 0, copy |-> 1, advance_pc |-> 2, advance_line |-> 3,
           set_file |-> 4, set_column |-> 5, negate_stmt |-> 6,
           set_basic_block |-> 7, const_add_pc |-> 8, fixed_advance_pc |-> 9,
           set_prologue_end |-> 10, set_epilogue_begin |-> 11, set_isa |-> 12]
DW_LNE == [end_sequence |-> 1, set_address |-> 2, define_file |-> 3]

(***************************************************************************)
(* The header. A header is [dirs : Seq(name), files : Seq([name, dir,      *)
(* time, size])], names being non-empty byte sequences without 0.          *)
(* HeaderBytes(h) is its DWARF encoding from standard_opcode_lengths on;   *)
(* DirsStart is CUH_LINE_INCLUDE_DIRECTORIES_START relative to it.         *)
(***************************************************************************)
HeaderBytes(h) ==
  StdOpcodeLengths
    \o FlattenSeq([k \in DOMAIN h.dirs |-> h.dirs[k] \o <<0>>]) \o <<0>>
    \o FlattenSeq([k \in DOMAIN h.files |->
                     h.files[k].name \o <<0, h.files[k].dir, h.files[k].time,
                                          h.files[k].size>>]) \o <<0>>
DirsStart == OpcodeBase

\* The do/while loops of parse_cuh: after each entry one byte is read and
\* the loop goes on unless it is 0; that byte is the first of the next entry.
RECURSIVE CountDirs(_, _, _)
CountDirs(b, i, n) ==
  LET j == StrEnd(b, i)
  IN IF At(b, j) # 0 THEN CountDirs(b, j + 1, n + 1)
     ELSE [count |-> n + 1, next |-> j + 1]

RECURSIVE CountFiles(_, _, _)
CountFiles(b, i, n) ==
  LET j == SkipULEBs(b, StrEnd(b, i), 3)
  IN IF At(b, j) # 0 THEN CountFiles(b, j + 1, n + 1)
     ELSE [count |-> n + 1, next |-> j + 1]

\* parse_cuh: the counts and lengths of the two arrays.
ParseCuh(h) ==
  LET d == CountDirs(HeaderBytes(h), DirsStart, 0)
      f == CountFiles(HeaderBytes(h), d.next, 0)
  IN [ndirs |-> d.count, include_directories_length |-> d.next - DirsStart,
      nfiles |-> f.count, file_names_length |-> f.next - d.next]

\* The fields of the k-th file entry at or after i.
RECURSIVE FileEntry(_, _, _)
FileEntry(b, i, k) ==
  LET j   == StrEnd(b, i)
      dir == ULEB(b, j)
      tm  == ULEB(b, dir.next)
      sz  == ULEB(b, tm.next)
  IN IF k = 1
     THEN [ok |-> TRUE, name_offset |-> i, directory_index |-> dir.val,
           last_modif_time |-> tm.val, size |-> sz.val]
     ELSE FileEntry(b, sz.next, k - 1)

\* Seeded fault: file_index >= cuh->nfiles refused.
ReadFileInformationLastRefused(h, cuh, k) ==
  IF k = 0 \/ k >= cuh.nfiles THEN [ok |-> FALSE]
  ELSE FileEntry(HeaderBytes(h), DirsStart + cuh.include_directories_length, k)

\* dwarf2_line_read_file_information.
ReadFileInformation(h, cuh, k) ==
  IF k = 0 \/ k > cuh.nfiles THEN [ok |-> FALSE]
  ELSE FileEntry(HeaderBytes(h), DirsStart + cuh.include_directories_length, k)

RECURSIVE DirEntry(_, _, _)
DirEntry(b, i, k) == IF k = 1 THEN i ELSE DirEntry(b, StrEnd(b, i), k - 1)

\* dwarf2_line_read_directory_name; for index 0 the loop never runs and
\* *dirname_offset is not written (Unwritten).
Unwritten == -1
ReadDirectoryName(h, cuh, k) ==
  IF k > cuh.ndirs THEN [ok |-> FALSE]
  ELSE [ok |-> TRUE,
        offset |-> IF k = 0 THEN Unwritten
                   ELSE DirEntry(HeaderBytes(h), DirsStart, k)]

(***************************************************************************)
(* The line-number state machine of dwarf2_line_read_all_rows.  state is  *)
(* the caller's struct (the last committed registers), newState the local *)
(* new_state, off the reader offset in prog, found the search_tmp flag,   *)
(* rows the rows handed to the callback, in order (a history variable),   *)
(* and phase "loop", "out" (the callback stopped the loop) or "done" (the *)
(* program was read to its end); the function returns 0 in both.          *)
(***************************************************************************)
VARIABLES hdr, prog, instrs, off, state, newState, found, rows, phase
vars == <<hdr, prog, instrs, off, state, newState, found, rows, phase>>

\* init_line_machine.
InitLineMachine ==
  [address |-> 0, file |-> 1, line |-> 1, column |-> 0,
   is_stmt |-> DefaultIsStmt, basic_block |-> FALSE, end_sequence |-> FALSE,
   prologue_end |-> FALSE, epilogue_begin |-> FALSE, isa |-> 0]

ClearRowFlags(r) ==
  [r EXCEPT !.basic_block = FALSE, !.prologue_end = FALSE,
            !.epilogue_begin = FALSE]

\* state_for_address_callback: [stop, found] for a row.
StateForAddressCallback(wasFound, row) ==
  CASE wasFound                   -> [stop |-> TRUE,  found |-> TRUE]
    [] TargetAddress = row.address -> [stop |-> FALSE, found |-> TRUE]
    [] TargetAddress < row.address -> [stop |-> TRUE,  found |-> FALSE]
    [] OTHER                       -> [stop |-> FALSE, found |-> FALSE]

Op == At(prog, off)

\* The end of an iteration that appends no row: *state = new_state.
Commit(ns, next) ==
  /\ newState' = ns /\ state' = ns /\ off' = next
  /\ UNCHANGED <<hdr, prog, instrs, found, rows, phase>>

\* An APPEND: the callback sees row; if it returns non-zero the function
\* returns with state as stopState, otherwise new_state becomes after and
\* the iteration ends with *state = new_state.
AppendRow(row, next, after, stopState) ==
  LET r == StateForAddressCallback(found, row)
  IN /\ rows' = Append(rows, row)
     /\ found' = r.found
     /\ off' = next
     /\ IF r.stop
        THEN phase' = "out" /\ state' = stopState /\ newState' = row
        ELSE phase' = phase /\ state' = after /\ newState' = after
     /\ UNCHANGED <<hdr, prog, instrs>>

Reading == phase = "loop" /\ off <= Len(prog)

\* DW_LNS_lne: instruction_length, then the extended opcode.
ExtLen == ULEB(prog, off + 1)
ExtOp  == At(prog, ExtLen.next)
ExtArg == ExtLen.next + 1

LneEndSequence ==
  /\ Reading /\ Op = DW_LNS.lne /\ ExtOp = DW_LNE.end_sequence
  /\ AppendRow(newState, ExtArg, InitLineMachine,
            [state EXCEPT !.end_sequence = TRUE])

LneSetAddress ==
  /\ Reading /\ Op = DW_LNS.lne /\ ExtOp = DW_LNE.set_address
  /\ LET a == ReadU(prog, ExtArg, ExtLen.val - 1)
     IN Commit([newState EXCEPT !.address = a.val], a.next)

\* The file name, then three reader_read_u64.
LneDefineFile ==
  /\ Reading /\ Op = DW_LNS.lne /\ ExtOp = DW_LNE.define_file
  /\ Commit(newState, StrEnd(prog, ExtArg) + 3 * 8)

LneUnknown ==
  /\ Reading /\ Op = DW_LNS.lne /\ ExtOp \notin {1, 2, 3}
  /\ Commit(newState, ExtArg + ExtLen.val)

Copy ==
  /\ Reading /\ Op = DW_LNS.copy
  /\ AppendRow(newState, off + 1, ClearRowFlags(newState), state)

AdvancePc ==
  /\ Reading /\ Op = DW_LNS.advance_pc
  /\ LET u == ULEB(prog, off + 1)
     IN Commit([newState EXCEPT
                  !.address = state.address + MinInsnLength * u.val], u.next)

AdvanceLine ==
  /\ Reading /\ Op = DW_LNS.advance_line
  /\ LET v == SLEB(prog, off + 1)
     IN Commit([newState EXCEPT !.line = state.line + v.val], v.next)

\* set_file, set_column, set_isa: one ULEB operand stored in a register.
OperandRegister == [f \in {DW_LNS.set_file, DW_LNS.set_column, DW_LNS.set_isa} |->
                      CASE f = DW_LNS.set_file   -> "file"
                        [] f = DW_LNS.set_column -> "column"
                        [] OTHER                 -> "isa"]
SetOperand ==
  /\ Reading /\ Op \in DOMAIN OperandRegister
  /\ LET u == ULEB(prog, off + 1)
     IN Commit([newState EXCEPT ![OperandRegister[Op]] = u.val], u.next)

NegateStmt ==
  /\ Reading /\ Op = DW_LNS.negate_stmt
  /\ Commit([newState EXCEPT !.is_stmt = ~state.is_stmt], off + 1)

\* set_basic_block, set_prologue_end, set_epilogue_begin.
FlagRegister == [f \in {DW_LNS.set_basic_block, DW_LNS.set_prologue_end,
                        DW_LNS.set_epilogue_begin} |->
                   CASE f = DW_LNS.set_basic_block  -> "basic_block"
                     [] f = DW_LNS.set_prologue_end -> "prologue_end"
                     [] OTHER                       -> "epilogue_begin"]
SetFlag ==
  /\ Reading /\ Op \in DOMAIN FlagRegister
  /\ Commit([newState EXCEPT ![FlagRegister[Op]] = TRUE], off + 1)

\* const_add_pc: adjusted_opcode is a uint8_t, so 255 - opcode_base wraps.
ConstAddPc ==
  /\ Reading /\ Op = DW_LNS.const_add_pc
  /\ Commit([newState EXCEPT !.address = state.address
               + (((255 - OpcodeBase) % 256) \div LineRange) * MinInsnLength],
            off + 1)

FixedAdvancePc ==
  /\ Reading /\ Op = DW_LNS.fixed_advance_pc
  /\ Commit([newState EXCEPT !.address = state.address + LE(prog, off + 1, 2)],
            off + 3)

\* standard_opcode_noperands: reader_skip (opcode) from the start of
\* standard_opcode_lengths, then one byte.
StandardOpcodeNoperands(h, opcode) == At(HeaderBytes(h), 1 + opcode)

UnknownStandard ==
  /\ Reading /\ Op > DW_LNS.set_isa /\ Op < OpcodeBase
  /\ Commit(newState, SkipULEBs(prog, off + 1, StandardOpcodeNoperands(hdr, Op)))

Special ==
  /\ Reading /\ Op > DW_LNS.set_isa /\ Op >= OpcodeBase
  /\ LET adj == Op - OpcodeBase
         ns  == [newState EXCEPT
                   !.line    = state.line + LineBase + (adj % LineRange),
                   !.address = state.address
                                 + (adj \div LineRange) * MinInsnLength]
     IN AppendRow(ns, off + 1, ClearRowFlags(ns), state)

\* Seeded fault: the loop tests offset != end, so a reader that went past
\* the end never leaves it.
EndOfProgramExact ==
  /\ phase = "loop" /\ off = Len(prog) + 1
  /\ phase' = "done"
  /\ UNCHANGED <<hdr, prog, instrs, off, state, newState, found, rows>>

\* The while condition fails: the function returns 0.
EndOfProgram ==
  /\ phase = "loop" /\ off > Len(prog)
  /\ phase' = "done"
  /\ UNCHANGED <<hdr, prog, instrs, off, state, newState, found, rows>>

(***************************************************************************)
(* The DWARF 2 line program format (section 6.2), as the reference the     *)
(* code is checked against.  An instruction is a record [op, n]; Encode    *)
(* gives its bytes (operands below 128, addresses of four bytes) and      *)
(* Table the rows the program defines.                                     *)
(***************************************************************************)
Instruction == [op : {"copy", "advance_pc", "advance_line", "set_file",
                      "set_column", "set_isa", "negate_stmt", "set_basic_block",
                      "set_prologue_end", "set_epilogue_begin", "const_add_pc",
                      "fixed_advance_pc", "special", "unknown_standard",
                      "end_sequence", "set_address", "define_file",
                      "set_discriminator"}, n : Int]

Encode(i) ==
  CASE i.op = "end_sequence"      -> <<0, 1, DW_LNE.end_sequence>>
    [] i.op = "set_address"       -> <<0, 5, DW_LNE.set_address>>
                                       \o [k \in 1..4 |-> (i.n \div 256^(k-1)) % 256]
    [] i.op = "define_file"       -> <<0, 6, DW_LNE.define_file, 97, 0, i.n, 0, 0>>
    [] i.op = "set_discriminator" -> <<0, 2, 4, i.n>>
    [] i.op = "advance_line"      -> <<DW_LNS.advance_line, i.n % 128>>
    [] i.op = "fixed_advance_pc"  -> <<DW_LNS.fixed_advance_pc, i.n % 256, i.n \div 256>>
    [] i.op = "special"           -> <<OpcodeBase + i.n>>
    [] i.op = "unknown_standard"  -> <<i.n>> \o [k \in 1..StdOpcodeLengths[i.n] |-> 1]
    [] i.op \in {"advance_pc", "set_file", "set_column", "set_isa"}
                                  -> <<DW_LNS[i.op], i.n>>
    [] OTHER                      -> <<DW_LNS[i.op]>>

EncodeProgram(p) == FlattenSeq([k \in DOMAIN p |-> Encode(p[k])])

\* The registers after an instruction that appends no row.
RefRegisters(r, i) ==
  CASE i.op = "set_address"      -> [r EXCEPT !.address = i.n]
    [] i.op = "advance_pc"       -> [r EXCEPT !.address = @ + MinInsnLength * i.n]
    [] i.op = "fixed_advance_pc" -> [r EXCEPT !.address = @ + i.n]
    [] i.op = "const_add_pc"     ->
         [r EXCEPT !.address = @ + ((255 - OpcodeBase) \div LineRange) * MinInsnLength]
    [] i.op = "advance_line"     -> [r EXCEPT !.line = @ + i.n]
    [] i.op = "set_file"         -> [r EXCEPT !.file = i.n]
    [] i.op = "set_column"       -> [r EXCEPT !.column = i.n]
    [] i.op = "set_isa"          -> [r EXCEPT !.isa = i.n]
    [] i.op = "negate_stmt"      -> [r EXCEPT !.is_stmt = ~@]
    [] i.op = "set_basic_block"  -> [r EXCEPT !.basic_block = TRUE]
    [] i.op = "set_prologue_end" -> [r EXCEPT !.prologue_end = TRUE]
    [] i.op = "set_epilogue_begin" -> [r EXCEPT !.epilogue_begin = TRUE]
    [] OTHER                     -> r

RefStep(acc, i) ==
  LET r   == acc.regs
      sp  == [r EXCEPT !.line = @ + LineBase + (i.n % LineRange),
                       !.address = @ + (i.n \div LineRange) * MinInsnLength]
  IN CASE i.op = "copy"    -> [regs |-> ClearRowFlags(r), rows |-> Append(acc.rows, r)]
       [] i.op = "special" -> [regs |-> ClearRowFlags(sp), rows |-> Append(acc.rows, sp)]
       [] i.op = "end_sequence" ->
            [regs |-> InitLineMachine,
             rows |-> Append(acc.rows, [r EXCEPT !.end_sequence = TRUE])]
       [] OTHER -> [acc EXCEPT !.regs = RefRegisters(r, i)]

Table(p) == FoldLeft(RefStep, [regs |-> InitLineMachine, rows |-> <<>>], p).rows

\* Where DWARF puts the d-th directory name and the k-th file entry.
RefDirOffset(h, d) ==
  DirsStart + Len(FlattenSeq([j \in 1..(d - 1) |-> h.dirs[j] \o <<0>>]))
RefFileOffset(h, k) ==
  DirsStart + Len(FlattenSeq([j \in DOMAIN h.dirs |-> h.dirs[j] \o <<0>>])) + 1
    + Len(FlattenSeq([j \in 1..(k - 1) |-> h.files[j].name \o <<0, 0, 0, 0>>]))

(***************************************************************************)
(* dwarf2_line_state_for_address on one unit: read_all_rows with          *)
(* state_for_address_callback and found = FALSE.                           *)
(***************************************************************************)
Init ==
  /\ hdr \in Headers
  /\ instrs \in Programs
  /\ prog = EncodeProgram(instrs)
  /\ off = 1
  /\ state = InitLineMachine /\ newState = InitLineMachine
  /\ found = FALSE /\ rows = <<>> /\ phase = "loop"

Next ==
  \/ LneEndSequence \/ LneSetAddress \/ LneDefineFile \/ LneUnknown
  \/ Copy \/ AdvancePc \/ AdvanceLine \/ SetOperand \/ NegateStmt \/ SetFlag
  \/ ConstAddPc \/ FixedAdvancePc \/ UnknownStandard \/ Special
  \/ EndOfProgram

Spec == Init /\ [][Next]_vars /\ WF_vars(Next)

(***************************************************************************)
(* Properties.                                                             *)
(***************************************************************************)
Registers == [address : Nat, file : Nat, line : Int, column : Nat,
              is_stmt : BOOLEAN, basic_block : BOOLEAN, end_sequence : BOOLEAN,
              prologue_end : BOOLEAN, epilogue_begin : BOOLEAN, isa : Nat]

TypeOK ==
  /\ off \in Nat /\ state \in Registers /\ newState \in Registers
  /\ found \in BOOLEAN /\ rows \in Seq(Registers)
  /\ phase \in {"loop", "out", "done"}

\* A row as compared with the table.  The end_sequence flag is left out:
\* the code sets it on *state, not on the new_state it hands to the
\* callback, so every row the callback sees has it FALSE.
RowFields(r) == [r EXCEPT !.end_sequence = FALSE]

\* dwarf2_line_read_all_rows hands the callback the rows of the DWARF line
\* table of the unit's program, in order and with every register right,
\* and all of them when it reads the program to its end: every opcode
\* handler decodes its operands and consumes exactly its bytes.
RowsFollowTable ==
  LET t == Table(instrs)
  IN /\ Len(rows) <= Len(t)
     /\ \A k \in 1..Len(rows) : RowFields(rows[k]) = RowFields(t[k])
     /\ phase = "done" => Len(rows) = Len(t)

\* parse_cuh counts the include directories and the file names of the
\* header, and read_file_information / read_directory_name find the
\* entry DWARF places at each index in range and refuse the others.
HeaderMatchesDWARF ==
  LET cuh == ParseCuh(hdr)
  IN /\ cuh.ndirs = Len(hdr.dirs) /\ cuh.nfiles = Len(hdr.files)
     /\ \A k \in 1..Len(hdr.files) :
          ReadFileInformation(hdr, cuh, k)
            = [ok |-> TRUE, name_offset |-> RefFileOffset(hdr, k),
               directory_index |-> hdr.files[k].dir,
               last_modif_time |-> hdr.files[k].time, size |-> hdr.files[k].size]
     /\ \A d \in 1..Len(hdr.dirs) :
          ReadDirectoryName(hdr, cuh, d) = [ok |-> TRUE, offset |-> RefDirOffset(hdr, d)]
     /\ ~ReadFileInformation(hdr, cuh, 0).ok
     /\ ~ReadFileInformation(hdr, cuh, Len(hdr.files) + 1).ok
     /\ ~ReadDirectoryName(hdr, cuh, Len(hdr.dirs) + 1).ok

\* When dwarf2_line_state_for_address returns, found tells whether the
\* table has a row (not an end_sequence row) at the target address, and
\* *state holds the first such row.
StateForAddressFindsRow ==
  LET t    == Table(instrs)
      hits == {k \in DOMAIN t : t[k].address = TargetAddress /\ ~t[k].end_sequence}
  IN phase # "loop" =>
       /\ found = (hits # {})
       /\ found => RowFields(state) = RowFields(t[CHOOSE k \in hits :
                                                     \A j \in hits : k <= j])

\* dwarf2_line_read_all_rows returns, whatever bytes the program holds:
\* every opcode handler consumes at least one byte and the loop stops at
\* the end of the unit or when the callback asks it to.
ReadAllRowsReturns == <>(phase # "loop")

=============================================================================
