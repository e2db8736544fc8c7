# TLA+ models of libaspect (I2BGP `src/source/libaspect`)

libaspect lets a program register a callback that runs whenever execution
reaches a named function, in the main binary or in any shared library,
without recompiling anything. It finds the function's address in the
DWARF debug information, patches the first byte of the function with the
`int3` opcode `0xcc`, and handles the resulting `SIGTRAP`.

This directory holds the TLA+ modules, the TLC configurations and the
list of what is checked (`PROJECT.json`). Every definition is translated
from the C/C++ sources under `src/source/libaspect/src`. `PROJECT.json`'s
`map` gives the lines each definition stands for.

## 1. The system

| Part | Source | State | Operations |
|---|---|---|---|
| ByteCursor | `reader.c`, `reader.h` | `{start, end, current, lsb}` | fixed-width reads, ULEB128/SLEB128, `reader_read_u`, skip/seek |
| AbbreviationTable | `dwarf2-abbrev.c` | per-unit 256-slot cache `{key, occupied, value}` | `dwarf2_abbrev_decl_read` (cached two-range scan), `cache_try_lookup`, `cache_try_add` |
| InfoTreeWalker | `dwarf2-info.c` | reader positions | `dwarf2_info_iterate`, `entry_read`, `dwarf2_info_entry_get_name` |
| SymbolResolver | `debug-file.cc` | the mapped file, two readers, the bounds of `.debug_info`/`.debug_str`/`.debug_abbrev`; during `Lookup`: `m_stack` of scope kinds, `m_search`, `m_current`, name stack, matches | constructor (`CreateReader`, `InitializeSection`, `FindSectionByName`), `Iterate`, `DebugFile::Lookup` and its iterator callbacks |
| ProcessImageMap | `load-map.cc` | a list of `Item {filename, load_base}` | `Parse`, `Contains`, `GetEntriesAdded/Deleted`, `GetLdDebug`, `GetChangeNotifierAddress` |
| BreakpointEngine | `breakpoint-manager.cc`, `user-context.c` | code bytes; the process-wide `BreakpointManagerImpl` (`oldAction`, `currentBreakpoint`), the SIGTRAP disposition; each thread's saved pc and trap flag | `Write`, `Enable`, `Disable`, `NormalTrapHandler`, `ReenableTrapHandler`, `Peek` |
| LineDecoder | `dwarf2-line.c` | the header counts; registers `state` (last committed) and `new_state`; the reader offset; the search's `found` | `parse_cuh`, `read_file_information`, `read_directory_name`, `dwarf2_line_read_all_rows` (one case per opcode), `state_for_address_callback` |
| HookRegistry | `hook-manager.cc` | `m_hooks` (each with a per-module list of breakpoints), `m_currentLoadMap`, `m_loadMapNotifier` | constructor, destructor, `AddHookBySourceAndFunction`, `DeleteHook`, `Update`, `NotifyAdded/Deleted`, `AddBreakpoint`, `BreakpointHandler` |

How the parts interact:

* Registering a hook resolves its function in every loaded module
  (`DebugFile::Lookup` → walker → abbreviation table → cursor). It then
  patches one breakpoint per match.
* The constructor also patches the dynamic loader's `r_debug.r_brk`. The
  loader calls `r_brk` after every `dlopen`/`dlclose`, so that trap runs
  `Update`. `Update` diffs the link map against the last one, drops
  breakpoints of unloaded modules, and resolves every hook in new modules.
* A hit of any other breakpoint goes through these steps:
  1. `NormalTrapHandler` runs the hook's callback.
  2. It writes the original byte back and rewinds the pc.
  3. It puts the breakpoint in the single re-arm slot.
  4. It installs `ReenableTrapHandler` and sets the trap flag.
  5. After one instruction, `ReenableTrapHandler` restores the old
     handler and writes `0xcc` again.

What is hard to get right:

* The re-arm slot, `oldAction` and the disposition are shared by every
  thread.
* The handlers run in signal context, in whichever thread traps.
* The loader changes the module list while breakpoints are being hit.
* Deleting a hook and destroying the manager leave code patched.
* The DWARF decoders rely on integer conversions of C: `int` shifts in
  ULEB128, an `int` in SLEB128 sign extension, and a `uint32_t` in
  `reader_read_u`.
* The walker infers scopes from zero bytes.

## 2. Modules

### `BreakpointManager.tla` (breakpoint-manager.cc)
Operators shared by the handlers.

* Memory is a map from the addresses that can carry a breakpoint to the
  first byte there. The byte is one of the original byte, `0xcc`, `0`,
  or unmapped.
* `WriteMem` is `Write` with both `mprotect` calls succeeding.
* `Enable` is the record `{address, data}` that `Enable` returns, where
  `data` is the byte read before the write; `EnableMem` is the write
  itself.
* `DisableMem` writes the saved byte back.

### `LoadMap.tla` (load-map.cc)
`Contains`, `GetEntriesAdded` and `GetEntriesDeleted`, on sequences of
`<<filename, base>>`. Like the code, they compare filenames only.

`Parse` is `LoadMap::Parse`. Its loop (`ParseFrom`) walks a `link_map`
chain of `<<l_name, l_addr>>` links. An unnamed head, the main binary,
becomes `ProcSelfExe` (`/proc/self/exe`). Any other unnamed link, the
vdso, is skipped. `GetLinkMap` is taken to succeed.

`GetLdDebug` finds the loader's `r_debug` for `GetChangeNotifierAddress`.
An image is a record: the auxv entries, the program header tables, the
dynamic arrays and each `r_debug`'s `r_brk`. `AuxvLast` is the read
loop over `/proc/self/auxv`, where the last `AT_PHDR` and `AT_PHNUM` win.
`PhdrFrom` walks the program headers. `DynFrom` walks a `PT_DYNAMIC`
array at `p_vaddr` up to `DT_NULL`, returning the first `DT_DEBUG`'s
`d_ptr`. `GetChangeNotifierAddress` is `SIGSEGV` when there is none,
because the code does not check for null.

### `ElfSections.tla` (debug-file.cc, the constructor)
A mapped ELF file is a record: `EI_DATA`, `e_shstrndx`, `e_shnum`, the
section header table and the string at each file offset.
`NameSectionIndex` picks the section name table: `e_shstrndx`, or section
0's `sh_link` for `SHN_XINDEX`, and none for another reserved value.
`FindFrom` is `FindSectionByName`'s loop over `e_shnum` headers.
`InitializeSection` gives `<<sh_offset, sh_offset + sh_size>>`, or
`<<0, 0>>`. `DebugFile` is the constructor once `open`, `fstat` and
`mmap` have succeeded, with `ReaderLsb` (`CreateReader`'s byte order).
`Iterates` is `Iterate`'s guard that no section is empty.

### `HookRegistry.tla` (the abstract promise)
This module is what spec.md §4.7 promises the user, with no breakpoints
or traps.

* Its state is:
  * the loaded modules;
  * the registered hooks and the function each is on;
  * whether the registry is open;
  * per thread, the function it is calling and the hooks notified so
    far.
* Its actions are `Load`, `Unload`, `Register`, `Unregister`, `Close`,
  `Enter`, `Notify` and `Proceed`. `Proceed` lets a call go on only once
  every registered hook on its function has been notified.

`HookManager`'s `Registry` instance maps the implementation onto it:

| Abstract | HookManager |
|---|---|
| modules | the modules of the chain, minus the unnamed vdso |
| registered | `m_hooks` |
| hookedOn | `target` |
| open | `~destroyed` |
| a thread's call | from `Call` until the step that lets the function proceed; `FuncAt(pc)` is the function called |

A thread running `r_brk` for the loader is not in a call. Trap handling,
`Update` and re-arming are stutters of the abstract spec.

### `HookManager.tla` (hook-manager.cc + the trap handlers)
The composed system.

Variables:

| Variable | Code / environment |
|---|---|
| `hooks`, `target`, `files` | `m_hooks`, each hook's `functionName` and `fileList` |
| `loadMap` | `m_currentLoadMap` |
| `notifierBp` | `m_loadMapNotifier` |
| `destroyed` | `~HookManager` has run |
| `mem` | the code bytes |
| `sigAction`, `oldAction`, `currentBreakpoint` | the disposition and `BreakpointManagerImpl` |
| `th` | each thread: idle, about to execute at `pc`, or inside the handler; its trap flag `step`; the hooks whose callback ran in its current call (`fired`) |
| `loaded`, `loaderLock` | the loader's `link_map` chain (the main binary and the vdso unnamed) and `dl_load_lock`; `Update` diffs `Parse(loaded)` |
| `fault` | how the process died |

The methods are operators on a record `HM` of the manager's data, so that
a method that calls helpers in sequence is a chain (`Update`,
`NotifyDeleted`, `NotifyAdded`, `AddBreakpoint`, `DeleteHookOp`). Every
action writes the whole result back (`Store`).

Actions:

| Action | Code or environment |
|---|---|
| `AddHookBySourceAndFunction` | the method; also covers `AddHookByFunction` |
| `DeleteHook` | the method |
| `Destroy` | `~HookManager` |
| `NormalTrapHandler` | the handler up to the `sigaction` call, with `BreakpointHandler` as the user handler |
| `NormalTrapHandlerResume` | the rest of the handler: `sigaction` saving `oldAction`, then setting the trap flag |
| `ReenableTrapHandler` | the handler |
| `Execute` | the CPU running one instruction: `int3` traps with pc+1; a stepped instruction traps with pc+`InsnLen`; a pc inside an instruction or on an unmapped page faults |
| `Trap` | the kernel delivering SIGTRAP to the disposition installed at that moment |
| `Call` | environment: a thread calls a function |
| `Dlopen`, `Dlclose` | environment: change the link map under the loader lock, then call `r_brk` |

`NormalTrapHandler` is split into two actions so that other threads can
run in between, as they can in the code.

Abstractions:

* Debug information is the constant `Symbols` (`<<module, function,
  offset>>`): what `DebugFile::Lookup` returns. The DWARF modules below
  model how Lookup computes it.
* Addresses are integers, so the pc arithmetic (`pc - 1`, step past
  `InsnLen` bytes) is the code's.
* A hook handle is registered at most once. Reusing a deleted `Hook*` is
  not possible in the code.

### `Reader.tla` (reader.c, reader.h)
The integer decoders as operators. A w-bit value is the set of its set
bit positions, so OR is union and a shift moves positions; TLC never has
to hold a 64-bit number. Where C leaves a shift undefined, the model
takes what the x86 build does: `SHL` masks the count to 5 or 6 bits.

* `ULEBTerm`/`ReadULEB128`: `(byte & ~0x80) << shift` is an `int`
  expression, converted to `uint64_t` by `|=`, which sign-extends; the
  `uint8_t` shift is `ShiftAt`.
* `ReadSLEB128`: the 64-bit accumulation, then `-(1 << shift)` as an `int`.
* `ReadN` (`reader_read_u16/32/64`) in either byte order, and `ReadU`
  (`reader_read_u`), which returns through a `uint32_t`.
* `RefULEB128`, `RefSLEB128`, `RefReadU`: the DWARF definitions, written
  bit by bit and independently of the decoders.

`MCReader.tla` enumerates the inputs: every LEB128 encoding of up to
`MaxLEB` bytes over the continuation bytes {128, 129, 255} and final
bytes {0, 8, 64, 127}, and 8-byte buffers with at most two non-zero bytes
from {1, 128, 255}, read at each length in `Lengths` in both byte orders.

### `Bytes.tla` (reader.c, reader.h, as numbers)
These are the cursor reads shared by `LineProgram` and `Forms`, on a byte
sequence in x86 (little-endian) order. `At` reads 0 past the end. The
other operators are `LE`, `ReadU`, `ULEB`, `SLEB`, `StrEnd` and
`SkipULEBs`. `ReadU8BCD` and `ReadU16BCD` are the packed-BCD reads, with
their bounds checks. Values stay below 2^31, where these agree with the bit-level
decoders that `Reader` checks.

### `Forms.tla` (dwarf2-info.c, attribute values)
`read_constant_form`, `read_ref_form`, `read_address_form`,
`read_string_form`, `skip_form` and `attr_read_entry` are operators of
`(cuh, form, bytes, cursor)`. Each returns the value stored and the
cursor after it; `ok` = FALSE stands for an `assert (false)`.

* `Skip` is `reader_skip`/`reader_skip64`, which do not move the cursor
  when fewer bytes are left than asked.
* `attr_read_entry` first reads a `DW_FORM_indirect` form from the data.
  The name then picks the decoder. Any other name goes to `skip_form`.
* The reference is DWARF 2 §7.5.4:
  * `Class` gives each form's class;
  * `AllowedClasses` gives the classes DWARF 2 allows for each decoded
    name;
  * `Encode` gives the bytes of a value in a form;
  * `Meaning` gives what the stored value should be.

`MCReader.tla` adds the attribute inputs: every name decoded, plus
`DW_AT_byte_size`, which is skipped. Each name is tried in every DWARF 2
form its class allows, direct and indirect, with address sizes 4 and 8.
The values are 0, 3, 130, 70000 and -3, where they fit the form.
Strings and blocks are up to 130 bytes, so block lengths need two LEB128
groups. Eight bytes follow each value, standing for the next attribute.

### `AbbrevTable.tla` (dwarf2-abbrev.c)
One unit's abbreviation table is the sequence `Codes`; an offset is a
declaration's index, the table starts at 1 and its terminating 0 code is
at `Len(Codes)+1`. The cache is `CacheSize` slots `{key, occupied,
value}` with `key` reduced mod `CacheSize` (the `uint8_t`).

* `CacheTryLookup`: hit when the slot's key equals the code; otherwise the
  first occupied slot at most `MaxDistance` below, never slot 0;
  otherwise the table start.
* `CacheTryAdd`, `EmptyCache` (`memset`), `SearchAbbrev` (stops at code
  0 before comparing, so code 0 is never found).
* `DeclRead`: the two-range scan; offset 0 is the `assert (false)`.
* `LinearScan`: the reference.

`MCAbbrevTable.tla` looks codes up in any order (variables `cache` and
`last`), with `CacheSize = 4` and `MaxDistance = 2` standing for 256 and
20. The table `<<1, 2, 5, 6, 3, 9>>` has aliasing keys (1, 5, 9 and 2, 6)
and is out of order, so a cached or backup offset can lie past the code.

### `DebugInfo.tla` (dwarf2-info.c, debug-file.cc; uses AbbrevTable)
`DebugFile::Lookup`: `dwarf2_info_iterate` driving `MyDwIter`, which
drives `MyIterator`.

* A section is a sequence of units; a unit is a sequence of items, each
  the id of an entry or `Null`, a 0 byte.
* An entry's tag and children flag come from `AT!DeclRead` on its code;
  the abbreviation cache is a variable, re-seeded per unit. The
  attribute values (name, `low_pc`, `abstract_origin`, `specification`)
  come from the constant `Catalogue`; a reference is an id.
* Strings are sequences of characters: `"::" + name` is `Sep \o name`,
  `find` is membership in `SubSeqs`.

| Variable | Code |
|---|---|
| `info`, `u`, `pos` | the section, `current_cuh_start`, `reader1`'s offset |
| `phase` | where `dwarf2_info_iterate` is: unit header, entry, zero-byte loop, returned, or failed (`assert` in decl_read, `ub` for a pop of an empty `m_stack`) |
| `cache` | `cuh.abbrev_cu.cache` |
| `mstack` | `MyDwIter::m_stack` |
| `lookup` | `MyIterator`: `m_search`, `m_current`, `m_stack`, `m_matches` |

| Action | Code |
|---|---|
| `StartUnit` | outer loop: `cuh_read`, `cu_initialize` |
| `Entry` | `entry_read`, then `MyDwIter::Entry` with `ReadEntryName` (which itself reads the referenced entries and so updates the cache) and the push on `m_stack` |
| `EndChildren` | one zero byte of the loop after a childless entry: `end_children` |
| `ZerosEnd` | that loop stopping at a non-zero byte or the unit's end |
| `EndUnit` | `end_cuh` (`EndFile`), next unit |
| `Finish` | the section is exhausted; `Lookup` returns |

The spec's resolution is computed from the tree the items encode:
`Depth`, `Encloses` and `ScopeNames` find the namespaces and classes
around an entry, `SpecName` follows `abstract_origin` then
`specification` to any depth, and `RefMatches` lists the `low_pc`s of
matching definitions. It takes the qualified-name format as a parameter:
`CodeQualified` (`::A::B::f`) or `SpecQualified` (`A::B::f`).

`MCDebugInfo.tla` builds every section from the catalogue. Each section
has either one unit whose compile_unit has a forest of depth `MaxDepth`,
or two units of leaves. A forest is one tree, or a tree followed by a
leaf. `f` is defined four ways: directly, through a specification,
through abstract_origin then specification, and through two
abstract_origins.

### `LineProgram.tla` (dwarf2-line.c)

The `.debug_line` decoder, at the byte level. The library does not use
it on the hooking path, and `dwarf2_line_state_for_address` has no
caller, but it is the part of the DWARF code with the most control.

* A header is `[dirs, files]`. `HeaderBytes` is its DWARF encoding from
  `standard_opcode_lengths` on. The fixed fields are CONSTANTS.
  `ParseCuh` is `parse_cuh`'s two `do`/`while` loops, with the extra byte
  each iteration reads. `ReadFileInformation` and `ReadDirectoryName` are
  the two lookups, with their range checks. Index 0 of the directory
  lookup returns `Unwritten`: the loop never runs and the output is not
  written.
* The state machine's variables mirror `dwarf2_line_read_all_rows`:
  * `state` is the caller's struct;
  * `newState` is the local `new_state`;
  * `off` is the reader offset;
  * `found` is the search flag;
  * `rows` is the history of rows handed to the callback;
  * `phase` is `loop`, `out` (the callback stopped the loop) or `done`.
* Each case of the `switch` is one action: `LneEndSequence`,
  `LneSetAddress`, `LneDefineFile`, `LneUnknown`, `Copy`, `AdvancePc`,
  `AdvanceLine`, `SetOperand` (set_file, set_column, set_isa), `NegateStmt`,
  `SetFlag` (basic_block, prologue_end, epilogue_begin), `ConstAddPc`,
  `FixedAdvancePc`, `UnknownStandard` and `Special`. `EndOfProgram` is the
  `while` exit.
  * Each action includes the trailing `*state = new_state` (`Commit`).
  * An APPEND calls `state_for_address_callback` and may leave through
    `goto out` (`AppendRow`).
* The reference is the DWARF 2 format in the same module:
  * `Encode` writes an instruction list as bytes;
  * `Table` is the list of rows the standard defines for it.
  * `MCLineProgram.tla` enumerates every program of up to `MaxInstrs`
    instructions from an alphabet, followed by `end_sequence`, whose rows
    have non-negative line numbers.

## 3. Runs

The hook-registry runs use `MCHookManager.tla`:

* modules `exe` and `lib`, with `lib` loadable at bases 10 and 20;
* functions `f` (in both modules) and `g`;
* two hook handles;
* instruction length 2;
* `r_brk` at address 100.

| Run | cfg | Expect | What it shows |
|---|---|---|---|
| `hooks_single_thread` | `MCHookManager.cfg` | pass | One thread; each function hooked at most once (`DistinctTargets`). See the list below this table. |
| `orphan_trap` | `MCHookManagerOrphan.cfg` | violation | `DeleteHook` (or the destructor) leaves `0xcc` in the code that no hook owns. The spec says unregistering disables the hook's breakpoints. |
| `duplicate_target` | `MCHookManagerDuplicate.cfg` | violation | Hooking an already-hooked function saves `0xcc` as the original byte. |
| `two_threads` | `MCHookManagerThreads.cfg` | violation | Thread 2's `r_brk` trap lands in `ReenableTrapHandler`, installed for thread 1, and resumes inside an instruction. |

In `hooks_single_thread`:

* breakpoints always match the loaded modules (`BreakpointsMatchImage`);
* saved bytes are original (`SavedBytesOriginal`);
* everything is armed when no thread is in a call (`ArmedWhenQuiescent`);
* the only faults are the two reactions to a breakpoint left by
  `DeleteHook` or the destructor (`NoCorruption`);
* `HookRegistryRefined`: the run implements the abstract
  `HookRegistry`. So every hooked call runs the callbacks of all hooks on
  its function before it proceeds.
* every disarmed breakpoint is re-armed (`Rearmed`).

The decoder runs use `MCReader.tla`:

| Run | cfg | Expect | What it shows |
|---|---|---|---|
| `reader_decoders` | `MCReader.cfg` | pass | LEB128 of up to 4 bytes and 1-, 2- and 4-byte reads decode to the reference value. `BCDDecodesReference`: `reader_read_u8bcd`/`u16bcd` decode every 2- and 4-digit packed-BCD value in both byte orders. The code's comments ("probably wrong", "untested") doubt this, and the check settles it: the decoding is right. `AttrReadEntryDecodes`: `attr_read_entry` consumes exactly the encoding of every allowed DWARF 2 form, direct or indirect, stores its meaning, and never asserts (2,610 inputs). `DebugFileFindsSections`: on every table of up to three sections, over two name tables and every `e_shstrndx` kind, the constructor's bounds are the gABI's first section of each name, and the readers' byte order follows `EI_DATA`. `NotifierFollowsDynamicSection`: for executables linked at their load address, `GetLdDebug` returns the `d_ptr` of the first `DT_DEBUG` before `DT_NULL` of the one `PT_DYNAMIC` segment, and `GetChangeNotifierAddress` returns its `r_brk`. The run has 47,170 inputs. |
| `uleb_5byte` | `MCReaderULEB.cfg` | violation | `<<128,128,128,128,8>>` (2^31) decodes as `0xffffffff80000000`: the `int` shift sign-extends. |
| `read_u_addr8` | `MCReaderAddr8.cfg` | violation | An 8-byte `reader_read_u` (a 64-bit address) loses bits 32-63. |

SLEB128 has the same kind of bug. With `MaxLEB = 5`, TLC finds
`<<128,128,128,128,64>>` decoded as -8 instead of -2^34, because
`-(1 << shift)` is an `int` shift. The pass run covers SLEB128 only up to
four bytes, where the decoder is correct.

| Run | cfg | Expect | What it shows |
|---|---|---|---|
| `abbrev_cache` | `MCAbbrevTable.cfg` | pass | For every history of lookups, `dwarf2_abbrev_decl_read` finds what a linear scan finds, and asserts exactly for absent codes (`DeclReadMatchesLinearScan`). The two-range scan is therefore exact for any cached or backup offset, not only when codes come in increasing order. |
| `lookup_walk` | `MCDebugInfo.cfg` | pass | `Lookup ("a", "::A::B::f")` over 18440 sections. Scopes balance at every unit boundary and `m_stack` is never popped empty (`ScopesBalanced`). The matches are exactly the tree's (`LookupMatchesTree`). Both hold with struct scopes (not part of the name), a function with children, a childless namespace, and a unit the filter rejects after or before one it accepts. |
| `empty_children` | `MCDebugInfoEmptyScope.cfg` | violation | A namespace declared with children but with an empty child list (`cu, nsA, 0, 0`): the null entry is read as an entry and `decl_read` asserts. |

Two further DebugInfo configurations are kept as reproductions and are
not in the run list:

* `MCDebugInfoOriginChain.cfg`: a definition named only through two
  `abstract_origin` hops is not matched, because `get_name` makes one hop
  (`LookupMatchesTree` violated).
* `MCDebugInfoSpecScenario.cfg`: the spec's scenario
  `namespace A { namespace B { void f(); } }`, queried as `"A::B::f"`,
  returns nothing, because the code's names start with `::`
  (`LookupMatchesSpecNames` violated).

Both are listed as hazards in `PROJECT.json`.

The line-decoder runs use `MCLineProgram.tla`, with GCC's x86 header:
`line_base` -5, `line_range` 14, `minimum_instruction_length` 1, and
target address 17.

| Run | cfg | Expect | What it shows |
|---|---|---|---|
| `line_decode` | `MCLineProgram.cfg` | pass | The alphabet is every DWARF 2 opcode with operands that move the registers, plus `define_file`, `set_discriminator` and opcode 13, declared by `opcode_base` 14. The header is one of two, with one or two directories and files. Over 76080 states, `parse_cuh` and both lookups agree with the DWARF layout (`HeaderMatchesDWARF`), and `dwarf2_line_read_all_rows` always returns (`ReadAllRowsReturns`, under weak fairness), even when a handler reads past the end. |
| `line_discriminator` | `MCLineProgramDiscriminator.cfg` | violation | With `opcode_base` 13 and the opcodes GCC writes, including `DW_LNE_set_discriminator`, the rows disagree with the table (`RowsFollowTable`). The unknown-extended-opcode skip counts the opcode byte twice. In `set_discriminator 3, advance_line -1, end_sequence`, the `advance_line` opcode is swallowed and its operand 127 becomes special opcode 114. |

Further results from modelling the line decoder:

* With the DWARF 2 opcodes only (`WellFormedOps`, `opcode_base` 13),
  `RowsFollowTable` holds for every program of up to three instructions
  (54,966 states). This was checked with `MCLineProgramDiscriminator.cfg`
  changed to `Alphabet <- WellFormedOps` and `MaxInstrs = 3`. That
  configuration is not one of the runs: it repeats `line_decode`'s
  alphabet without its extensions.
* `ConstAddPc` keeps `adjusted_opcode` a `uint8_t`
  (`(255 - opcode_base) % 256`).
* `StateForAddressFindsRow` states what `dwarf2_line_state_for_address`
  promises: `found` says whether a non-end row has the target address,
  and `*state` is the first such row. It is violated in three ways:
  * `fixed_advance_pc 300, end_sequence, special 242, end_sequence`: the
    search stops at address 300 and never sees the second sequence at 17;
  * `const_add_pc, end_sequence`: the end row at 17 is matched;
  * `*state` is the registers committed before the stopping row, not the
    matched row.
* A header with no include directories makes `parse_cuh` count one
  directory and eat the first file name, so `HeaderMatchesDWARF` fails in
  the initial state.

These results are hazards in `PROJECT.json`. The run list is spent on
the `set_discriminator` desync, which every GCC-built unit can meet.

DWARF bounds:

* The inputs are small byte alphabets chosen to contain the interesting
  bits: 0x80 (continuation), 0x40 (sign), 0x7f and 0xff.
* `MaxLEB = 4` keeps the pass run below the widths at which the bugs
  appear. The violation cfgs go one byte further.
* A four-slot cache with distance 2 exercises hits, aliasing, backup
  slots and both scan ranges with six codes.
* `MaxDepth = 2` nests `A` and `B` around `f`; forests of width two put
  a sibling after a closed scope, which is the case the zero-byte loop
  gets wrong if it is wrong.

Line-decoder bounds:

* Three instructions before `end_sequence` are enough for:
  * a row, then a register change, then a row;
  * two sequences;
  * an extended opcode followed by an instruction it can swallow.
* Operands are below 128, so each LEB128 is one byte. The multi-byte
  decoders are `Reader`'s subject.
* The operands are chosen so that every opcode changes a register the
  comparison sees.
* `special 255 - opcode_base` reaches the largest address step (17), the
  target.

Hook-registry bounds:

* Two bases for the library, so a module can be unloaded and come back
  elsewhere.
* Two hooks and two functions, with `f` in both modules, so one hook owns
  breakpoints in two modules.
* `InsnLen` = 2, so that a pc one byte into an instruction is not the
  start of another.
* Every run reaches modules loaded, hit, unloaded and reloaded, and hooks
  added, deleted and the manager destroyed. The pass run fires every
  action.

Fairness (hook registry): weak fairness on `Execute` and `NormalTrapHandlerResume` for
each thread. A thread that was delivered a signal, or that is inside a
handler, is not descheduled forever by the kernel. Calls, loads and
registrations are the program's choice and are not fair.

Each property of the pass run has a seeded fault next to the definition it
corrupts; `PROJECT.json` (`mutants`) lists them. TLC finds each property
violated when its fault is substituted.

Fairness (line decoder): weak fairness on `Next`.
`dwarf2_line_read_all_rows` is a loop with no blocking call, so it takes
its next step unless the process stops. `ReadAllRowsReturns` is the only
liveness property of the DWARF modules.

The other DWARF modules check invariants only. The walker is sequential and
terminates. `CHECK_DEADLOCK FALSE` in its cfgs allows for that end, and
for the end at a failed assert.

## 4. Not modelled

* Line decoder: a header's fixed fields are read by `Reader`'s decoders,
  and are CONSTANTS here. `reader_read_u64`'s values in `define_file` are
  unused, so only the offsets are modelled. Bytes past a program read
  as 0. Register widths (`uint64_t`) are not modelled: the programs keep
  addresses and lines small and non-negative.
* `dwarf2-utils.c`: printing.
* Inside the walker (`DebugInfo`), an entry's attribute values are given
  by the catalogue. `Forms` checks the decoders separately, for DWARF 2
  forms only. The DWARF 3/4 forms that `skip_form` skips as zero bytes,
  and a `high_pc` in a data form, are listed as hazards.
  `dwarf2_abbrev_attr_read` is not modelled.
* The reader's bounds. `reader_read_u8` and `reader_read_uleb128` in
  `reader.h` check nothing. The 16/32/64-bit reads return all ones
  without moving when short, and that case is not modelled: the `Forms`
  inputs keep every read in bounds. `Skip` models the no-move case of
  `reader_skip`.
* `DebugFile`'s `open`, `fstat` and `mmap`. Their failure leaves the
  members uninitialized, and a `MAP_FAILED` result is used as data. The
  mapping is never unmapped. ELF extended section numbering
  (`e_shnum` 0) is not enumerated. Each of these is listed as a hazard:
  showing any of them needs a violation run, and the project is at its
  run cap. `ReadName` (the bytes of `.debug_str`) is not modelled. It
  reads one byte past the NUL, which is harmless while `.debug_str` is
  not the last thing in the file.
* The empty-`m_stack` pop after trailing zeros is modelled (`ub`), but the
  well-formed sections of the pass run never reach it.
* The `mprotect` failure paths of `Write`, which return 0 and are
  indistinguishable from success (listed as a hazard).
* libc locks taken inside the signal handler.
* `GetLinkMap`'s `dlopen`/`dlinfo`. In `HookManager`, `r_brk` is the
  constant `Notifier`. `GetLdDebug` itself is modelled in `LoadMap` and
  checked in `reader_decoders`, but only for executables linked at their
  load address. Two hazards are listed:
  * an unrelocated `p_vaddr` in position-independent executables;
  * the unchecked null `r_debug`.
* The loader is trusted to serialize link-map changes (`dl_load_lock`).

## 5. Plan

Done:

1. The hook registry, with the trap handlers, threads and the loader.
2. The integer decoders.
3. The abbreviation cache.
4. The DWARF walker with the Lookup visitor.
5. The line-number decoder, byte by byte, against a DWARF 2 reference.
6. The attribute-form decoders of `.debug_info` (`Forms`).
7. `LoadMap::Parse`, and the abstract `HookRegistry`, which `HookManager`
   refines in the single-thread run.
8. `DebugFile`'s ELF section lookup, and `GetLdDebug`'s auxv and
   dynamic-section walk.

Next:

9. Connect `DebugInfo` to `HookManager`: today `Symbols` is a constant.
   The goal is `Symbols` computed by `Lookup` on a per-module catalogue.
10. Model `DebugFile` sections of malformed units: trailing zeros and
   truncated units.
