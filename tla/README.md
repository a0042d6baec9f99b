# A TLA+ model of riscv-hyp-tests-nhv5

The repository is a bare-metal test program for a RISC-V hart. A small harness
(`rvh_test.c`, `handlers.S`) moves test code between privilege levels and records the
exceptions the tests provoke; a few hundred test functions program PMP entries and page tables, use memory, and
compare what the handlers recorded with what they expect; `compile_elf.py` builds one ELF per
test. This directory models the parts that keep state of their own, checks them with TLC and
proves the most important facts with TLAPS.

## Inventory

| Component | State | Operations | What makes it hard | What must hold |
| - | - | - | - | - |
| Privilege switching (`rvh_test.c:9-164`) | `curr_priv`, `real_priv`, `ecall_args`, the C stack, the hart's mode | `goto_priv`, `goto_priv_u_to_m_direct`, `lower_priv`, `ecall` | recursion through traps: a switch up is an ecall whose handler calls `goto_priv` again; interrupts in between | a switch ends at its level; `curr_priv`, `real_priv` and the hart agree |
| Trap handlers (`handlers.S`, `rvh_test.c:230-454`) | `excpt`, `mstatus`/`sstatus` return fields, `medeleg` | `mhandler`, `hshandler`, `return_from_exception`, `_return` | which handler runs depends on delegation; the return level is a global the nested code changes | an announced fault is recorded once, and the test goes on where it was |
| Test macros, `reset_state`, `main` (`rvh_test.h:108-199`, `rvh_test.c:487-550`, `main.c`) | `test_status`, the running test, the hart's `mstatus`, PMP, `satp`, TLB | `TEST_*`, `reset_state`, the loop | what a test leaves behind meets the next one | a verdict depends on the test, not on its predecessor; `reset_state` always gets back |
| Static page tables (`page_tables.c`) | `hspt` and the other tables | `hspt_init`, `hspt_u_mode_allow`, setups of broken entries | edits of live tables, visible after a fence only | an access has the outcome the tables say |
| Access fault tests (`access_fault.c`) | the PMP and the PMA | 108 tests | locks, MPRV, stale translations | each passes on a hart that obeys the specification |
| Page fault tests (`page_fault.c`) | `hspt`, `satp`, `mstatus`, `medeleg` | 80 tests | flags, superpages, ASIDs, fences, a broken root table | each passes, whatever ran before |
| Build script (`compile_elf.py`, `Makefile`) | `test_register.c`, its backup, the build directory, the output | extract, modify, make, copy, restore | failures, interruption, mtimes | an ELF runs the test it is named after; the source comes back |
| Exception tests (`illegal_except.c`, `ebreak_tests.c`, `addr_unaligned.c`, `priv_change.c`, `mix_instruction.c`) | `mstatus`, `medeleg`, `hspt` | 35 tests | what is legal follows from level and CSRs; delegating everything delegates the harness' own ecalls | each passes; the next `reset_state` gets back |
| CSR and counter tests (`Zicntr_test.c`, `stateen_test.c`, `csr_tests.c`) | `mcounteren`, `scounteren`, `mstateen0`, `menvcfg`, `senvcfg` | 69 tests | no one resets these CSRs | each passes whatever the CSRs held before |
| Svpbmt, sxpm, translation tests | page tables, `mstatus` | tests | as page faults | as page faults |
| Trap vector tests (`xtvec_test.c`, `xtvec_test_asm.S`) | `trap`, `double_trap_enabled`, `mtvec`/`stvec`, the tables' saved registers, NMIE, MDT, SDT | 38 tests, the C entries of the tables | a handler traps itself, by what a global armed; a third kind of return, `mnret` | the interrupted registers come back at every depth; a test gets to its end |
| Interrupt tests (`external_interrupt.c`, `wfi_tests.c`) | pending, enable and delegation bits, `excpt` | 19 tests | an interrupt that never comes, or comes inside a switch | each `wfi` ends; no interrupt is inherited |
| Dynamic page tables (`dynamic_page_tables.c`) | page pool, one table per mode | map, unmap, protect, switch | reuse between modes; not in the default build | a mapping is what was asked for |
| Platforms (`platform/*`) | `putchar`'s buffer, `tohost`/`fromhost`, the UARTs' FIFOs | `putchar`, `syscall`, `_write`, `putc`, `exit` | unbounded waits; a handler that prints inside a print | output arrives once and in order, the verdict is the exit code |
| Vendored encodings | none | - | - | - |

Components meet in four places: a test calls the harness, which calls itself through traps; the
tests and `reset_state` share the hart's registers; handlers and tests print through one buffer; `compile_elf.py`
and the developer's own `make` share `test_register.c` and the build directory. `PROJECT.json` lists every component with
its status and every hazard at its line.

## Modules

```
PrivSwitch ── PrivSwitchInv ── PrivSwitchProofs ── PrivSwitchStops ─┐
                    ├── MCPrivSwitch                                ├ PrivSwitchServiceProofs
                    └── PrivSwitchService ──────────────────────────┘
                           │    └ MCPrivSwitchService
                           └ INSTANCE HarnessService

Places ── Paging ─┐
   ├───── Pmp ────┼ TestProgram ── TestProgramProofs
   │      Isa ────┘       └ MCTests ── INSTANCE of each below
   │       │
   └───────┴ TestSteps ── AccessFault, PageFault, CsrTests, ExceptionTests, TranslationTests

CompileElf ── CompileElfProofs

InterruptTests ── INSTANCE in MCInterrupts ── Interrupts ── InterruptsProofs

TrapVectorTests ── INSTANCE in MCTrapVectors ── TrapVectors ── TrapVectorsProofs

Printing ┬ Console ┬ Platforms ┬ MCPlatforms
         └ Uart ───┘           └ PlatformsProofs          each INSTANCE OutputStream
```

**PrivSwitch** is the harness statement by statement where it matters. `stack` is the C stack
of the harness' own activation records (`goto_priv`, the two handlers, `reset_state`), each with the
place it is at; a trap pushes a handler's record, so that the recursion of `goto_priv` through an ecall, a handler and
`goto_priv` again is explicit. `curr`, `real`, `arg`, `excpt` and `medeleg` are
`curr_priv`, `real_priv`, `ecall_args[1]`, `excpt` and the CSR; `mode` and `spp` are the hart's.
Each branch of `goto_priv` and of the handlers is an action (`GotoUserToUser`, `GotoEcall`,
`GotoLower`, `HandlerServesGoto`, ...); `GotoLower` and `GotoLowered` are separate because
`lower_priv` assigns `curr_priv` only after its `mret` or `sret`. The test is the environment:
it may switch to any level of `Switches`, announce a fault, cause it, execute an ecall of its
own, delegate, assert, or end, in any order; `priv_change_7` switches at random, so any order is what
the program does. Constants select the environment: which switches, delegations, fault causes, interrupts, and at
which points interrupts come (`IrqPoints`).

Choices in it: the hart has no H extension, so that VS and VU run in its S and U modes. This version of the harness is written for one: the
switches and the handlers' records no longer access the CSRs of H. What it still writes of H is MPV, which `return_from_exception` sets for VS and VU in `mstatus`
(`rvh_test.c:240`, `279`; read-only without H) and `hstatus` behind a double trap in HS (`252-255`; in TrapVectors); the tests of `external_interrupt.c` and
`xtvec_test.c` that write its CSRs are modelled as such, in Interrupts and TrapVectors. The program counters a trap saves are the frame below: an ecall's handler
resumes its `goto` behind the ecall. The entry stub and the handler's first assignment, to
`real_priv`, are one step with the trap. `on_going` only chooses log lines. An ERROR ends the
program: `status` says with which. A privileged instruction executed below its level is
the status "harness illegal instruction". An interrupt is masked in M when delegated and in a handler of its own
level. `armed` is a history variable: a fault is announced and not yet seen. `MaxDepth` stands for the 1 MB stack.

**HarnessService** is what the harness promises a test: every call, fault or interrupt is one
step, with the exact exception record it leaves. **PrivSwitchService** gives the refinement mapping: while harness
records are on the stack the test sees the state from before its call. **PrivSwitchInv** holds the inductive invariants of
PrivSwitch and the conditions they need, so that the runs can check them; `CalledInv`, in PrivSwitchService, is that of the refinement.

**Places** is the address space: places in their order, for the code's address constants, the harness'
code, tables and stacks, and the test pages' virtual and physical addresses. **Pmp** is the two protection
units, PMP and PMA (external: the hart's rules for TOR entries, locks and the address below a locked range;
what a PMA entry means is read from the values the tests write and the outcomes they expect), with `ResetPmp`, the two writes of `reset_state`.
**Paging** is `hspt` as `page_tables.c` builds and edits it: three pointers of the walk that a test may
break, four superpages, and the last table, whose edits are always of all entries, as flags added
and removed; the Sv48 walk; and the TLB. The TLB keeps a test page's or a superpage's translation until a fence that
covers its page and ASID, which is what the tests assume of the hart when they expect a stale
translation to be used; the harness' own pages are walked anew each time.
**TestProgram** runs `main`: `reset_state`, then a test, and so on; a test is a sequence of steps, and the actions interpret
them: a switch (one step, as HarnessService promises, provided each handler on its way can
fetch and use its stack), writes of the units, `mstatus`, `medeleg` and `satp`, `hspt_init` and the edits of the
tables, fences, announced and unannounced accesses, assertions, `TEST_END`, and falling off a test that has none.
An access goes by MPRV, SUM and MXR, the TLB or a walk, and both units, and so do the walk's own reads; a step that
touches the harness' data loses the machine (`status = "lost"`) when that data is out of reach.
An instruction without an effect of its own is a step too, legal or not by the level, TVM, TW and TSR, and the
enabling bits (`enables`): those of `mcounteren`, `scounteren`, `mstateen0`, `menvcfg` and `senvcfg`, which
are unspecified at power-on, so that `Init` has two values, and which `reset_state` leaves alone.
**Isa** names the levels, kinds of access, causes, bits and instructions.
**TestSteps** is the vocabulary of the tests. **AccessFault** and **PageFault** are the tests of `access_fault.c`
and `page_fault.c` in it, a definition per group of neighbouring tests; **ExceptionTests** those of `illegal_except.c`, `ebreak_tests.c`,
`addr_unaligned.c`, `priv_change.c` and `mix_instruction.c`; **CsrTests** those of `Zicntr_test.c`, `stateen_test.c` and of
`csr_tests.c` as far as they say what a level may do; **TranslationTests** the fence tests of `translation_tests.c`. **CompileElf** is the script, `make`'s rebuild rules as mtimes on a
logical clock, and the developer who edits and makes by hand. Of the build directory it keeps `test_register.o`, its `.d`, the ELF, whether the `.d` of some
other file is out of date, and PREV_LOG_LEVEL. `make` writes the level while it parses, remakes a `.d` that is out of date, and then starts over; the
removal of the objects at a new level is for the first parsing only (`Objects`). A failing `make` may leave any of what it had got to (`Failures`).

**Interrupts** is the harness as the interrupt tests see it: the bits of `mstatus`, `mie`, `mip`, `mideleg` and
`medeleg` by name, what the hart takes before the next instruction, the two handlers, which clear what they
handled as far as `mip` or `sip` lets them, `wfi` with TW, and a controller that raises and lowers the external
pins at any time. `lower_priv` is split at its `mstatus.MPP`, `mepc` and `mret`, and its two stores to `real_priv`
and `curr_priv` may fall anywhere among them, since its `asm` clobbers no memory (`lowering`). A switch is interruptible outside `lower_priv` too: `going` is a
`goto_priv` that has found its target in `real_priv` and not yet assigned `curr_priv`, or has the second ecall of HU to M before it; `handling` is an
`hshandler` that is entered, has set `real_priv`, has looked for an ecall's level in it, is about to record, or is about to leave. An M interrupt there returns to
`hshandler` at `curr_priv`'s level, in the middle of the handler. `mhandler` runs with `mstatus.MIE` clear and is one step, and so is the record a handler leaves.
**InterruptTests** is the nineteen tests, each with all its parts.

**TrapVectors** is what PrivSwitch leaves out of a trap: the registers. A frame is a trap being handled: the words
`SAVE_CONTEXT` stored, the phase its C code has reached, and, as history, the registers it interrupted. The entries of the
tables raise a second trap by the global `trap`, so that frames nest; `return_from_exception` picks `mepc`, `sepc` or, after a
double trap, `mnepc`. The hart has Smrnmi and Smdbltrp, Ssdbltrp or not (`dte`), and H or not (`hyp`): without H the test's writes of `hideleg` and
`hedeleg`, and the access to `hstatus` that `return_from_exception` makes in HS after a double trap, are illegal instructions. A `goto_priv` down is two steps,
`goto`, up to the `mret` of `lower_priv`, and `arrive`, the assignment to `curr_priv`, and an interrupt may come between them, as one does in `m_double_trap_14`. NMIE is set when the program starts and cannot
be cleared, and the RNMI handler is the table's base, as the tests assume. Nothing is said of what
the C code does to registers but that it may use all of them. A test may access any CSR at any level, where the CSR of a mode above is an
illegal instruction, and `reset_state` gets to M by ecalls of its own. `ScriptsAssumption`: `main` resets behind every test, and
a test that sets MDT has put its table in `mtvec` before it traps, as all do. `GotoAssumption`: a test goes down from M once at most. **TrapVectorTests** is 36 of the 38 tests and `rnnmi_handler`.
A jump of the tables is two bytes, so that the vectored entry of cause 1 is the third one and that of cause 9 lies behind the table.

**Printing** is what the platforms share: a text, an exit code, what was printed and what was shown. **Console** is Spike's:
`putchar` from the load of `buflen` to its reset, `syscall`'s wait, the cells, and the host that takes a request and answers; a
trap may come at the points a run names, and its handler prints into the same buffer. **Uart** is `putc` or `_write` and
`exit` of NEMU, XiangShan, QEMU and the FPGA over a FIFO. **OutputStream** is what both promise: each character once and in order,
each full line, and the end behind the last. **Platforms** puts one of them under the program.

## Runs

| Run | What it asks | Result |
| - | - | - |
| `switch_main` | With the supported switches, faults next to their announcement and no interrupts: no ERROR, `real_priv` is the hart's level even inside handlers, every switch and every reset ends at its level | holds, 6.6k states |
| `switch_service` | The same environment with interrupts in test code and late faults: the harness refines HarnessService; only "untested exception!" ever stops it; the inductive invariant `CallsInv` | holds, 58k states |
| `switch_any` | All switches, delegations, interrupt points, bare ecalls and lost return values: types, and two ERRORs of `lower_priv` that are dead code | holds, 384k states |
| `window` | An interrupt inside `goto_priv` leaves test code where it thinks it is | **violated**: between `mret` and `curr_priv = priv` |
| `tests_any_two` | Each modelled test of the eleven files, first and after any other, the enabling bits clear or set at power-on: when the PMA, the locks and `pmpcfg2` are as at power-on it passes all its assertions, unless it asserts before `TEST_SETUP_EXCEPT`; the machine is lost only by a test that found it otherwise, in HU with the S-mode handler's pages made user pages, with the root table broken, below M with the ecalls of HS delegated, or by an instruction whose announcement a switch has used up | holds, 786k states |
| `tests_any_program` | After any two programs of up to three steps out of twelve, `reset_state` opens all memory unless entry 0 is locked or pinned | holds, 621k states |
| `compile_elf` | Whatever fails, is interrupted, edited or made by hand, at any level: does an ELF run the test it is named after, does a one-test run restore the source, does a make by hand build the source as it stands? | holds, 2.6M states; of makes by hand but for two ways behind a restored mtime |
| `compile_restore` | The script restores the source | **violated** with two tests: the backup is overwritten |
| `platforms` | Does printing work on all platforms: with a VERBOSE trap between characters or an ERROR at any point of `putchar` on Spike, with every exit code elsewhere? | holds: a stream and its end; an ERROR inside `putchar` loses no more than its own line and the character under way; a store past `buf` needs a trap at a full buffer |
| `interrupts` | The interrupt tests on four harts, and all programs of three pieces that announce, enable, raise, delegate, switch and wait, on a fifth | holds, 81k states: the `wfi` tests pass after any other; no test meets an interrupt it did not enable; `external_interrupt.c` cannot pass without the H extension; an interrupt that was handled comes again in three ways; the level is lost for good in `lower_priv` only; the programs of tests that leave an enabled interrupt pending, or whose `wfi` is refused, end on a hart whose `wfi` waits |
| `trap_vectors` | Three tests of `xtvec_test.c` in a row, with and without Ssdbltrp and H: do the registers come back, is the test at the level recorded for it, and do the tests come back? | holds, 38.8k states, but for eleven named tests, a twelfth without H, and for the level of one |
| `trap_context` | "SAVE_CONTEXT": a trap gives all registers back | **violated**: a table loses x30 and x31 |

The violated ones quote the comment, test or document they contradict in `PROJECT.json`.

What the models also show, without a run of its own. A switch by ecall between TEST_SETUP_EXCEPT and its fault uses up the
announcement, so that the fault ends the program (`rvh_test.c:341`): `mix_instruction_1` and `2` end in
an ERROR at their `wfi` (`mix_instruction.c:42`), whatever ran before, which `LossExplained` names, and `switch_main`, which asks for `NeverStops`, sets
`SetupAcrossGoto = FALSE`. A test that delegates everything (`medeleg = -1`, `addr_unaligned.c:142`, `ebreak_tests.c:54`) delegates the
S-mode ecall, and `goto_priv(PRIV_M)` from HS then calls itself until the stack is used up (`rvh_test.c:146`): `Respected` excludes it, and
`addr_unaligned_2` and `ebreak_tests_2`, which end below M, lose the machine to the next `reset_state`.
Locked PMP entries and `pmpcfg2` outlive `reset_state`, whatever the comment at `rvh_test.c:534` says: `CleanTestPasses` speaks of tests that
find them as at power-on. `copy2` restores the old mtime with the source (`compile_elf.py:108`), so that a make by hand at
the same LOG_LEVEL afterwards keeps the last ELF. At another level the objects are removed, unless `make` has to remake the `.d` of another file: it then starts over, reads
the level it has just written as the previous one (`Makefile:26-33`, `77-96`), and links the stale object. `HandMakesBuildTheSource` has these two
exceptions and no other. An M interrupt inside `hshandler` returns to the test's level in the middle of the handler (`rvh_test.c:351-353`). In U mode the handler's next access to a CSR of S, or its
`sret`, is an illegal instruction whose announcement is gone, and the program ends; between its entry and the request of an ecall the handler's own `goto_priv` ecalls again
and brings the level back; and a handler of a VS test leaves through no case of `return_from_exception`, by an `sret` of what the trap had saved. `m_double_trap_14` is interrupted between the `mret` of `goto_priv(PRIV_HS)` and the assignment to
`curr_priv` (`xtvec_test.c:706`), and its assertions are evaluated in M, with HS recorded: `KnowsItsLevel` names it.
`wfi_exception_tests_2` and `14` clear the enable bit of the interrupt they pend, so that a hart whose `wfi` waits never comes back: `WfiEnds` is the
others. On XiangShan a byte with bit 7 set ends the simulation, and the Chinese texts begin with 0xe8 (`platform/xiangshan/syscalls.c:31`):
`VerdictIsTheExitCode` has the exception. Of the trap vector tests, `s_double_trap_2` compares a bit of weight 2 with 1, `m_double_trap_122`, `s_double_trap_5` and `7`
pend through `sip` what is not delegated, and `s_double_trap_1` needs SDT; the eleven of `MayNotComeBack` do not announce their double trap by
`double_trap_enabled`, ruin `mepc`, land inside the first stub, or have `hshandler` read `mnstatus` or `mhandler` return to U after
interrupting `hshandler`; without H `s_double_trap_12` ends at its write of `hideleg`, which it has not announced (`xtvec_test.c:1106`).

### Bounds

`MaxDepth` is 6 where the supported environment is checked: the deepest nesting of supported switches, between two user levels from VU,
has six records (`MaxNesting`, proved), so that "stack exhausted" is out of reach there, with nothing to spare. `window` has 8, and `switch_any` 9,
where the bound also cuts off recursion that does not end. Faults are three representatives:
an illegal instruction (of no delegation of its own), a data fault, and an instruction fault, the three the handlers tell
apart. Interrupts are one of M and one of S level. PMP and PMA: 16 entries for the
tests, which use entries 0 to 3 and 12 to 15; three entries for arbitrary programs, one below, one at and one
above the interesting lock. Two tests in a row show what a test leaves to its successor; a third
would start after another `reset_state` from a state that already occurs after one. Of the enabling bits a test
writes those it depends on; one that forgot to would pass from one of the two initial values only. Programs of three steps reach every
combination of an address, a permission and a lock on one entry. CompileElf: two tests are enough for a second backup, and six
writes (`MaxClock` = 7) for a run of the script of two tests, which takes four, with an edit and a make by hand before or after it.
Platforms: a line buffer of three characters and texts of up to five (up to three with bit-7 bytes) fill it, overfill it by two and end a line at every place;
a FIFO of two; the exit codes of `main`, ERROR, `abort` and `handle_trap`; one trap in a run, since a second would start from a state the first leaves.
Interrupts: every wfi test and every external test before every other, and programs of up to three of eight pieces, which is enough to enable, raise and
delegate, or to raise inside a switch and come back. TrapVectors: a third test shows that what the second inherited from
the first (`trap`, `double_trap_enabled`) is used up by then.

### Fairness

The hart keeps executing instructions: `switch_main` assumes weak fairness of the harness' own steps (`FairSpec`), `interrupts` of the program's
(`WF_ivars(Program)`), `trap_vectors`, where nothing else acts, of `Next`. Nothing is assumed of a test in
`switch_main`, which may stop calling, nor of the interrupt controller. Interrupts are absent in `switch_main`: an untested
interrupt legitimately ends the program. `platforms` assumes that the program executes, that Spike's host, which polls, takes a request and
gives its answer when `fromhost` is clear, and that a UART sends on; no trap has to come. `PrivSwitchService` refines a
specification without fairness; `OutputStream` promises that a full line is shown, from these.

## Proofs

For every value of the constants that satisfies the named assumptions.

**Switching.** Unconditional are `TypeCorrect`, `CallsNest`, `LowerErrorsDead` and `EcallsAsk`. The rest needs conditions on the test, each a named definition:
`Respected` (supported switches, delegations with the U-mode ecall and without the S-mode one, interrupts only in test code, bare
ecalls only in M), `SoundBuild` (six frames of room, and a build that does not lose a0 behind the handlers' missing `return`),
`Undisturbed` (no interrupts, and no switch between TEST_SETUP_EXCEPT and its fault).

* `PrivSwitchProofs!Invariance`, `TestLevel`, `RealLevel`: under `Respected` test code runs at the level `curr_priv` and
  `real_priv` name, and `real_priv` is the hart's level throughout. These are not inductive: what a handler does on return depends on the record
  under it. `IInv` adds `Shape`, which record may wait for which (`Link`), for every adjacent pair of the stack, and `TopInv`, what
  the running record may assume about `curr`, `real` and `arg`. `Shape` is what remains when a record returns; `TopInv` is
  re-established for the record below from `Link`.
* `PrivSwitchProofs!CallsNest`, and from it `LowerErrorsDead` and `EcallsAsk`: for all switches, delegations, interrupts and nesting,
  two errors of `lower_priv` are dead and no ecall asks for a user level. Both come down to `curr_priv` being M where the detour between
  user levels goes on; `CourseInv` says which frame calls which and what each finds when the one above it returns. A handler of a fault or an
  interrupt (`Quiet`) calls nothing and leaves `curr_priv` and `ecall_args` alone, so that it may come on top of any of them.
* `PrivSwitchStops!CallsInvariance`: `CallsInv`, that is `IInv` and `NestInv`. `RoomInv` bounds the nesting: `Above(t)` is how many
  frames a `goto_priv(t)` may still put above its own at the levels it finds, and every frame has that room below six;
  `BareInv` is about the one handler that may switch without a switch under it, and `AddressInv` about the return address of a fetch.
  `UntestedOnly` follows under `SoundBuild`: of all ways to stop only "untested exception!" is left.
* `NoStop`: with all three conditions the program never stops. What the announcements need of it is `AnnouncedInv`: one stands until the
  exception it was made for, and no exception comes without one.
* `SwitchesSwitch`: `curr_priv` changes only under a `goto_priv` or `reset_state` at the bottom of the stack.
* `PrivSwitchServiceProofs!ServiceImplemented`: the refinement of HarnessService. `CalledInv` says how far the call at the bottom of
  the stack has come in terms of what the test left in `before`: untouched until the first trap, after an ecall the record and request that
  the handler above it will leave, `Outcome` once a switch is done. A switch that waits keeps its claim whatever runs above
  it (`SwitchWaits`), one that runs goes on or is done (`SwitchRuns`), and each kind of call has a lemma for its step;
  a call that returns to the test then is the service's step, every other step a stutter.

**Tests.** `TestProgramProofs!TestTypeCorrect`, `ResetOpens`: types, tables and TLB included, for every list of well-formed tests and
every number of entries; after `reset_state` all memory is open to every mode unless entry 0 is locked or pinned by a locked entry above
it. Entry 0 then covers all addresses and, being the first, decides.

**Build script.** `CompileElfProofs!ElfsRunTheirTests`: for any number of tests, the ELF copied runs the test it is named after. The
invariant (`Dated`) relates the mtimes: whenever the script is about to make, the source is newer than every object it can find, and
what make then builds is the source's. `CompileTypeCorrect` and `OneTestRestores`: types, and a run for one test puts the registrations
back, from what the backup holds at each phase. `HandMakesBuild`: a make by hand builds the source as it stands but for the two
ways of `HandMakesBuildTheSource`. Its invariant is `Linked` (an ELF not older than the object is the object's) and `Hidden` (an object not older than the
source is the source's, or `restore_source` has put the source back behind it), kept by every outcome of a failing `make` too.

**Trap vectors.** `TrapVectorsProofs!ContextsComeBack`: for any tests, any nesting and any misbehaviour between, a return gives back every
register of what the trap interrupted, all but x30 and x31 through a table. `StackInv` says that each frame's words are its registers' and
that sp is 33 words lower per frame, `VecInv` that only a table's stub uses the wrong slot.
`VectorTypes`, under `ScriptsAssumption` and `GotoAssumption`: types, and that the C code of a handler runs in the handler's mode. The latter is not inductive: a return
takes its mode from `curr_priv`, `mnret` or `sret`, and what it returns to must be of that mode. `TrapsNest` is the invariant
this needs, `TInv`: `Nests` (only an RNMI, and only one, comes on top of an M handler, which came through the table; so at most two M
frames lie above any number in HS), `Modes` (MDT and NMIE say which C code runs), `InTest` and `Idle` (each return address in the test is an instruction of it;
between two tests the hart is in M and both levels say so) and `Armed` (before its `mtvec` a test that sets MDT has not trapped: the stubs of `handlers.S` would return
by `mret` from an RNMI). None of it says at which level the test itself is, which an interrupt inside `goto_priv` changes: that is `KnowsItsLevel`, checked by TLC for
the 36 tests. TLC found `TInv` to hold of all 36 tests in threes, and of 2-step programs behind four prefixes, before it was proved.

**Interrupts.** `InterruptsProofs!Types`, `OwnInterrupts`, `ComesAgain`, `LevelKept`, for every set of harts and tests in
which TEST_END's switch to M comes before its reset (`EndsInM`) and levels below M are left through M (`ThroughM`), as in all nineteen. The
invariant is `IntsInv`: `MieOwn` (an enabled interrupt was enabled by the running test), `HeldOff` (what was handled last is cleared, or S mode
takes none, unless `mhandler` has interrupted `hshandler`), `FrameInv` (from where `hshandler` was entered, and how far it is), `LevelsInv` (where no interrupt can spoil the
levels) and `OnCourse` (what holds until one has come inside `lower_priv`: of the test, of `lower_priv`, and of `hshandler`, in which one at level M may change the mode).
`LevelLostInSwitchOnly` alone is not inductive: `slipped` has to be related to each place of `lower_priv`, of the rest of `goto_priv` and of `hshandler`.

**Platforms.** `PlatformsProofs!Types`, `NoStale`, `ErrorKeeps`, `OverrunIsATrap`, `Verdict` for every text, buffer, FIFO and trap, given
that the text of ERROR ends its line and that no exit code but 0 is 0 in its lower seven bits. The invariant of Spike's console
is `Shape` (which calls of `putchar` run, and where), `Cells` (what `buf` and `buflen` hold), `Owed` (each call that waits has one request unread,
being answered or answered at most), `RoomLeft`, `StreamInv` (printed is shown, then the request, then the buffer, in order, unless a trap came inside a
character), `KeptInv` (nothing from before an ERROR is lost) and `Ending`; of the UARTs `FifoInv`. `StreamSafety` and `UartSafety`: the initial states
and steps of both are those of OutputStream.

Only model-checked: liveness (`SwitchArrives`, `ResetArrives`, `ExitArrives`, `AllIsShown`, `WfiEnds`, `TestsComeBack`, and the fairness of
`StreamService` and `UartService`), which the prover cannot do; the verdicts and levels of the tests (`CleanTestPasses`, `LossExplained`, `WfiTestsPass`,
`ExternalTestsFail`, `KnowsItsLevel`), which are facts about concrete scripts that TLC computes.

## Not modelled

`vshandler` (its vector is never installed), the formatting of log output, the consoles' input functions, which nothing calls, and the setup of
the UARTs. `stvec_test_2` and `s_double_trap_15`, which trap with the tables of two-stage translation. In TestProgram: the Sv39 build, guest stages, data caches, the vector state
`reset_state` also touches; `prefetch_r` has no architectural effect. Of `access_fault.c`: `store_access_fault_21` and
`amo_access_fault_21`, whose PMA region begins in the middle of `hspt[4]` and depends on where the linker puts it,
and `pmp_granularity_test` and `pma_csr_test`, which only read CSRs back. Transcribed but not run:
`instruction_access_fault_17` and `18`, whose fetch does not fault, so that the program does not come back, as the source says of
them; and `amo_page_fault_19`, whose `lr` and `sc` at 512 GB succeed only if memory without the
atomic attribute takes them, which the tests of `access_fault.c` deny.
Of the exception tests: `illegal_except_2` (what a hart does on a WLRL value is its designers' choice), `8` (a fence that is illegal because `satp` is 0, which
no privilege rule says) and `16` (`mnret`, optional); `priv_change_7`, random, whose switches are those of PrivSwitch, and the drafts; what
`mix_instruction.c` does behind its `wfi`, which no run reaches. `stateen_C_test_5` expects a custom CSR to exist.
Of `csr_tests.c`: `pmp_test_2` to `5`, the other `mstatus` tests, `hedeleg`, `mhpmevent`, `tselect` and the triggers, which read back values of
CSRs, that the model does not keep, or need the hypervisor; `random_instruction_tests` and the draft. `two_stage_translation_1`, `sxpm_test.c`,
`svpbmt_test.c` and `tinst_tests.c` need guest stages, pointer masking and memory types. The effects of a legal `sret` or `wfi`: no test here reaches
one that matters. Vendored headers: no state.

## Plan

1. (done) PrivSwitch with its invariant, HarnessService, the refinement, the proofs.
2. (done) Pmp, TestProgram, AccessFault; types and `ResetOpensMemory` proved.
3. (done) CompileElf and its proof.
4. (done) Paging with flags, superpages and ASIDs, PageFault, the PMA tests; ExceptionTests, CsrTests, TranslationTests. Left of it:
   `sxpm_test.c` and `svpbmt_test.c` as scripts, which need guest stages, pointer masking and memory types.
5. Dynamic page tables, which the default build leaves out: allocation, mapping, mode switches, against an abstract map; TEST_ASSERT with `||`.
6. (done) TrapVectors and the proofs of `ContextComesBack` and of its types.
7. (done) Interrupts with the tests.
8. (done) Platforms: the tohost protocol and the consoles as an output stream.
9. (done) Proofs: the refinement of HarnessService, the ways to stop, the invariants of Interrupts, Console and Uart, the steps of OutputStream, how traps nest in TrapVectors.
