# NEMU: a TLA+ model of the emulator and the tools around it

This directory holds the formal models of this repository: TLA+ modules, the
TLC configurations that model-check them on small instances, and TLAPS proofs
that hold for every instance. Run from this directory

    tlc -config MCBlockCache.cfg MCBlockCache      # one run
    tlapm MonitorProofs.tla                        # one proof module

`PROJECT.json` is the machine-readable index: components, runs, the source lines
behind each definition, the variants each property is known to catch, hazards
and theorems.

## 1. The system

The repository is a performance study of NEMU, an RV32IM emulator. Its own code is

| part | source | state it keeps | operations |
|---|---|---|---|
| interpreter with basic-block cache | `nemu/src/isa/riscv32` | `cpu` (33 registers, pc, CSRs), `basicblock_cache[1024]`, `g_nr_guest_inst`, the locals `basicblock`, `p`, `next_pc` | `isa_exec_once`, `basicblock_cache_refill`, `decode`, one handler per opcode, `block_dispatch` |
| physical memory | `nemu/src/memory` | `pmem` | `paddr_read`, `paddr_write`, `out_of_bound` |
| monitor | `nemu/src/monitor`, `nemu/src/cpu/cpu-exec.c`, `nemu/src/utils/state.c` | `nemu_state`, batch flag | `sdb_mainloop` and its commands, `cpu_exec`, `execute`, `is_exit_status_bad` |
| watchpoints, expressions | `nemu/src/monitor/sdb` | two linked lists over 32 nodes; the token array | `w`, `d`, `WP_checking`; `p`, `expr` |
| differential testing, tracing | `nemu/src/cpu` | skip flags; call stack | `difftest_step`, `difftest_skip_ref`, `ftrace` |
| MMIO bus | `nemu/src/device/io` | the region table | `add_mmio_map`, `mmio_read`, `mmio_write` |
| devices | `nemu/src/device` | audio ring, key queue, clock registers, SD card | one callback per device; SDL's audio thread; a SIGVTALRM handler |
| abstract machine | `abstract-machine/am` | a trap context per task | `__am_asm_trap`, `kcontext`, `yield`, the device drivers |
| klib | `abstract-machine/klib` | the heap pointer | `malloc`, string functions, `printf` |
| microbench | `microbench/src` | the benchmark's own data, the uptime | ten benchmarks, timing and score |
| configuration | `nemu/tools/kconfig`, `nemu/tools/fixdep`, `nemu/scripts` | `.config`, `auto.conf`, `autoconf.h`, objects | `menuconfig`, `xxx_defconfig`, `savedefconfig`, `make` |
| explog | `explog/src/explog` | `experiments.jsonl`, data directories | `init`, `run`, `list` |
| scripts | `scripts` | host CPU settings, a directory of logs | isolation set-up, benchmark sampling and its analysis |

How they interact: `sdb_mainloop` calls `cpu_exec`, which calls the interpreter;
the interpreter reads and writes `pmem` or, through the bus, calls device
callbacks; a guest linked with the abstract machine drives the devices and traps
into `__am_asm_trap`; `nemu_state` is shared by all of them and is how a guest
stops the interpreter. SDL's audio thread and the CPU thread share the audio
ring without a lock. The configuration tools decide what is compiled; the scripts
run the emulator on microbench, read the time it prints, and explog records what
they measured.

What is hard here:

* **Stale decoded code.** The cache is tagged by pc only. Stores do not
  invalidate it, blocks evict each other while control is between them, a refill
  leaves the tail of the old block in place.
* **Late polling.** `nemu_state` is read between blocks only, and an invalid
  instruction sets it in the middle of a block.
* **Unchecked walking.** DISPATCH increments `p` and jumps; what keeps it inside
  the block is the shape `basicblock_cache_refill` gives it.
* **Protocol of commands.** `cpu_exec` changes state before it looks at it, and
  its count is of calls, not of instructions.
* **Two threads, no lock** in the audio device; a 64-bit clock read in halves.
* **A stack pointer changed under a trap**, and a context that is only words in
  the memory of another thread.
* **Hand-written arithmetic**: the 64-bit division of klib on a 32-bit machine, the
  rewriting of dependency expressions in Kconfig, the precedence of sdb's evaluator.
* **Crashes and concurrent runs** in explog and the benchmark runners, half-done
  set-ups in the isolation script, an interrupted `make`.

`PROJECT.json` lists each of these with its line, and the properties that would
notice it going wrong.

What makes each part correct: the interpreter is indistinguishable from a hart
that executes one instruction at a time; the monitor never revives an ended guest
and tells the truth in its exit status; the audio ring is a FIFO that loses
nothing; a watchpoint node is on exactly one list; a trap returns to the context
it was given; the C library does what ISO C says; the time printed is the time
measured; a record in the experiment log is backed by its directory, whatever
crashed or ran beside it; a host is put back as it was; a report is about the
samples of one runner and one build; a configuration survives being saved, and no
object is left with old values.

## 2. Modules

| module | what it is |
|---|---|
| `Isa` | words, memory map, instruction classes, decoded fields; shared |
| `Hart` | the abstract specification: one instruction at a time, straight from memory |
| `BlockCache` | the interpreter, one action per handler |
| `MCBlockCache` | a two-register, four-word guest machine for TLC |
| `Monitor` | `cpu_exec`, `sdb_mainloop`, batch mode, around `BlockCache` |
| `MCMonitor` | a three-word guest for it |
| `MonitorProofs` | the inductive invariants of `BlockCache` and of the composition, and the proof that the interpreter implements `Hart` |
| `AudioRing` | the audio device between the guest's driver and SDL's thread |
| `Cte` | threads, `kcontext`, `yield`, the trap entry and return |
| `Uptime` | the clock device, the timer driver, and what `bench.c` measures with them |
| `Klib` | 64-bit division, block operations, comparisons, `%d`, `atoi` |
| `KlibProofs` | the proof that they do what ISO C says |
| `Workloads`, `Puzzle` | seven algorithms of microbench |
| `Brainfuck`, `QuickLZ` | the interpreter of `bf`; `lzip`'s compressor and decompressor |
| `Microbench` | the rest of `bench.c`: the loop over the benchmarks, scores, the times printed |
| `Guest`, `MCGuest` | the guest side together: one image is run |
| `GuestProofs` | the inductive invariants of `AudioRing`, `Uptime` and `Cte` |
| `Recursion` | induction and recursive functions, for the proofs that need them |
| `SdbExpr` | `expr.c`, from tokens to values |
| `WatchList` | what watchpoints are to a user: a list |
| `Debugger`, `MCDebugger` | watchpoint pool and the commands `w`, `d`, `p`, `t` |
| `DebuggerProofs` | the pool's lists, the refinement of `WatchList`, and `eval` against the grammar of C |
| `KconfigExpr` | `expr.c` of kconfig: values and rewriting of conditions |
| `KconfigPrint` | a condition as it is printed in a help, and the grammar that reads it |
| `KconfigDeps` | the search for recursive dependencies |
| `KconfigValue` | the texts of strings and numbers, as read, written and compiled |
| `AutoConf` | how `auto.conf`, `autoconf.h`, `fixdep` and make keep objects up to date |
| `Kconfig`, `MCKconfig` | configurations and sessions, around `AutoConf` |
| `Explog`, `MCExplog`, `ExplogProofs` | `explog init`, `run` and `list`, in several processes |
| `Isolation`, `MCIsolation`, `IsolationProofs` | the root set-up script and its precheck |
| `Bench`, `MCBench` | runners, their logs, and the analyser |
| `ToolProofs` | the inductive invariants of `Bench` and of `AutoConf` |

### BlockCache

One step is one handler, which is the granularity at which anything can differ:
the interpreter is one thread, and no callback runs inside a handler of the core.
`label` is where control is (outside, at a handler, at `block_dispatch`); `Cur`
is `*p`. `ExecOnce` is `isa_exec_once`; `BlockDispatch` is the code after the
label of that name; both share `EnterBlock`, with `IsHitCache`, and on a miss the
decoding loop (`DecodeLoop` says how many words it decodes, `Refilled` is the
entry it leaves, old slots included). `OpAlu` .. `OpEnd` are the handlers, each
the whole handler; `DISPATCH`, `GotoDispatch` and `Die` are its three ends.

Abstractions, all named in the modules:

* Addresses and pcs are counted in words: without compressed instructions a pc is
  word-aligned, and `(pc & 0xFFF) >> 2` is the word address modulo the number of
  sets. Loads and stores are of whole words. A `jalr` or `mret` to an odd
  half-word is outside the model.
* Instructions of one class share one action, and their arithmetic is a constant
  operator (`Alu`, `Taken`, `CsrOp`); `Fields` is what `decode` extracts. A word
  is an instruction, an address and a value at once, so programs modify
  themselves freely.
* The cached instruction carries the word it was decoded from (`word`). It stands
  for the opcode and immediate bits that select the semantics, and is how
  "decoded from a word that was really there" is stated.
* `words[a]`, the set of words an address has held, and `ahead`, the counter
  minus the instructions executed, are history: no guard reads them.
* `op_table` is filled on the first call, before the first decode, so a handler
  address is the opcode itself.
* There are no devices: an access outside `pmem` ends the process, as in a build
  without CONFIG_DEVICE. When the process dies inside a refill the cache is left
  as it was; nothing can look at it any more.

### Hart, and what "transparent" means

`Hart` has three explicit freedoms. An instruction fetch returns some word the
address has held since reset: a program that never stores over its code sees an
exact fetch, one that does sees what a RISC-V hart without `fence.i` may show it
(NEMU decodes `fence.i` as invalid). The process may die, because decoding runs
ahead, when straight-line code reaches the end of memory within one block.
`PreciseInvalid` says whether an invalid instruction stops the hart at once; if
not, it goes on behind it, or stays on it when nothing more is decoded because
the block, or the memory, ends there.
Loads and stores, registers, CSRs, pcs and the exit are exact.

The refinement mapping keeps memory, CSRs and run state, forgets the cache and the
dummy register, and takes the hart's pc from wherever the code keeps it: the
decoded instruction inside a block, `next_pc` at `block_dispatch`, `cpu.pc`
outside. Entering a block, `OP_END` and returning are stutters.

### Monitor

`Monitor` extends `BlockCache` with the monitor's own control (`mon`), the
countdown of `execute`, and batch mode; the interpreter's actions are steps of the
composition. `CpuExec` is everything up to the call of `execute`, the write of
`mstatus` included, which comes before the test for an ended program. `asked` and
`steps` are history for one property. Commands that do not touch the CPU (`p`,
`w`, `d`, `info`, `help`) are left to `Debugger`.

### AudioRing

The only place of the emulator where two threads meet. A step is one access to
what the other thread writes: `SbufStore` and `CallbackCopy` move an index,
`CpuReadHead` and `CbReadTail` compute the length, and two steps of each thread
store it, in `audio_len` (which the callback reads) and in `reg_count` (which the
driver polls). Each thread loads a shared variable once per call; that is what an
optimised build does, there being no call between the uses. `WriteInit` and
`AmAudioCtrl` are the control registers, in either order, since `s.callback` is
what it is when `samples` is written; SDL refuses to open the device again.

The bytes are not carried along. `unplayed` counts stored minus played bytes, until
either of two things happens that the code does not exclude: `raced`, an update
has read an index that then moved before the length was stored, or `filled`, the
ring holds SB_SIZE bytes and `head = tail` reads as empty. After either the code
promises nothing, and TLC shows it: dropping `~raced` from `WaitEnds` gives a
run in which `audio_len` is 0 and `reg_count` is not, the callback returns at once
for ever and the driver spins; without the condition the callback can also copy
on past `tail`. The abstract machine's own driver never writes `reg_init`, so it
opens the device with no callback, nothing is played, and its wait does not end
once the ring holds too much; and a chunk longer than the ring never gets in.
These are facts about the code; no text in the repository says otherwise, so they
are conditions of the properties and not findings.

### Cte

A step is one of `cte_init`, `kcontext`, `yield`'s ecall, the trap entry, the
handler, the return, or one instruction of a thread. Memory is an array of words
with a stack per thread; a context is where `trap.S` and `kcontext` put it. The
entry saves the registers below `sp` and the return reloads them from the pointer
the handler returns. The scheduler is the guest's own code: it returns any context
it was given before, or that `kcontext` made. `ContextKept` compares the registers
after every return with a history of what the thread held when it trapped, `a0`,
x0 and `sp` included, and with an empty stack and the argument for a thread that
starts. `kcontext` takes a context to be 35 words and clears word 34, whatever `NR_REGS` is
(`cte.c:35`), while `trap.S` derives its offsets from `NR_REGS`; the two agree on 32
registers only, which is what `KcontextAssumption` asks, and not under RVE.

### Klib, the workloads, Microbench

`Klib` models the code of `int64.c` branch by branch in words of W bits and holds it to
division; `string.c` moves words where the code does, and `stdio.c` builds
the digits as the code does. The loops are functions of the number of rounds made, and
`temp`'s of what is left of the number. A call is a record; `Legal` are the calls C defines (`CallsAssumption`), and
`AsInC` is what ISO C says of each, in terms of numbers, whole blocks and the order of
texts. `LibrarySpec` is a guest that makes one.
`Workloads` and `Puzzle` are the algorithms, with arrays as functions from 0;
`Solves` says, without the algorithm, what each has to answer: a sorted permutation,
the number of placements, the primes, the recurrence, the least cut of the graph,
the sorted suffixes, the length of a solution.

`Brainfuck` compiles and runs programs as `bf.c` does, with its stack of brackets
and its limits. The benchmark's program sorts its input, and is held to that.
`QuickLZ` is `quicklz.c` as it is preprocessed for the benchmark, level 2 without a
streaming buffer: the table of hashes and its counters, matches, control words,
the copying of a text that does not compress. A stream is the sequence of its items,
with the number of bytes it would take; the hash is a smaller one that collides more
often. The benchmark never decompresses, so `qlz_decompress` is there to say what
compressing promises. `memcpy_up` is an assertion in this port and is external.

15pz is held to less than the shortest solution: `heap.h` is asked to lower the
weight of a board already queued, but `path_length` of the board is not lowered with
it, so from ten moves on the answer may be longer than the shortest; the search
still answers with the length of a solution. No text says it is the shortest.

`Uptime` is the device's handler, `ioe`'s uptime and the readings `main` of `bench.c` makes.
The 64-bit clock is read in two loads, and the device brings both words up to date at
each; the host's time goes on before any step, and the compiler chooses which half
is loaded first. `ScoredTimeTrue` says that the time scored is the time the
benchmarks took, give or take what the readings take, unless a reading was torn
across a carry of the low half. `Microbench` adds what `main` does between the readings:
the benchmarks, their checks and scores, and `format_time`.

### Guest

NEMU runs one image, so `Guest` chooses it at the start: audio, threads, one call of the
library, or microbench; the actions are those of the components. It
states their properties in one run.

### Debugger

`SdbExpr` evaluates the tokens `make_token` recognises as `eval` does: operator
position, parentheses, the preprocessing of unary minus, and an outcome that is a word, a
warning, or the end of the debugger (a division by zero is the host's). Its second half
is `gen-expr`, whose lines a C compiler evaluates, with C's types: the numbers are
unsigned, a comparison or `&&` is an int, and so is what is computed of two ints, where
division rounds towards 0 and overflow is undefined (`InC`, `InInts`). `eval` knows
unsigned words only. `Debugger` is the pool of nodes with its two lists, the commands, and
the tests that `gen-expr` generates.

`ExprIsC` says that the two values are equal, with two exceptions. One is `RegMinusNum`, a
minus between a register and a number, which `preprocessing` takes for a sign. The other is
the quotient of two ints of which one is negative: `( 1U == 1U ) / ( ( 1U == 2U ) - ( 1U == 1U ) )`
is -1 in C, hence 4294967295, and 0 in `eval`. A phrase remembers that it holds such a
quotient in `signed`.

Watchpoints implement `WatchList`, which says what the user may count on: `w` puts the
expression in front with its value now and a number none of the others has, and is refused
only when all NR_WP are set; `d` takes out the one with the number it is given, wherever it is,
and fails only when there is none; the others keep their order, their numbers and their
values. Each command is answered (`said`). What the code does where it
dies is part of it: `w` of an expression that divides by zero, and `d` of an empty list.

### Kconfig

`KconfigExpr` has every rewriting `menu_finalize` applies to a condition, as
functions on trees; `KconfigPrint` prints a condition, with parentheses by
precedence, and reads it again by the grammar of `parser.y`. `KconfigDeps` is the
depth-first search of `sym_check_deps` with its marks, which goes to the choice when
it meets one of the choice's values; the messages of loops are lists of symbols.
A choice that is recursive by itself is in such a list twice, since both
`sym_check_choice_deps` and `sym_check_sym_deps` push it. `KconfigValue` has texts
as sequences of characters, for that is what is read, escaped and compared: which
of them are numbers, the prefix of hexadecimal ones, the quotes of strings, and
what C makes of the macro. `AutoConf` is the end of a session, `conf_write_autoconf`, with
the touched files under `include/config`, the renames of `autoconf.h` and `auto.conf`,
`fixdep`'s choice of which options an object depends on, and make; a crash may fall
between the renames. How a value is written, read back and made a macro is a parameter of it.
`Kconfig` gives these parameters their meaning and runs sessions of `mconf` and `conf`
before it; each of its actions that ends in one of `AutoConf` has it as a conjunct. Two things in the code made the properties what they
are: options the Makefile alone reads (`CONFIG_CC_OPT`) touch a file no object
depends on, so `BuildIsCurrent` is about what objects read; and symbols
without a prompt are not given back by `.config`, they are computed again.

The state space is of files in three parts: files whose conditions are of many forms,
looked at when `mconf` starts; files with loops, which it refuses; and three files for
sessions (`Saved`).

### Explog, Isolation, Bench

`Explog` is the workflow of `run` and `init`, one change to the log, the repository or
a directory a step (the three `mkdir`s of a run are one), each of which may fail, for
several processes on one log without a lock; the log is a sequence of lines and may end without a newline, since a write may be
short. The clock of the host never goes back: that parents are listed first rests on it,
since `list` sorts by time stamps, and is said only of a log that `read_log` accepts. An id is a time in
seconds, and what `mkdir` makes unique is the directory, not the id: two runs in the same
second with different data roots get one id and a directory each, so that
`OneRecordPerDirectory` holds and the log can no longer be read. No property says that ids are
unique, for they are not.

`Isolation` is the root script step by step, for hosts with any mix of
hyperthreads, offline CPUs and shared cpufreq policies. What the root script asks of a
host (`check_prerequisites`, `CheckCpu`) and what the unprivileged precheck asks (`precheck`,
`PrecheckCpu`) are modelled apart, each from its own script, because they differ: they look
for other commands, and only root can see whether a setting can be written. So the precheck is not
said to predict the script; three hosts of the run pass one and not the other. What it does
promise is `PrecheckFindsResidue`: whatever went wrong before, a host it passes has nothing
left over. The two parsers of CPU lists differ only in lists separated by blanks, which
is not how the kernel writes siblings. The manual rollback and a reboot are external.

`Bench` is
the runners' loop, of the single and the batch type ("real" has the rules of
"single"), the directory of logs they share, and which samples the analyser takes
up; the statistics' verdict is nondeterministic.

## 3. Runs

| run | shows | result |
|---|---|---|
| `cache` | types, well-formed blocks, DISPATCH inside the block, x0, exact counter, no NULL entry, blocks end, halts return, `Transparent` (refinement of `Hart`) | holds |
| `cache_invalid` | `TransparentPrecise`: the same with invalid instructions stopping the guest where they are | violated |
| `cache_rtcheck` | `Transparent` in a build with RT_CHECK | violated |
| `monitor` | stopped at the prompt, STOP only before the start, truthful exit status, CSRs survive `cpu_exec`, ended guests stay ended, commands return | holds |
| `step_bounded` | `si N` executes at most N instructions | violated |
| `guest` | audio: FIFO and a safe count until a race or a full ring, the driver's wait ends; contexts survive every switch; the library is ISO C; the scored time is true unless a reading is torn; nine benchmarks are right | holds |
| `time_printed` | the times microbench prints are those it measured | violated |
| `debugger` | the two lists partition the pool; expressions are worth what C says (but for two forms); watchpoints implement a numbered list | holds |
| `kconfig` | recursive files are refused; prompts are shown when their written condition holds, and their help says so; configurations are read back as saved and mean the same to C; no object is left with old values | holds |
| `explog` | a record has its directory, one each; parents are listed first; success is recorded; records do not change | holds |
| `isolation` | the backup covers every change; nothing outside the CPUs asked for is touched; the balancer comes back; a host the precheck passes has nothing left of an earlier run | holds |
| `bench` | what is reported is the sample that was judged, of one runner, and of one build | holds |

Bounds. `cache` runs all 13^4 programs of four words over an instruction table
with one instruction per class and hand-picked operands: a store that hits code,
a load that wraps, a `jal` backwards, `jalr` with rd = rs1, an x0 destination, an
unknown CSR, ecall/mret. Two cache sets make four addresses alias; blocks of at
most three instructions leave room for terminated blocks, full blocks with
`OP_END`, and blocks that run off the end of memory. All of stale execution,
eviction by an aliasing block, `OP_END`, ABORT overwritten by END, and a jump to
address 0 are reachable. More words or sets repeat these cases, and the theorems
below do not depend on the bounds. `monitor` has three-word programs, blocks of
two, `ULongMax` 7 for 2^64 - 1 and `si` arguments -1 .. 2; `StepCap` bounds the
history variable and only `step_bounded` needs it above 0.

`guest`. Audio has a ring of four bytes, callbacks of three, and chunks of zero to
five bytes, so that callbacks are cut short, indices wrap between any two steps,
chunks fit exactly, just fail to fit, and can never fit. Two threads with four
registers and stacks of nine words switch in every order, and every register takes
two values. The library has words of four bits, so that all 256 dividends are
divided by words and double words of every shape (`Klib` has no case that depends
on the width except the halving of the zero counts, and `KlibAsInC` does not depend on it); blocks have up to eight
bytes, aligned and not, overlapping and not. The low half of microbench's clock
wraps in the middle of a run, at any step. The workloads take every input of up
to 4 (qsort) to 7 moves (15pz, and one board ten moves away), 256 graphs of dinic,
boards of queen up to 5, texts of ssort up to 6 letters, inputs of bf up to 4
letters, and for lzip 512 texts of 23 letters with repeats, and longer ones that fill
several control words, match on top of themselves, or do not compress. These are far
below the sizes of the benchmarks; what they reach is each branch of the code.

`debugger` has words of three bits, a pool of three nodes and generated
expressions of up to seven tokens, enough for two operators inside parentheses
beside a third, and of up to twelve where arithmetic is done on comparisons: negative ints,
their comparison, and quotients and divisions by zero of ints are reached. A quotient of a
negative int takes more tokens than that, and an int that overflows many more; the run
does not meet what `ExprIsC` excepts there, and the theorem does not depend on the bound. Watchpoints
are deleted by every number of the pool and one beyond. `kconfig` has 425 Kconfig files: 260 with conditions of up to three
operands, 162 whose bools and choice refer to each other, with and without
loops, and three with sessions (two saves, two edits each, one crash), in which a
number, a hexadecimal number and a string are typed, `-9` and `010`, `09`, and a text with
a backslash and a quote. `explog` has two processes, ids that collide, two data roots, three commands,
one edit by the user, and a clock of two readings. `isolation` has two root shells
on four CPUs. `bench` has two runners, runs of at most 16 (single) or 32 (batch),
one run or one batch more than the fewest that can be judged, one bad log or rebuild, and one set of
logs left behind.

Deadlock is not an error: the machine stops for good when the guest ends, the
process dies or the monitor exits, programs of the guest halt, and the commands of
the user are bounded.

Fairness. The interpreter and the monitor are one host thread that never blocks
except to read a command, so weak fairness of its steps is what the host's
scheduler gives; nothing obliges the user to type, and commands have no fairness.
A guest may loop for ever: no property says that it ends. In `guest` both threads
of the audio image run (`AudioFairness`), and SDL goes on calling back while the device is open and not paused, which
nothing in the code ever does again; the guest need not play anything.

The four violations are disagreements between the code and the text beside it:

* An invalid instruction is reported and execution goes on in its block, so
  `docs/blog.typ:994` ("the caches are transparent to the program") does not hold
  for programs with invalid instructions; an `ebreak` later in the block replaces
  the ABORT by END and with it the exit status.
* The dummy register is index 32, and `check_reg_idx` rejects it when RT_CHECK is
  on, which is the Kconfig default. `docs/blog.typ:756` describes the redirection
  without that condition.
* `si [N]` is described as stepping (`sdb.c:207`), but block chaining made
  `isa_exec_once` run to the guest's end. `docs/blog.typ:994` concedes that sdb is
  no longer compatible; the theorem `SdbStopIsFresh` says how completely: no
  guest is ever paused.
* The times microbench prints have the digits below a millisecond one place too far
  to the right: `format_time` (`bench.c:18`) takes what `sprintf` returns for the
  length of the text, and klib's `vsprintf` counts the NUL (`stdio.c:97`). 345 us
  print as `0.0345`, and what an older text left in the static buffer may follow.
  Logs of the experiments show it: `min time: 62.0453 ms`, `Scored time: 6671.0038
  ms`. The scripts read that number as the measured time; the error is
  below a millisecond.

Other things met while modelling, which contradict no text and are conditions of the
properties or hazards with a note:

* `vsprintf` takes `%u` through an int, which is wrong from 2^31 on; `memset` with a value
  outside 0 .. 255 spills into neighbouring bytes of a word.
* `malloc` and `bench_alloc` both start at `heap.start`.
* An unknown `mainargs` leaves `setting_id` at -1 and `settings[-1]` is read
  (`bench.c:87`, `bench.c:104`).
* The heap of 15pz has one slot fewer than its largest index.
* `ssort` may be given letters 0 where its comment asks for 1 .. K
  (`ssort.cc:25`), and then orders some suffixes wrongly.
* With RVE the register file has 16 entries and the dummy index 32 is in a CSR, and a
  context of `kcontext` is not the one `trap.S` restores.
* `eval` divides ints as unsigned words. The test of `t` (`sdb.c:184`) compares it with C and
  would print "failed" for such a line, but no run shows it: the shortest has 19 tokens.
* `device_update` (`cpu-exec.c:86`) and the callers of difftest and `WP_checking`
  (`cpu-exec.c:35-47`) are commented out: a watchpoint never stops the guest, no key
  is queued, no frame is drawn.

## 4. Proofs

Eleven modules have proofs, in seven modules of their own: `BlockCache` and `Monitor`
(`MonitorProofs`), `AudioRing`, `Uptime` and `Cte` (`GuestProofs`), `Klib`, `Debugger`, `Isolation`,
`Explog`, `Bench` and `AutoConf` (`ToolProofs`). An eighth, `Recursion`, has the lemmas two of them share. The
theorems state every invariant, action property and refinement the runs check of
them, except liveness, for every value of the constants.

Assumptions are the named ASSUMEs of the modules, which TLC evaluates in every run:

* `Isa`, `BlockCache`, `Monitor`: words wrap, `pmem` holds the reset vector and not
  address 0, decoding and arithmetic are typed, and the reset vector maps to set 0, as
  0x80000000 does. Nothing is assumed about which instructions exist or what they compute.
* `AudioRing`: the ring is not empty, lengths are natural numbers.
* `Uptime`: the low half has some width, and the clock is followed for less than
  2^64 microseconds.
* `Cte`: the registers include a0, threads are natural numbers, there is a last one; a
  context has the words `kcontext` gives it, which is so for 32 registers.
* `Klib`: a word has 4, 8, 16 or 32 bits, which is what the halving of the zero counts is written
  for, and the calls are ones C defines (no division by zero, blocks in memory and apart for
  `memcpy`, strings that end in a NUL).
* `SdbExpr`, `Debugger`: words have more than one value, the pool has a node, an
  expression that is watched is a sequence of tokens, and `gen-expr` writes numbers,
  the operators of `expr.c` and names of registers, which hold words.
* `Explog`, `Isolation`, `Bench`: the counters and runs are natural numbers, a host's
  online CPUs are CPUs, the bound of a runner is at least what it must judge.
* `NoneAssumption`, wherever a missing file or value is a model value: it is none of the values.

`AutoConf` assumes nothing of its constants. Its specification asks that the
values a program is about to write can be read back (`Readable`); that is a property of
`Kconfig`, the last part of `ConfigRoundTrip`.

Each invariant was checked by TLC, in the run of its component, before it was proved. What each
needs beyond the property:

* **BlockCache** (`IInv`). That DISPATCH stays in the block needs the block to be well
  formed and `p` to be inside it; that the counter returns to zero needs a terminator
  to be the last instruction only; that no NULL entry is entered needs to know that set
  0 is filled once the guest runs (`ResetSet`), since a jump to 0 hits the tag of an
  empty entry of that set. `MemInWords` links memory to its history so that a
  refill decodes words that were there. The proof first shows what a refill leaves
  (`RefillWellFormed`) and what entering a block establishes (`EnterBlockInv`); then
  that every handler makes one of three moves, `Advance`, `Leave` or `Dead`, with
  its data typed (one lemma per handler); then that each move keeps `IInv`.
* **Transparent**, the refinement of `Hart` (`CachingIsTransparent`). `TInv` adds to
  `IInv` that a guest at a handler is RUNNING, or ended by an invalid instruction earlier
  in the block. One lemma per handler shows the step of `Hart` it is; entering and
  leaving a block stutter. The theorem has `~ RT_CHECK` as hypothesis, and `cache_rtcheck`
  shows that it needs it. The attempt found `Hart` wrong where the last
  instruction of a block, or of memory, is invalid: the pc stays, and
  `Hart!ExecInvalid` says so now.
* **Monitor** (`SInv`). Commands leave the interpreter's state alone
  (`CommandKeepsIInv`), its steps keep `IInv`, and `SInv` adds the link between the
  two controls, "the guest is untouched until it is called" and "after ebreak
  nothing is executed". The two action properties follow from `SInv` and one step.
* **Audio** (`RingInv`). Until a race or a full ring, a thread between its read of the
  indices and its last store holds the exact length in its register. That makes the
  length a callback starts from a lower bound and the count the driver polls an upper
  bound of the bytes waiting, which is the FIFO property. `NextIndex` and
  `RingLength` do the arithmetic of the ring once.
* **Clock** (`UptimeInv`). While nothing is torn, a half that is read is the half of a
  time that is kept in the history, so that the second read makes the whole time of one of
  the two; what was measured so far lies before the reading under way, and
  differences below 2^64 do not wrap.
* **Contexts** (`CteInv`). Every context lies in the stack of its thread, below what the
  thread has in use, and stacks are disjoint; so a thread that runs changes no other's
  context (`WaitingInv`). The return restores the words that the entry, or `kcontext`, wrote.
* **Watchpoints** (`PoolInv`). Two injective paths through the nodes, from `head` and from
  `free_`, cover the pool and do not meet; `new_wp` and `delete_watchpoint` move one node
  from the one to the other. Under the refinement mapping the path from `head` is the list
  of `WatchList`. `FreeUsedUp` ties a refused `w` to a full list, `NotFound` and `Removed` a `d` to
  the place of its number in it. `eval` is a recursive function over lengths; that it is
  defined for every expression is `RecursionExists` of `Recursion`, by least numbers.
* **Expressions** (`LineInv`, `DebuggerExprIsC`). `gen-expr` builds an expression up, `eval`
  takes it apart at the weakest operator, and an induction over the one says nothing
  of the other. `Sound` says what a phrase is wherever it stands in a longer text: its
  parentheses match, the operators `get_op_position` sees of it are at most as weak as its
  rank, and `eval` of its span is its value in C. A leaf is sound; parentheses keep it,
  since the first closes at the last and nowhere before (`ParensClose`), and hide
  what is inside; of two sound phrases with an operator between, that operator is the last
  of the weakest, which is where precedence, left associativity and `Enclosed` meet
  (`JoinedPosition`). `preprocessing` works on the text the user types, so that a
  phrase is sound after it only if no `-` at a seam is taken for a sign: `SeamApart` needs that
  no `-` stands between a register and a number, which is the exception `ExprIsC`
  makes. So the induction is the one over the steps of `gen_rand_expr`, for lines of any
  length, numbers of any size and any width of the word. That `eval` computes in words what C computes
  in ints (`InCAgrees`) is modular arithmetic for sums, differences and products, and for quotients
  needs that neither int is negative, the other exception. TLC checked `LineInv` with `Sound` at
  the line itself.
* **Library** (`KlibAsInC`). One call is one step, so the argument is about what the functions
  compute, by induction over the rounds of their loops. `Divides` is the invariant of the
  restoring division: r and d times the quotient so far make up the bits of the
  dividend that have been shifted in, and the rest is on top of the quotient in q. That the
  sign of d - r - 1 tells whether d fits is not true of all double words; `SignTells` is
  when it is, and each way into the loop (`BeginIs`) has to establish it. The zero counts are proved from the
  halving (`ClzStep`, `CtzStep`), and with them that `LargeDivisorIs` may return at once where the unsigned
  difference is too large. `DivisionIs` puts the cases together; the signed functions
  divide magnitudes and are right modulo the double word, the least number divided by -1
  included. `Stores` cut a block into bytes and words that tile it (`StoresTile`); a
  store never writes what a later one still reads (`Forward`, `Backward`, `CopyIs`), which
  is why `memmove` may call `memcpy` when the destination is lower, words read whole. The place
  a comparison stops at decides the order of the texts (`OrderIs`). What `%d` prints of a negative
  number, digit by digit, reads back as its magnitude (`TempSpells`, `AtoiReads`).
* **Isolation** (`IsolationInv`). What each process has done so far is in the backup it
  writes, step by step, and the backup directory is a lock that outlives its owner: a
  process that finds one stops before it changes anything. Hence whatever was changed still has a
  backup, which is why the precheck, asking for none, finds a host untouched.
* **Explog** (`ExplogInv`). `mkdir` without `exist_ok` makes a process the owner of its
  directory; an owner holds a diff it took itself and a parent that was in the log
  when it looked, and whole lines are never lost. That a parent is listed first is an
  induction along the log, done with the least position that would break it.
* **Bench** (`BenchInv`). Which runner the logs belong to is decided where `log-1` is
  opened with mode "x"; from there the invariant says which logs exist at each point of the loop,
  with which build, and what the analyser has read of them.
* **Builds** (`AutoConfInv`). Without a crash between the renames, the two files tell the same
  values outside that step (`Agree`), no bool that is n is in `auto.conf` (`AutoInv`), and objects
  make leaves alone have the macros of `autoconf.h` (`FreshInv`). `CompiledAfter` is the
  heart: an object without a touched symbol sees the same macros after, whether a symbol was
  changed, added or gone. After a crash there, only another session followed by `make
  clean` restores that; until then `torn` excludes it.

The type invariants of the monitor, the audio device and the other components are conjuncts
of their inductive invariants; only the cache's spends a run.

Model-checked only:

* `WaitEnds`, `BlockEnds`, `HaltReturns` and `CommandReturns`: liveness under fairness, which the
  prover does not handle.
* `WorkloadsRight`, `ShownAsWritten`, `ConfigRoundTrip`: the workloads and
  Kconfig's modules compute over data with recursive operators, about which the prover says
  nothing.
* What the violation runs check, which is false.

## 5. What is left

The escaping of strings of `KconfigValue` does not need recursive operators and could be proved
for every text, as the library was.

### Not modelled

* Differential testing and watchpoint checking: no caller is left in the program.
* Tracing: output only. The call stack of `ftrace` has no bound; `CONFIG_FTRACE` is off by default
  and no property is stated of it.
* Keyboard, VGA and alarm beyond the clock: without `device_update` they do not move.
  The serial port is one `putc` per store. The SD card and the disk are in no image.
* The registration of MMIO regions: it runs once, with fixed regions that do not
  overlap.
* `md5` of microbench: there is no simpler definition to hold it to. Of `lzip` the levels and
  the streaming mode that the benchmark is not built with.
* `rand`, `malloc`, the copies of strings and the functions of klib that panic.
* Of Kconfig: the lexer and the preprocessor, ranges, `select` and `imply`, tristates in a
  session, comparisons of anything but bools and strings, conditional prompts, the
  `all*config` and random modes (no make target uses them), the windows of `mconf`, and
  the line "Visible if" of a help, which NEMU's files never print.
* The numbers of a report, plots and formatting: library calls and text.
* The native and spike platforms, and the other instruction sets: not built for the
  experiments.
