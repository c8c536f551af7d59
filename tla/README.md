# 8th Circle Linux: a TLA+ verification project

8th Circle Linux is a Linux initramfs whose PID 1, shell and commands are
programs ("scrolls") for M8, a Malbolge-derived virtual machine.  This
directory holds TLA+ models of its parts, TLC configurations that check them on
small instances, and TLAPS proofs for every value of the constants.

## Inventory

| part | source | state | operations | what is hard |
|---|---|---|---|---|
| runtime | `src/runtime/m8.c` | A, C, D, 59049 words of memory, extension lineage, error flag, step count | load, one step, ~20 traps, argv set-up | code cells change whenever they run; words are mod 59049; the step budget |
| PID 1 | `scrolls/init.m8a` | file descriptors, mounts, the child it waits for | boot, supervise, wait, respawn | wait4(-1) and orphans, hard-coded descriptors, failed forks |
| shell | `scrolls/msh.m8a` | four pointer-chain buffers, argv slots, flags | read and parse a line, dispatch, fork/exec/wait | buffers that hold their own links; overflow at the last cell; state kept across lines |
| oracle | `tools/mkoracle.py` | a tree of empty files under `/.m8` | open as a byte comparison | the only `if` on bytes the shell has |
| commands | `scrolls/bin/*.m8a` | argv cursor, buffers | echo, cat, ls, pwd, issue, mfs.* | fixed buffers, unrolled loops over slots |
| decimal printer | `scrolls/lib/print_fdec.m8a` | scratch files | print a number with no arithmetic | shared scratch files, range of the contract |
| MFS | `tools/mkmfs.py`, `scrolls/bin/mfs.*.m8a` | image, 16 slots, manifest | build, list, stat, print | an 8192-byte buffer against an image with no size limit; a manifest assembled into the tool |
| assembler | `tools/m8asm.py` | labels, layout, tick count | include, parse, place, encode, materialise | addresses and ticks have to agree with the VM; two passes have to agree with each other |
| planner | `tools/m8crazy.py` | queue, seen words, plans | search, plan a ritual, emit it | a plan is right only at one cell and one tick; the block it writes lies over code that has run |
| audits | `tools/m8audit.py`, `tools/m8_arith_audit.py`, `tools/m8_loader_tests.py` | none | count, compare | a second opinion on what the loader accepts |
| packaging | `Makefile`, `tools/build_rootfs.py`, `tools/mkinitramfs.py`, `tools/mkdistro.py` | files and their times | make, copy, archive | grouped targets, outputs written in place, interrupts |
| smoke test | `tools/qemu_smoke.py` | what was seen, prompts counted, commands sent | boot, wait for a prompt, type, look for markers | two programs that wait for each other over one serial line |

The parts meet in these places.  The kernel runs `/init`, which is the runtime,
which loads `/sbin/init.mb`.  PID 1 forks, and the child execs
`/bin/m8 /bin/msh.mb`.  The shell classifies every byte by `open(2)` on the
oracle tree, and runs a command by fork, `execve("/bin/m8", exec_argv)` and
wait4.  The runtime copies argv into VM memory, where the commands walk it.
The assembler asks the planner for the code of a `crazyinc`, and what it emits
is judged by the auditor, then by the loader.  make chains mkmfs.py, the
assembler (for `mfs.cat`, which includes the manifest) and the packers.  The
smoke test boots the result and types.

What makes each part correct:

* runtime: words stay words; an instruction stays itself however often it has
  been ciphered; frames are skipped as they were walked;
* PID 1: the shells inherit the console and nothing else, as far as the opens
  succeed; the boot always gets to the shell; a shell comes back whenever one ends;
* shell: the vector given to execve is what was typed, no line reads into the
  next, only the typed command runs, and no write leaves its buffer;
* tree: one process owns the console as long as no parent loses its child;
  nobody waits for a child that is not there;
* assembler, planner, auditor, loader and machine agree on every cell and tick;
* searches: a plan can be followed, is as short as any, and "not found" is true,
  but for the start word;
* packaging: what make calls up to date is up to date, as far as it can see; the
  sums of a bundle are never those of other files;
* smoke test: it never types ahead, never stands off, and a pass means that
  every command ran, and that those with a marker of their own worked.

## Modules

| module | models | state ↔ code |
|---|---|---|
| `Msh` | `scrolls/msh.m8a` | `mem` is the part of VM memory that holds the path, name, argument and vector buffers, with their links; `arg_cur`, `xcur`, `x_slot` and the flags are the scroll's cells of the same names; `pc` is the label. One action per label or per byte read |
| `MshReference` | what a line should mean | a parser by set comprehension, with no buffers: the words of the line, cut to what fits |
| `Circle` | `init.m8a` from `supervise_msh` on, the forking part of `msh.m8a`, commands, process table | `at[p]` is the label process `p` is at, `forked[p]` the pid its `A` held after fork, `steps[p]` its steps, `max_steps` the budget of each program; `strayed` is history: a parent has lost sight of its child |
| `Console` | the promise of the tree | a stack of programs that hold the console |
| `Boot` | `init.m8a` from `start` to `supervise_msh` | `at`, `k`: where in the unrolled sequence; `fds`: descriptor table |
| `Smoke` | `qemu_smoke.py` and the guest it drives, over `Boot` | `pc`, `seen`, `prompts`, `last_prompt_seen_at`, `sent` are the locals of `main`; `wire`, `tty`, `out` are the serial line; `guest` is the shell as the harness meets it; `failed`, `garbled` are history. A marker is the set of what may be written that contains its text |
| `M8VM` | `src/runtime/m8.c` | variables have the names of the fields of `VM`; `pc` and `running` are the loader's walk; `source`, `walked`, `touched` are history |
| `CrazyWords` | lower half of `m8crazy.py` | operators: words, crazy, its inverses, the steps of both graphs, routes |
| `CrazySearch` | the searching commands of `m8crazy.py` | `queue`, `seen`, `found` are `bfs_find`'s; `node`, `i` its inner loop; `goals` the masks still to try; `offset`, `direct`, `planned` the profile's loop. One action per turn of a loop |
| `M8Crazy` | `plan_entry`, the same search as one calculation, `emit_entry_scroll` | operators |
| `M8Asm` | `m8asm.py` from lines to glyphs | operators: `load_source`, `Lexed`, `Placed`, `assemble_glyph`, `Assembled` |
| `M8Audit` | `m8audit.py` | operators on the text of an image |
| `ScrollRun` | assembler, planner, auditor, loader and machine together | `scroll` is what the assembler knows of its output; the rest is `M8VM` |
| `Mfs` | `mkmfs.py` and the lookup of `mfs.cat` | operators: `build`, `manifest`, `mfs_cat` |
| `Build` | `make distro` over `Mfs` | each file has the version it was made from and a time; `at` is the recipe make is in; `unseen`: no time told make of the last change of `src/mfs/root` |
| `MC*` | instances for TLC | |
| `MshProofs`, `CircleProofs`, `M8VMProofs`, `BootProofs`, `SmokeProofs`, `CrazySearchProofs`, `BuildProofs` | TLAPS proofs | |
| `DataFacts` | lemmas the proofs share: induction over sets of naturals, sequences of anything | |

`Boot` ends where `Circle` begins; `Smoke` takes over there too, with one shell
that reads a line, runs it and prompts again.  `Circle` takes from `Msh` only
that a line is a command, an exit or neither; `Msh` takes fork, execve and
wait4 as calls that succeed or fail.  `Circle` takes from `M8VM` the truncation
of a result to a word and the step budget.  `ScrollRun` runs `M8VM` as it is on
the images `M8Asm` makes, and `M8Audit` judges the same images.

`M8Crazy` repeats the search of `CrazySearch` as a recursive operator, because
the assembler needs its result in one step; `CrazySearch` has it as a state
machine, to state what holds in the middle of it and to prove it.

Definitions commented "Mutant" are wrong versions of the definition that
follows.  Nothing uses them; they record a bug each property would catch.

## Runs

| run | instance | shows |
|---|---|---|
| `msh_parser` | name buffer 5, argument buffer 3, 2 slots, lines of up to 7 bytes over LF, CR, space, `/`, `a`; open(2) finds at will what a path out of `/bin` spells | the vector well formed, terminated and equal to what the reference parser says; only the last argument may run on; only the typed command runs, or the run-on path of an over-long word that leads out of `/bin`; one line per prompt |
| `msh_dispatch` | argument buffer 2, lines of up to 4 bytes over ten bytes, NUL included, every call failing at will | exactly the builtin whose name was typed runs; `cd` goes to its first argument, and to `/` when that was dropped; the inductive invariant of the proof, after every failure |
| `msh_overflow` | argument buffer 4, lines of up to 8 bytes | violation, see Findings |
| `circle_live` | five pids, no budget reached, fork and execve refused for a time | the tree implements `Console`; a command returns to its shell; zombies are reaped |
| `circle_budget` | four pids, shells stop after three steps, PID 1 after four or not at all, wait4 fails at will | one process in the foreground until one has lost its child; waiters still have their child; PID 1 leaves its loop only at its own budget, and the kernel panics; a prompt always comes back unless the table is full of zombies of PID 1, or after that panic |
| `m8_steps` | 27 words, 23 glyphs, 2 glyphs to a frame word, 7 steps | words stay words; instructions survive their own ciphering; falling through stays on the loader's walk |
| `boot` | descriptors 0..4, three mounts, every call failing at will; three commands, the first without a marker, the second with one that is also in its typed line and in the message of PID 1, output in arbitrary chunks, prompts garbled, commands failing, a deadline and an end of qemu at any time | the shells inherit the opens of the console that succeeded, on the lowest descriptors, and the issue only if one failed; messages tell the truth about mounts; the boot reaches the shell; the harness never types ahead, harness and shell never wait for each other, whatever commands fail, a pass means what `PassMeansSession` says, and the test ends |
| `scroll` | 729 words, the runtime's own glyph tables, 19 scrolls: the shapes of `scrolls/tests`, data of every kind, includes, chains, and five faulty ones | assembler, loader and auditor give one verdict; the loader walks and the machine executes exactly the cells of the source; data is in place when `start` is reached; the planner's rows are what the machine does; a ritual rewrites its cell; the emitted scroll is the macro |
| `scroll_data` | | violation, see Findings |
| `planner` | words of three trits, every target and value, from several starts, depths -1..9, limits 0..3 | plans replay and are as short as any; no word is queued twice; "no sequence found" is true, both but for the start word of a search that wants a step; a route reaches the address and value asked for; the profile's summary counts what it says |
| `build` | make 4.3; four contents of `src/mfs/root` (one too large), two slots, two edits, with new times and old ones, one interrupt | up to date means current, and two passes are always enough, unless make cannot see the change; sums are never those of other files; make converges |
| `build_stale` | | violation, see Findings |

**Bounds.**  The shell's buffers are sized so that every line of the bounded
length can fill each of them, by one byte too many and by none: the overflow
paths are about the last cell, not about 128.  Two lines follow each other in
one behaviour because state left by the first (`arg_cur`) is what the second
starts from.  Five pids allow PID 1, three nested shells and a command;
budgets are small so that a process can stop at any of its labels, PID 1 too,
while a shell lives and while none does.
In `M8VM` every operation stands at cell 0 and at cell 3 of a loop that is run
until its opcodes have been ciphered at least twice; branches have every mode
and one invalid one; trap arguments are chosen so that buffers land on data,
on the trap's own frame and on the opcode itself.
In `Smoke` three commands are the first, one between, and `exit`, after which
PID 1 starts another shell that prompts again: the prompt that must not be
answered.  In `MCScroll` a frame word has three of 94 glyphs for a word below
729, so that it has many spellings and some of them are not valid source where
they would stand; the values of the rituals include some that no mask can
increment; the rituals stand first, after code, after data that is executed
over, and with the cell behind and amid the code.  In `MCSearch` the depths and
limits lie at and below their lower bounds, because the commands raise them. In
`MCBuild` the contents differ in length, so that an old manifest points at the
wrong bytes of a new image, and one does not fit the slots, so that the first
rule fails; a change gives `src/mfs/root` any time there has been or a new one;
two edits come before and between two passes, and one interrupt between any two
writes or removals of them.  `MaxFill`, `MaxLine`, `MaxPid`, `MaxFd`, `Budgets`,
`MaxEdits` and `MaxInterrupts` are the named bounds.

**Fairness.**

* `Circle!FairSpec` has weak fairness for each process, on the steps it takes
  unattended: a runnable process is scheduled by Linux, and no trap it makes
  blocks except wait4, which is enabled only when a child has ended.  Strong
  fairness is for a fork or an execve that succeeds: the kernel refuses them
  only for a time (EAGAIN, ENOMEM).  Nothing moves after a panic.  Nothing is assumed about typing: a shell
  may wait at its prompt for ever.  A command is assumed to end; the step
  budget of `run()` ends it if nothing else does.
* `Smoke!SmokeSpec` has weak fairness for the guest and for the harness, two
  programs that run.  Neither the deadline nor the end of qemu is fair, since a
  session may be over before either.
* `Build!FairSpec` has weak fairness for make as one actor: whoever builds runs
  make again.  Edits and interrupts are not fair, and bounded.

## Proofs

All proofs are for every value of the constants.  What they assume is named in
the module that declares the constants and evaluated by TLC in the runs.

| assumption | says | why the code meets it |
|---|---|---|
| `MshAssumption` | buffers are not empty, their addresses lie above every byte, builtin names fit | the data section of `msh.m8a`; words below 256 are bytes and glyph counts, never cells of it |
| `FilesAssumption` | the names in `/bin` are plain, without a `/`, and no path is longer than the path buffer can hold with its NUL | `Makefile:27`: the longest name is `mfs.stat.mb`; `build_rootfs.py:84-92` puts no directory under `/bin`. What open(2) makes of a name with a `/` in front is not assumed (`Opens`) |
| `CircleAssumption` | every pid is its own word; each program has a number of steps it is given, any or none | the default `pid_max` is below 59049; `DEFAULT_MAX_STEPS` (`m8.c:24`) counts instructions, a step of the model stands for as many as its image takes |
| `M8Assumption` | the tables have the right domain, the cipher keeps printable cells printable; the glyphs, the bytes and the addresses of the argv block are words; glyphs of an image and bytes of an argument are numbers that fit | the tables and `#define`s of `m8.c`: glyphs below 127, block from 58000, words below 59049; text files and C strings |
| `BootAssumption`, `FilesystemsAssumption` | descriptors 0 to 3 exist; the mounts differ | Linux; the list in `init.m8a` |
| `SmokeAssumption` | there is a command, and the last has a marker that only its own output contains | the list of `qemu_smoke.py` ends with `exit`, that of its markers with `[8CL:msh] exiting; ...` (`qemu_smoke.py:126`) |
| `TritsAssumption`, `JobsAssumption` | a word has a trit; depths, limits and counts are what the commands make of them, constants are words, and a plan is a search of the runway that may be empty | the commands of `m8crazy.py` raise a depth below 0 and a limit or count below 1, and take words through `mod_word`; `plan_entry` searches with `runway_next_states` and `allow_empty` |
| `MfsAssumption` | the parts of header and entry fit, and `mfs_buf` holds header and table | the constants of `mkmfs.py` and `mfs.cat.m8a` |
| `PeersAssumption` | a grouped rule runs when one of its targets is old, or when any is | GNU make up to 4.3, and from 4.4 on |
| `RootsAssumption` | the contents of `src/mfs/root` are directories; the first of them fits the image | what `rglob` finds has a path, without NUL, and each path once; `src/mfs/root` of the checkout fits |

### The shell (`MshProofs`)

The proofs are in three layers, each with an invariant that is inductive
together with the ones below it.

1. *Buffers.*  `ReaderInv`: the free part of each buffer still holds its links
   (`ChainsIntact`), slots are filled left to right (`SlotsFilled`), arguments
   end before the next begins (`ArgsClosed`, `ArgsApart`), the open one is the
   last (`OpenSlot`).  A vector is only well formed because of all five.  With
   `TypeOK` it gives `MshTypeCorrect`, `MshReaderSafe`, `MshVectorSafe`,
   `MshOnlyLastRunsOn`, `MshChainsIntact`, `MshStaticCells`; and
   `MshOneLinePerPrompt`, an action property.
2. *The command.*  `CommandInv` relates the buffers to the line that was typed.
   `NameInv`: while the line is read, the name and path buffers hold nothing,
   the part of the first word read so far, or all of it with its NUL, cut at
   the last cell.  `EndedInv`: at the dispatch, and at each handler, the name
   buffer holds the first word; a handler stands for its own name, and
   `do_external` for no builtin's.  `ImageInv`: what execve will open is
   `/bin/WORD.mb` of that word, or one of the two built-in images.
   An over-long word needs care: its path has no NUL before `cmd_name` begins,
   so that what open sees is the path run on into the name and the arguments.
   Such a string is longer than any name in `/bin` (`FilesAssumption`), which is
   the argument the scroll's comment appeals to, so it can be found only where
   `/`, `./` or `../` leads out of `/bin` (`Opens`), and then the word begins
   with that (`ImageNamed`): the exception of the property.  Theorems: `MshCommandCorrect`,
   `MshOnlyTheTypedCommandRuns`, `MshDispatchIsExact`.
3. *The arguments.*  `ArgumentsInv` compares the argument cells with `Words`,
   the reference's parser, which is defined on the line alone.  `ArgsReading`:
   so far every argument is stored and ended (`WholeSoFar`), or the last one is
   being read (`OpenSoFar`), or argument k + 1 found no slot or no room and
   the line is drained (`Dropped`); each comes with where `arg_cur` and `xcur`
   stand, as a sum of the lengths before (`Need`).  `ArgsRead`: from the end of
   the line to its act the vector holds the arguments that fit (`VectorFits`),
   or all of them, the last without its NUL (`VectorBrims`), only if it ends
   the line and fills the last cell.  The start of the arguments is `arg_cur` at
   the prompt, because no line gives cells back: the proof does not assume an
   empty buffer.  Theorems: `MshArgumentsCorrect`, `MshArgvFaithful`,
   `MshCdTarget`.

The reference splits a line by set comprehension and counts cells with a
recursive function.  The lemmas say what one byte more does to it
(`WordsAppend`, `ArgWordsStep`, `NeedStep`), and the steps of the reader are
proved against them.

### PID 1 and the process tree (`BootProofs`, `CircleProofs`)

* `BootConsoleClaimed` and `BootReportsTrue`: `FdsInv` gives the whole
  descriptor table at each label: after c successful opens it is `Row(c)`, and
  the issue stands at c, which is 3 only if all three succeeded, so that only
  then is it closed again; `MountInv` says
  that mounts not yet tried are neither mounted nor reported and that the error
  flag at the report is that of the mount.
* `CircleTypeCorrect`, `CirclePidOneStays`, `CirclePath`, `CircleOneForeground`,
  `CircleWaitersHaveTheirChild`, for all budgets and faults.  The invariant
  `PathInv` has two parts.  A process on its way into wait4 has the child it
  forked last (`ChildKept`): that survives everything, since only its parent or
  its adoption by PID 1 takes a child away, and a parent that stops waits no
  more.  And the living processes form a path from PID 1 in which everyone but
  the last waits for the next (`ParentWaits`): that ends when a process is
  stopped at its budget before its child, or wait4 fails although the child is
  there.  `strayed` remembers it, and `OneForeground` claims nothing afterwards,
  because two shells then do read one console (see Observations).
* `CircleHandsOver`: up to that step, which may do anything, the tree implements
  `Console`, the stack of programs without its fairness.  The refinement mapping `Owners`
  follows the waits from PID 1; the proof shows that this walk comes to an end
  before the table does (pids on it differ, so they are too few to go on:
  `FollowsOnce`), that all but its last stand at wait4 and the last is the
  process that acts (`OnChain`), and then what each step does to the stack: fork
  and wait4 nothing, execve a call or a respawn, exit a return.  A respawn puts
  only a shell on the empty stack because a label between fork and execve tells
  what the parent waits for (`LabelInv`).

### The boot smoke test (`SmokeProofs`)

`SmokeNoTypeAhead`, `SmokeNoStandoff`, `SmokePassMeansSession`.  The invariant
counts along the serial line.  `LinesInv`: the commands that ran, the lines
received and the lines on the wire are together the commands typed, in order,
whichever of them failed.
`PromptInv`: the prompts counted by the harness and those still in the output
are at most the commands that ended and the one being read or run, and exactly
those if none was garbled.  `HarnessInv`: one command per prompt.  `SeenInv`:
what is output of a command, in `seen` or on its way there, was written by one
that has ended, and not by one that failed.  Two lemmas count the prompts of output that is appended to or cut anywhere.

### Runtime (`M8VMProofs`)

`M8InstructionsKept`, `M8FallThrough` and `M8TypeOK`.  `LineageInv` says that untouched
opcode cells hold the glyph expected of them, all other untouched cells hold
what was loaded, and the loader's walk never stops inside a frame; the last is
an invariant of the walk, which is why the loader is modelled step by step.

`M8TypeOK` says that every register and every cell stays a word, so that none
of the indices `m8.c` takes unchecked (`mem[C]`, `mem[D]`) leaves the array.
`TypeOK` is inductive together with `LineageInv`; the work is in the operators:
the partial sums of `crazy` stay below the next place value, a rotated word is
below 3 times the highest place value, whatever five cells a frame word is read
from it is a word, `fill_tail_classic` grows a memory of words of the right
length, and what `vm_install_argv` writes are words.  Place values are tables
in `M8VM`, as the code multiplies them up, since the provers know nothing of
`^`.

`PlannerComputesAsTheMachine`: `m8.c` and `m8crazy.py` each have a crazy
operation and a rotation, written twice in two languages; on words of any width
they are the same, so that what replays in the planner replays in the machine.
`M8VMProofs` has `CrazyWords` as the instance `Planner` for this.

### Searches (`CrazySearchProofs`)

The first four do not look into what a step of either graph does.

* `PlansCanBeFollowed`: every node ever queued replays (`PlanInv`).
* `WordsAreQueuedOnce`: the words of the queue, of the solutions and of the node
  being expanded are distinct and already marked (`WordInv`).
* `FirstIsShortest`: `LayerInv`.  Both this and the next theorem have the one
  exception of the code in their statement (`Overlooked`).  While nothing is
  found the queue holds words of two adjacent layers of the graph, the nearer
  ones first, and every word seen still waits its turn, or is no goal other than
  that one and has had its successors seen.
  The layers are those of a reference by sets, with no queue.
* `NotFoundTellsTheTruth`: when the queue runs dry `seen` is everything within
  the depth, so no goal is there; `GoalInv` says it of each set of goals that
  was already given up.

The others rest on the trits of a word.  `Digit` is the trit at a place as
quotient and remainder; a number of n trits with one more above it keeps them
and has the new one (`OneMoreTrit`), which gives that `from_trits` and `to_trits`
are inverse to each other (`FromTrits`, `FromToTrits`).  With the table of
crazy, a word is a mask exactly if each of its trits is a choice of
`solve_crazy` (`SolveIsExact`), and likewise for a seed (`SeedIsExact`).

* `RoutesReachTheirTarget`: the rows of a printed plan, replayed without the
  search, put x+1 into A on the mutable cell asked for.  The word found is one
  of the masks still to try (`GoalInv`, `FoundIsMask`), its path is a runway of
  `p` and `*` whose rows do what its steps do (`RowsReplay`), and the last row
  applies a mask to x (`RouteOfMask`).
* `SummaryTellsTheTruth`: the two numbers the profile of increments ends with.
  `SumInv` counts them over the values done so far; a value is closed either
  with a plan, whose word is then within the depth (`GoodWithin`), or after its
  last mask, when by `GoalInv` none of those tried is (`VerdictIsTrue`).
* `MasksAreTheSmallest`: `masks_for_solve` sorts all combinations of choices and
  cuts the list; the model builds it place by place.  It is in order (`Spans`)
  and misses none (`Complete`) up to the cut.
* `ChainsAlwaysExist`: the claim in the comment at `m8crazy.py:378` and in
  `docs/m8-spec.md:367`.  Every trit of `ALL_TWOS` is 2 (`AllTwos`), which every
  trit leads to and which leads to every trit (`OverAllTwos`); `smallest_seed`
  returns the smallest seed or none (`SmallestSeed`), so `plan_entry` is never
  blocked for want of a chain.

### Packaging (`BuildProofs`)

* `BundlesAreWhole`: while checksums stand, nothing has been written to the
  bundle since they were taken, only removed (`BundleInv`).
* `UpToDateShowsTheSources`: `VersionInv` relates times to contents: a file that
  make takes for new was made from the version its prerequisite has now
  (`Dated`), with the one exception of the manifest written over the image,
  which the next pass of make 4.3 repairs, and for a change that left no file
  newer than the image (`unseen`); `Reached` says it of the pass in progress, rule
  by rule.  The step from "same version" to "mfs.cat prints the file" is a
  theorem of its own about the layout of the image, `CatPrintsTheFile`: entries do
  not overlap, each lies where the manifest says, and its bytes are the file's.

### How, and what is left to TLC

Induction over data is done on sets of numbers: a claim about every sequence is
stated as the set of the lengths, or indices, for which it holds, and that set
is all of them by the existence of least elements (`LeastNatural`,
`SetInduction`, `BoundedInduction` in `DataFacts`).  A recursive function is
reached by proving that the table it describes exists.  No operator is a
parameter of a lemma.  The `USE` at the head of each proof module names the
provers a leaf is tried with, the last two with a longer limit, so that the
proofs do not depend on how fast the machine is.

Every safety property that a run checks is stated by a theorem, but for those of
`ScrollRun`.

Only model-checked, and why:

* all liveness (`PromptReturnsUnlessStarved`, `CommandReturns`,
  `ZombiesAreReaped`, `BootReachesShell`, `SmokeEnds`, `MakeConverges`), and with
  it the fair part of `ImplementsConsole`: fairness and ENABLED;
* `ScrollRun` (`VerdictsAgree`, `RunsTheSource`, `StartsWithData`,
  `PlanIsWhatRuns`, `RitualRewritesCell`, `EmittedScrollIsMacro`): the assembler
  and the planner's search are recursive operators, which exclude a module from
  proof.

## Findings

* `msh_overflow`: an argument that takes the last cell of the argument buffer
  and ends the line keeps its slot and gets no NUL; documents say it is dropped.
* `scroll_data`: data before `start` is counted as ticks although the jump to
  `start` skips it, so the example of `docs/m8-spec.md` for `crazyinc-cell` is
  planned with a wrong D and does not rewrite its cell.
* `build_stale`: the recipe of the grouped rule for `root.mfs` and
  `mfs-manifest.m8a` writes the image to `$@`.  When the manifest is the target
  that triggered it, the image is overwritten by the manifest and `root.mfs`
  stays old for this pass.  With make 4.3 a second pass repairs it
  (`UpToDateIsCurrent`), because each target of a grouped rule is old by itself.
  From make 4.4 on the rule runs whenever one of its targets is old, for the
  manifest first, and `root.mfs` is never written again (`PeersRemake`).

## Observations

Not runs, but worth knowing; the models have all of this behaviour.

* A command word of at least 24 bytes that begins with `/`, `./` or `../` is run
  without its `.mb`: the path buffer has no NUL, and open(2) and execve get
  `/bin/` with the buffers of path, name and arguments run together.  After 24
  slashes and the argument `echo.mb` they open `/bin/echo.mb`.  The comment at
  `msh.m8a:262` says that open fails.  `OnlyTheTypedCommandRuns` has this
  exception and no other.
* The opens of the console are not checked and `issue_close` closes descriptor
  3 by number, so if one of them fails `/etc/issue` is opened on 0, 1 or 2 and
  stays open in every shell.  `ConsoleClaimedOnceOpened` says which descriptors
  the shells get in each case.
* The step budget of `run()` (10,000,000 instructions) applies to PID 1 too,
  whose exit panics the kernel; `README.md:396` says that PID 1 does not exit.
  In `circle_budget` it does; `PidOneIsInit` says that nothing else ends it.
* A shell that stops between fork and wait4 leaves its command to PID 1, whose
  wait4(-1) takes its end for the end of the shell (`init.m8a:63`), so that two
  shells read the console.  `OneForeground` claims nothing from then on
  (`strayed`).
* After a failed fork PID 1 does not wait, so a table full of its own zombies
  is never emptied: the exception of `PromptReturnsUnlessStarved`.
* `bfs_find` never queues the start word again (`m8crazy.py:199-212`), so a search
  that asks for at least one step overlooks it.  `search-word 0` from 0 says "no
  sequence found" although rotA leads from 0 to 0, and the first solution of
  `search-byte 0` from 0 is longer than that one step.  `Overlooked` is this word.
* The smoke test has no marker for `pwd`, although `README.md:399` says that it
  validates it.  Some of its markers are part of the line it types and come back
  as its echo (those of `echo`), others are in what the boot or an earlier
  command wrote (`bin`, `8th Circle Linux / M8 initramfs`, `mfs.info.mb`), so
  that they are found although the command failed.  `PassMeansSession` says what a pass still means.
* make knows `src/mfs/root` by the times of the files that are there now
  (`Makefile:31`, `Makefile:193`).  After a file is removed, or one with an old
  time is moved in, `make distro` finds everything up to date and ships the old
  image until something else changes: `unseen`, the exception of the properties
  of `Build`.

## Not modelled

* Runtime: `--classic` images, tracing, option parsing, reading the file.
* Commands `echo`, `cat`, `ls`, `pwd`, `issue` beyond running and ending;
  `mfs.ls`, `mfs.stat`, `mfs.info`, which print the table `Mfs` builds; the way
  of the vector through execve into a command's slots.
* `print_fdec`: division by file offsets.
* `m8asm.py`: the lexing of a line (comments, quotes, number formats);
  `m8glyphs.py` only prints.  `m8crazy.py`: what it prints, argument parsing.
* `m8_arith_audit.py` counts mnemonics of source lines against a number in the
  Makefile and touches no image; `m8_loader_tests.py` is a test.
* Packaging: the bytes of the cpio archive, the library search of
  `build_rootfs.py`, images other than `mfs.cat`; write errors, after which a
  tool leaves a partial output that make takes for new; an interrupted
  `make clean`.  A file half copied into the bundle or the tree is not told from
  none: the sums and the stamp come after all copies.
* Signals: PID 1 has no controlling terminal and no scroll sends any.

## Plan

1. `ArgvAbi`: the vector of the shell through execve and `vm_install_argv` to
   the slots that `echo`, `cat` and `ls` walk; property: what the command sees
   is what the shell built, within limits that are named.
2. `Commands`: `echo`, `cat`, `ls` as state machines over that block;
   descriptors closed on every path, first failure stops, the walk over
   directory records ends.
3. `PrintFdec`: division by file offsets, the two scratch files.
4. `M8Isa`: an abstract machine without ciphers; `M8VM` implements it for
   images whose code is not written to.
5. `ScrollRun` without recursive operators (`load_source` and the scan of
   `M8Asm`, the search of `M8Crazy` as functions), and the agreement of assembler
   and loader as a theorem.
