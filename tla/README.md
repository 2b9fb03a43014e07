# TLA+ models of the systems-programming lab

The repository is a collection of C programs written for nine labs of a systems-programming
course. Most exist in several versions: a `warmup`, the `actual` one that was handed in, and for
lab 5 a `post-actual` one that corrects it. These modules model the programs that have a state
worth checking: the shells with their processes, descriptors and variables, three menu-driven tools
that own memory, descriptors and mappings, the program with signal handlers that the shells are
tried on, and the filters and menus of the first labs; each with its earlier versions and stages.
Together they are about 18,900 lines of TLA+: 4,800 of models and 14,100 of proofs.

Contents: [inventory](#inventory) · [modules](#the-modules-and-the-code) · [runs](#the-runs) ·
[fairness](#fairness) · [proofs](#proofs) · [disagreements](#where-code-and-documentation-disagree) ·
[not modelled](#what-is-not-modelled) · [plan](#plan)

## Inventory

| Part | State | Operations | What makes it hard | What makes it right |
|---|---|---|---|---|
| lab-5 job-control shell (`post-actual`, `actual`, `warmup` `task2.c`) | linked list of processes with pid and status; the children and their pending signals in the kernel | execute (foreground, background), `procs`, `suspend`, `kill`, `wake`, `quit` | children die, stop and continue between any two system calls; pids are used again; a wait may find no child | the list tracks every child, signals reach our children only, leaving interrupts all of them and ends |
| lab-6 pipeline shell (`task4.c`, 2 versions) | descriptor tables of shell and children, pipes | one command with redirections, two with a pipe, `&` | who holds which end of the pipe when; pipe, fork, close, dup failing in the middle; shells started with closed descriptors | programs get their ends and nothing else, end of file and SIGPIPE get through, the shell's table is restored |
| lab-6 shell front end (`task4.c`, `LineParser.c`) | list of variables, parsed command chain, heap blocks | parse, look up builtin, expand, `set`, `vars`, `cd`, `quit` | order of lookup and expansion, chains of commands, ownership of name and value strings | the list is a map from names to values; nothing leaks; nothing dies of legal input |
| lab-7 hex editor (`task1.c`, `hexeditplus.c`) | buffer, byte count, unit size, file | load, display, save, modify | `int`, `size_t`, units and bytes are mixed; numbers are the user's | an action leaves the buffer only for one of the causes that are listed, and the count outgrows it only by a product that wraps; a save writes what was counted |
| lab-8 ELF reader (`task3.c`) | descriptor, mapping and four remembered pointers | examine, print sections, symbols, relocations, quit | failures in the middle of examining; addresses are used again; data of the file are indices | nothing leaks; no pointer of an earlier file is used; a crash is the fault of wrong section numbers, or of a refused file that stays mapped |
| lab-3 virus detector (3 versions) | list of signatures, heap, streams, the suspected file | load, detect, fix, quit | a load fails after some records; the buffer ends in the middle of a signature | a load replaces all or nothing and leaks nothing; what is in the part of the file that is read is found, what was fixed is not |
| lab-5 looper (3 versions) | what each signal does, the handlers that run, innermost first | SIGINT, SIGTSTP, SIGCONT | a second and a third signal between any two calls of a handler; stop and continue discard each other | one of the two handlers stays armed; an interrupt ends it |
| lab-5 first shells (`task1.c`) | the program that is waited for | execute (foreground, background), `quit` | the wait may fail, or find another process | a wait ends with its program |
| lab-6 stages (`t1`, `t2`, `t3`) and fixed pipelines (`mypipe`, `mypipeline`), lab-7 `task-0`, `task-1c`, lab-8 `task-0` to `task-2`, lab-3 `task1c` | parts of the state above | parts of the operations above | as above | as above |
| lab-1 encoders, lab-4 filters (`task1b.c`) | two streams, a mode and a place in the key | options in any order; one character at a time | an option acts at once; the key starts anew at each line; a byte that equals EOF; files named twice; going on after a failed open | what says nothing failed has written the translation of its whole input; decoding undoes encoding |
| lab-2 menus (`menu_map.c`, 2 versions) | an array of characters and the option | a function is chosen and mapped over the array, some read the same input or end the program | lines that are no number, input that ends anywhere, the entry behind the last function | only functions of the menu are called |
| lab-4 directory lister, small programs of labs 1 to 3 and 7, assembly of labs 4 and 9 | none, or bytes and registers | — | — | not modelled |

How the parts interact: the shells call the kernel (`fork`, `waitpid`, `kill`, `pipe`, `dup`,
`execvp`), and the children they start run concurrently with them. The lab-6 front end hands its
words to the pipeline part of the same program. The menu tools are sequential and talk to `malloc`,
to files and to `mmap`, each of which may fail at any call. No two programs share memory. The lists
of components and hazards with their lines are in `PROJECT.json`.

## The modules and the code

Pieces that are not source of the repository (the kernel, `malloc`, `fread`) are modelled from how
the programs use them and marked external in the map.

### lab-5: jobs

* `Processes` — the kernel: children that run, stop, become zombies and are reaped; pending
  signals (SIGINT before SIGTSTP, as by number; SIGCONT acts when it is generated); unreported
  stop and continue events; pids that may be given to a later child or to a foreign process once
  they are free. Two modes are chosen at the start and stay: `autoReap` (the shell inherited an
  ignored SIGCHLD, so `waitpid` fails with ECHILD) and `foreignPids`. Programs end when they like;
  others may send a bounded number of signals.
* `JobControl` — `lab-5/post-actual/task2.c`. `pc` names the system call that comes next, so every
  child may act between any two of them. A node of the process list is named by the fork that made
  it. As `addProcess` inserts at the head and removals keep the order, the linked list is the set
  `listed`, read downwards; `IsFirst(n, q)` is `find_process_by_pid`. `freed` remembers what was
  given back, so a walk that meets such a node goes to `pc = "undefined"`.
* `JobTable` — the abstract specification: a job starts, lives, dies, is reported once and only
  then forgotten, and `procs` forgets every reported job together. `JobControl` maps its kernel and
  list state to it (`phase`) and `TableSpec` is checked as a property.
* `JobControlActual`, `JobControlWarmup` — the two earlier shells over the same kernel: `kill`
  that marks the job terminated at once, removal that goes through `terminateProcess`, a list that
  grows at the tail. `JobControlFirst` — the three `task1.c`, which have no list: a program is
  started, and waited for or forgotten. `OldShells` is one of the three under the kernel of
  `Processes`, with what they promise; `MCOldShells` gives it TLC's constants.
* `JobControlProofs`, `OldShellsProofs` — the theorems.
* `Looper` — `looper.c`. `frames` is the stack of the handlers that run, each with the call it
  makes next, so that any signal that is not blocked may interrupt it there; the kernel blocks the
  signal of a handler, delivers all it can before the program goes on, and lets a stop and a
  continue discard each other. Its theorems are in `ProgramsProofs`.

### lab-6: pipelines and variables

* `Descriptors` — descriptor tables as functions from numbers to what is open (`Inherited`, a file,
  an end of the pipe of a line), `close`, `dup` and `open` on the lowest free number, pipes of
  bounded capacity, programs that write, read, meet end of file or SIGPIPE, or end.
* `Pipeline` — `execute` of `lab-6/actual/t4/task4.c`: one action per call of the shell (pipe, two
  forks, closes, waits). What a child does before exec touches its own table only and is one
  action (`ChildTables`). `PipelineWarmup` is the earlier shell, which in debug mode goes on after a
  failed `pipe` or `close` and waits according to the flag of the wrong command.
* `PipelineStages` — the eight programs of lab-6 that start others, over this state: the two final
  shells, three shells before they knew pipelines, `ls -l | tail -n 2` built by hand with and
  without looking at results, and a child that sends its parent a message. `stage` says which one
  was started. The properties of the runs are stated here, each saying which programs it is of.
* `PipelineProofs` — the theorems about all eight.
* `LineParser` — `LineParser.c` on lines of tokens: parts between bars, redirections, the `&`, the
  chain of commands, an empty part that ends it.
* `Environment` — the abstract specification of the variables: a map; a line assigns, or hands over
  its words, each replaced as often as `Rounds` says of the shell that was started.
* `Variables`, `VariablesWarmup`, `VariablesStages` — the loop of each shell: parse and look up the builtin, expand,
  handle, free. List nodes carry the three blocks `malloc` gave for them. `VariablesStages`
  adds the three stages, starts one of the five and states what they promise, with that all of them
  implement `Environment`: `EnvOf` is the map that a list stands for, `Rounds` is once for every word
  in the later shells, never in the first, and in the earlier ones, for the arguments of the first
  command only, once or as often as the line has commands. `MCVariables` has the lines that are typed.
* `VariablesProofs` — the theorems about the parser and all five front ends.

### Tools

* `HexEdit`, `HexEditWarmup`, `HexEditStages` — offsets, counts and unit sizes as `int`, converted to `size_t`
  (modulo `Wrap`) and back where the code compares or calls. `fread` and `fwrite` multiply in
  `size_t`, where a product wraps (`Requested`); what the code multiplies or adds itself is an `int`
  that may overflow (`Overflow`). The code compares addresses, so the buffer has one (`Base`) and its
  end may wrap (`BufferEnd`). A display reads a whole `int` at each unit, whatever the unit size
  (`IntSize`). `pc = "fault"` is an access outside the buffer or the name, which a long name
  overruns, an overflow of an `int`, or a print without a format; C says nothing of what follows.
  Only the source address 0, which means the buffer, is modelled. The stages have some of the
  actions: one sets names and unit sizes, one also loads and displays. `HexEditProofs` has the
  theorems, of all four.
* `ElfTool`, `ElfToolStages` — a pointer is an address and what it points to there. The kernel gives free addresses
  out again, so a pointer of an earlier file can look right. What stands in a file (section types,
  links, entry sizes, symbol sections) is taken from a set of files; offsets inside the file are
  taken to be right. Each of the five stages is a menu of its own over these actions; the first
  has no tables to print, that of the warmup prints relocations without looking for the symbol
  table. `ElfToolProofs` has the theorems, of all five.
* `VirusDetector`, `VirusDetectorWarmup`, `VirusDetectorStages` — four versions, of which the last
  module starts one. A load is one action per record, so that any `malloc` or
  `fread` of it can fail with a part of the new list built. Only the first `BufLen`
  bytes of the suspected file are read; bytes behind them in the buffer are arbitrary at each
  detection, and `memcmp` looks at these too. `VirusDetectorProofs` has the theorems.

### Filters and menus

* `TextFilters` — the three encoders and the three `task1b.c`, two of which may follow each other
  on the same files. An option acts when its turn comes, so the user is asked for them one by one;
  `fopen` for writing empties the file there and then, and reading a directory fails like `read` or
  reads as empty like `fgetc`. A failed open ends the program, but for the first warmup: there a
  descriptor is an `unsigned long`, which is never below 0 (`task1b.c:8,218,225`), so after its
  message it goes on with `Nowhere`, reads nothing from it or loses what it writes to it, and may
  replace it by a later option. The stream is copied one character at a time. `coded` is a ghost: of
  a file that a run with `+e` wrote, the text and the key.
* `MenuMap` — both `menu_map.c`: a line for the menu, then one action per character of the array.
  What a line is made of is chosen among the end of the input, nothing, a word, a number.
* `MCPrograms` — extends these modules and `Looper` and runs one of the programs;
  `ProgramsProofs` has the theorems about the three.

## The runs

| Run | Question | Bounds |
|---|---|---|
| `jobs_base` | List, statuses, signals and quitting of the last job shell | two forks, two pids, one signal from outside, the first program ignores SIGINT, all four modes |
| `jobs_live` | Leaving ends; a suspended job that is killed dies; the shell implements `JobTable` | as `jobs_base`, without the modes and with no program that ignores SIGINT |
| `old_shells` | No live job is shown terminated, dropped or left behind without having been interrupted; a foreground wait ends with its program | as `jobs_base`, one of the three older shells |
| `jobs_stale_pid`, `jobs_dangling` | the two disagreements below (expected violations) | one fork, one pid |
| `pipeline` | descriptors of shell and programs, end of file, SIGPIPE, the prompt, in each of the eight programs of lab-6 | two lines of every kind, descriptors 0 to 4, pipe capacity 1, stdout and stderr open or not, in the earlier shell one line in debug mode (`DebugLines`) |
| `pipeline_redirect` | the disagreement on redirections (expected violation) | one line |
| `variables` | parser, list, heap, deaths and the refinement of `Environment` | every line of up to four words and symbols; lines that use and set two variables; any of the five front ends |
| `hexedit` | when an action leaves the buffer, when more is counted than it holds; what a save writes | buffer of four bytes at address 48 of 64, files of up to five, numbers −1, 0, 1, 2, 5, 17 and 31, unit sizes 1, 2, 4 and −2, `int` and `size_t` of six bits; any of the four versions |
| `elf` | descriptors and mappings, stale tables, what a crash is the fault of | two or three sections drawn from seven kinds, two addresses, every failure; any of the five stages |
| `virus` | memory and streams, all-or-nothing loads, reports that are right about what was read | two records, three signatures (one empty), file of up to three bytes of which two are read; any of the four versions |
| `programs` | one handler stays armed, stops and continues are obeyed, an interrupt ends the looper; what filters write and that decoding undoes encoding; what the menu calls | six signals; two runs of the six filters, two names beside the standard streams, texts of up to three bytes with a line end, the last printable character and 255, keys of no, one and two digits and one that is none; an array of two characters, numbers −1 to 8 |

Why the bounds are enough for what can go wrong:

* Jobs: each hazard of the list is about a node and one other node with the same pid, or a node
  and a foreign process; two forks and two pids make all of these, with one signal to disturb them.
  The theorems remove the bound for the safety properties.
* Pipelines: the second line runs while background children of the first may still hold their
  ends. Five descriptors are three standard ones and two for the pipe; starting with stdout or
  stderr closed makes `pipe` return 1 or 2. Capacity 1 makes both a full and an empty pipe.
* Variables: four tokens are the shortest lines with a command, a redirection or bar, and something
  behind it; values of two atoms show one round of expansion from two.
* Hex editor: what matters are numbers below, inside, at and beyond the end of the buffer, negative
  ones that become huge in `size_t`, and large ones. With six bits, 17 units of four bytes wrap to
  four in `fread`, 31 units of two overflow an `int`, and 17 or 31 bytes reach beyond the last
  address.
* ELF: two addresses make reuse possible, and each kind of section meets itself and each other one.
* Looper: three signals are all that can be in handlers at once, each is raised once more by its
  handler, and three more disturb that; the theorems remove the bound.
* Filters: two runs are what encoding and decoding need, and what one run needs to find the output
  of another; texts have a line before and after a line end, keys wrap within a line. The theorems
  remove these bounds, too.
* Menu: two characters make a map that can end the program, or its input, before and after the
  first one was written.
* Virus: a file longer than the buffer, a signature longer than what is left, two records so that a
  load can fail after one.

`CHECK_DEADLOCK FALSE` is set in every run, since every program stops: shells and tools quit, and
a foreground program may stop for ever.

Type invariants are checked where an overflow or a wrong value is a hazard (`hexedit`) and proved
for every component but the lab-6 front end, whose invariant has the types it needs, and the
filters and menus; the `TypeOK`s that are neither document the variables.

Properties that look odd deserve a word. What `OldShells` promises of a shell that has left says
nothing of the first ones, which keep no list and notify nobody. `AloneShownAliveIsUnreaped`,
`OwnedListIsLive` and `SignalsOwnChild` hold only in some modes of the kernel, and say in which;
without the condition the first two are the violations below. The properties of `PipelineStages` leave out what
a program does after it overlooked that no pipe was made (`unnoticed`: the earlier shell in debug
mode, and the pipeline by hand that looks at no result). `CrashHasCause` says of a file that is
accepted that its sections are not right (`SectionsRight`: section numbers that exist, entry sizes that
are not zero, and relocations whose link is a symbol table), and of one that is refused that it is
still mapped without a table; an ELF64 file is of the second kind however right its sections are.
The condition on relocations was found when the proof failed without it, since no file of the run
had a relocation table that led to another kind of section. `DefinedInRange` is a list of causes, not
of inputs that are wrong: a display of the last three bytes of the buffer in units of one byte is
among them. `ReportsRight` speaks of the bytes that were read, and lets a report that overhangs their
end be false; `EncodesByLine` speaks of runs that say nothing failed, on which `Succeeded` is exact.

## Fairness

* `JobControl!FairSpec`: weak fairness for the shell's own steps and for the delivery of a signal
  that is pending for a running child. The scheduler gives both. Nothing is assumed of the user,
  of programs ending, or of others. A child that stays stopped is not delivered anything, so
  `SuspendedKillEnds` depends on the SIGCONT of the code.
* `PipelineStages!StagesSpec`: weak fairness for the shell, for children between fork and exec, and for reading
  and writing of programs. Programs need not end by themselves, so `EofOfStage` and
  `SigpipeOfStage` depend on which ends of the pipe are closed.
* `Looper`'s `Spec`: weak fairness for the delivery of signals and the steps of `main` and the handlers,
  which the kernel schedules; none for signals being sent, so an interrupt must be sent to end the
  program, and a stopped program waits for its continue.
* The other specifications state safety only.

## Proofs

The theorems hold for every value of the constants that the named assumptions allow. An assumption
says what the constants stand for: `ConstantsAssumption` that forks, pids and sets of modes are what
their names say, `LooperAssumption` that the bound on signals is a number, `TextFiltersAssumption`
that texts and keys are sequences of bytes, the two marks for missing files are not, and no name is `Nowhere`,
`DescriptorsAssumption` that there are lines, a descriptor table with room for the standard three
and pipes that hold something, `ElfToolAssumption` that files are records of the ELF header's fields,
`LineParserAssumption` that a command has room for more than one argument, `VariablesAssumption`
that what is typed is sequences of words, and that `Count`, for which all positive numbers may
stand, numbers their tokens, `VirusDetectorAssumption` that signatures and files are
sequences of bytes within the bounds, `HexEditAssumption` that numbers and unit sizes are what an `int`
holds and that the buffer lies inside the address space. None leaves out something that can be
entered.

The safety properties are not inductive. Each proof module therefore has an invariant that is, from
which they follow.

**Jobs.** `IInv` (in `JobControl`, beside the properties) is

* `TypeOK`;
* `PidsUnique`: no two unreaped children share a pid — without it, a poll of one could reap another;
* `ForkOrder`: nodes and processes are those of the forks made so far — a new node is the largest,
  hence first in every search;
* `Control`: what each `pc` says about the node in hand and about leaving;
* `Tracked`: the property itself;
* `LeavingNotifies`: while the shell leaves, a live child is still ahead in the list or was sent
  SIGINT.

`IInvStep` has one step per action; what the kernel operators do is in four lemmas at the start.
Two further invariants are inductive relative to it: `IInvOwn` (children are reaped by the shell
alone: the list is live, the child being waited for or signalled is unreaped) and `IInvAlone` (and
pids go to no foreign process). The results:

| Theorem | Says |
|---|---|
| `TypeCorrect` | type correctness |
| `AlwaysTracked` | every unreaped child is the node that a search by its pid finds |
| `QuitAlwaysNotifies` | after leaving, every child is dead, has SIGINT pending or ignores it |
| `NeverSignalsForeign` | the pid that is signalled is held by a child, if the shell reaps its children |
| `ListStaysLive` | no freed node is in the list, if the shell reaps its children |
| `ShownAliveMeansUnreaped` | a node shown alive is unreaped, if moreover no foreign process takes a pid |
| `TerminatedStaysFinal` | terminated is final, under the same conditions |
| `KillIsFinished` | after the second signal of `kill` to a suspended job, it is dead, or runs with the SIGINT pending or ignored |
| `ImplementsTable` | every step is one of the abstract job table or none, under the conditions of `ShownAliveMeansUnreaped` |

`KillIsFinished` needs one more fact, `ContNotified`: between the two signals every child with that
pid was sent the first one. `ImplementsTable` maps the phase of a job to what the list, or a freed
node, says of it; its hypotheses on the two sets of modes are those of the run that checks the
refinement, and both are choices of how the shell is started.

**The earlier job shells.** `OldInv` of `OldShellsProofs` is, for the shell that was started, the
kernel's invariant `KernelInv` with: who is shown as terminated or is in no list is dead or was sent
SIGINT (`ForgottenWereNotified`), while the shell leaves the live ones are ahead in the list or
notified, and the child waited for has its pid to itself (`Waiting`). Steps of the kernel are all
`Quiet`: they raise nobody and lose no SIGINT, so the shells' parts need one lemma each for them.
The results are `OldTypeCorrect`, `ForgetsNobody`, `LeavesNobody` and `WaitsToTheEnd`.

**Pipelines.** `Inv` of `PipelineProofs` says for each `pc` which descriptors the shell holds beyond
those it started with (`ShellHolds`), for each child between fork and exec that it holds the same
and for each program that it has its end of its pipe and no other (`ChildrenHold`), that what
was not forked has left no trace (`NotYetForked`) and which children are over (`Collected`); the
descriptor parts only as long as no missing pipe went unnoticed. The kernel's part is in the lemmas
about lowest free numbers: `close` then `dup` of an end puts it where it should be, also when
`pipe` returned 1 or 2. The results are `StagesTypeCorrect`, `EndsInPlace`, `TableRestored` and
`ForegroundCollected`, for any number of lines, so with any number of background programs.
`RedirectionsInPlace` has an invariant of its own, `AllRedirected`: a child that has opened a file
has it in place of what it inherited, until it starts its program and after.

**Front end.** `VariablesProofs` starts with the parser, which is a fold over the tokens of the line.
`Splits` and `Parsed` say of any prefix what commands, arguments and redirections were made of it,
`ParserRight` that for every line they are those that its tokens say position by position:
truncated at `MAX_ARGUMENTS`, with the last redirection of each command. Then come the operations on
the list of variables (which block is whose, `Owns`: no two nodes share one) and the replacement of
words. `FrontInv` says that the list owns the heap exactly, in the earlier shell with a first node
for `HOME` that owns nothing (`ListRight`), that the chain in hand is what was parsed (before expansion) and
that without a `HOME` no `~` is left among the words the earlier shell has replaced (`NoTilde`). The results are `ParsesAsItReads`, `ListOwnsHeap`
and `OnlyRedirectionsKill`, for all five shells, any lines and any number of variables.

`ListIsMap` is the refinement: `StagesSpec` implements `Environment`. The names of the list are the
keys of a map (`Keys`, `MapOf`), its first node with a name gives the value, and a search, a new value
in place, a node in front or at the end are what `Environment` does to the map (`MapReplaced`,
`MapInFront`, `MapAtEnd`). `EnvInv` has the words in hand: those of the chain are the typed ones
replaced as often as the shell has so far (`SoFar`), which is all of `Rounds` once it handles the line,
and a builtin was found among the words as typed. Each step of a shell is first shown to be one of
seven kinds (`EnvMoves`), and each kind to keep `EnvInv` and to be a step of `Environment` or none.

Induction over data is by `SetInduction`: a set that has 0 and with each natural number the next has
them all. It follows from the least-element principle for sets of naturals; the library's
induction theorem has an operator as parameter and cannot be cited.

**Looper.** `TypeOK` with distinct signals in the stack of handlers, `RenewComes`: when neither
handler is armed, one that will arm its opposite was interrupted, and `IntWasRaised`. The results
are `LooperTypeCorrect`, `OneStaysArmed` and `NoIntIsLost`. For `UnhurriedIsObeyed` the invariant
`Obeying` is added: as long as nobody hurried, a stop that was sent last is still pending, in a
handler that will raise it, or done (`StopComes`), and nothing of an earlier one is left after a
continue (`NoStopComes`).

**Hex editors.** `HInv` is `TypeOK` with `InRangeOfVersion` and, of the warmup, that no more is
counted than the buffer holds; of the later editors this cannot be said, since a load whose product
wraps breaks it. There is one lemma for each action. The arithmetic is below them: what `size_t` and
`int` make of the numbers entered (`Widths`, `SizeTOf`, `EnteredInts`), what `fread` and `fwrite` are
asked for and give (`RequestedOf`, `AvailableOf`, `LoadCounts`), what a comparison of addresses lets
pass (`AddressOf`, `EnoughOf`, `ShownOf`) and what that of offsets does (`ModifyBounds`). The results
are `HexTypeCorrect`, `FaultsOnlyOutOfRange`, `SavesExactly` and `OutgrowsOnlyByWrap`, for every input.

**Virus detectors.** `VInv` has for the lists that both are made of distinct nodes with buffers of
their own, so that the blocks in use are counted right (`ListsOK`, with `Memory` and `Lengths`), for
a load in progress that what was read is the records so far, in the order of the version
(`ReadSoFar`), for the suspected file that a fix that was made is still there (`FilesOK`), and `ReportsRight`, which
follows from what the buffer and a prefix of what was read have in common (`PrefixIs`, `ReadFromIs`). The results are
`VirusTypeCorrect`, `NothingLeaks`, `ReportsAreRight` and `LoadsAllOrNothing`.

**ELF reader.** `IInv` of `ElfToolProofs` adds to `TypeOK`, `ResourcesExact` and `TablesAreCurrent`
the part `Control`: between giving up a file and mapping the next one nothing is remembered
(`Forgotten`), and at the menu a file with a descriptor is mapped and, if it is one of 32 bits, its
section table is known, while a file that was refused has none (`Examined`). Every action that gives up a file goes through
`CleanupPreserves`, every printing action through `PrintPreserves`. The results are
`ElfTypeCorrect`, `NothingLeaks`, `TablesStayCurrent` and `CrashesHaveCauses`. The last one combines
the invariant with what `SectionsRight` says of a file that is accepted (`RightSectionsReads`,
`RightSectionsTables`) and with what is read of one that is not (`RefusedReads`).

**Filters.** `FilterInv` of `ProgramsProofs` says that what was written so far is the translation of
what was read so far (`Copying`), that the next character of the key is the one that the place in
the line asks for (`KeyIsAtLine`), that failures are told (`Told`), and of each file written with
`+e` that it encodes the text it was made of (`Provenance`). Of a run that goes on after a
failed open, as only the first warmup does, it says no more than that it told so and where its streams
are (`Streams`; `NowhereInv`, `FailedPutInv`, `FailedEndInv`). `TranslatesByLine` follows.
`DecodingUndoesEncoding` needs in addition that a shifted printable character is neither a line end
nor EOF, so that the decoder sees the same lines (`DecodesWhatWasEncoded`), and that each character
is in a line (`LineExists`).

**Menus.** `OnlyTheMenuIsCalled`, `NoWayOutAtEnd` (no step leaves the menu after the end of the
input) and `EncryptionUndone`: the three characters that Decrypt does not bring back.

**Model-checked only.** Liveness (`QuitExits`, `SuspendedKillEnds`, `EofOfStage`, `SigpipeOfStage`,
`PromptOfStage`, `IntEnds`), since it needs fairness and ENABLED, which the prover does
not reason about. Every invariant and every other action property of the passing runs is stated by
a theorem.

## Where code and documentation disagree

* `jobs_stale_pid`: `wake` and `suspend` signal a pid and then set the status of the first node
  that has it (`post-actual/task2.c:388`). If the job is over and a foreign process took the pid,
  the dead job is shown as running for ever, while the comment at line 95 calls the field the
  status of the process.
* `jobs_dangling`: `remove_process_by_pid` takes the head of the list by value (line 276). When a
  foreground wait fails with ECHILD the first node is freed and stays in the list, against the
  "next process in chain" of line 96.
* `pipeline_redirect`: the result of `fopen` is compared with `< 0` (`lab-6/actual/t4/task4.c:267`),
  so a file that cannot be opened is not noticed, and the output file becomes the standard input of
  the program, against the meaning `LineParser.h:7-8` gives to the two fields.

## What is not modelled

* Printing, debug output and wording, everywhere; names of viruses; the display flags of the editor.
* `cd` of lab 5, which changes no state the shell reads. In lab 6 only the word it gets matters.
* The hex editor on addresses other than 0: these are of the process itself.
* File offsets inside ELF files and truncated signature records beyond "the end came inside one".
* Writes that fail in the filters, which the code does not look at, except those to a stream that
  could not be opened.
* The programs listed as `not_modelled` in `PROJECT.json`. `addresses.c`, the echo, the sum, the
  sort of the arguments, the dump of a file and the programs of lab-7 that are there to be patched
  have no state that outlives a loop over their input, and each result is one expression. The
  directory lister of lab-4 prints the entries that `getdents` gives it and leaves what it does to
  the files to assembly. The behaviour of the assembly of labs 4 and 9 is the layout of bytes
  and registers, which these models leave out.

Known of the code, and no property of a run, since the code promises nothing else: a program that
is started with `&` by the lab-6 shells is never waited for and stays a zombie
(`lab-6/actual/t4/task4.c:329`); `a | b &` waits for `a` (line 403); the earlier shell never waits
for the second program of a line (`lab-6/warmup/t4/task4.c:492`); a foreground program of lab-5 that
somebody else stops keeps the shell in `waitpid` (`lab-5/post-actual/task2.c:455`). In the hex editor
(`lab-7/actual/task-1/task1.c`) a name of more than 127 characters overruns what follows it (line 167),
a load counts units as bytes, so larger units are undercounted, and one whose product wraps counts
more than the buffer holds (lines 193-202), displaying one of its last three bytes reads behind it
(line 270), and a save of bytes up to the end of the address space passes the test of what is
counted. The ELF reader leaves a refused file mapped, and printing it reads through NULL
(`lab-8/actual/task-3/task3.c:242,483`). The virus detector does not look behind the first 10000 bytes
and may report falsely at their end (`lab-3/actual/t2/task2b.c:212`). The first warmup of the filter
goes on after a failed `-o`, loses what it writes and returns 0
(`lab-4/warmup-1/task-1/task1b.c:218-233`). The menu is shown without end once its input has ended, and
that of the warmup lets the NULL behind its last entry be called. The models have these behaviours,
and the properties name them where they are the exception.

Model constraints that are not in the code, each named where it is declared: `MaxForks`, `MaxExt`,
`MaxLines`, `DebugLines`, `MaxSent`, `MaxRuns`, `MaxFd`, `Cap`, `MaxVars`, `MaxFile`, `MaxRecords`, `MaxStreams`, `MaxSection`, and the
sets of words, numbers, texts, keys and files that are entered. `BufLen`, `BaseLen` and `MAX_ARGUMENTS` are constants of the
code, and `Wrap` and `Base` of the machine, made small.

## Plan

Done, in this order: `Processes`, `JobControl`, `JobTable`, `JobControlProofs`, the earlier job
shells; `Descriptors`, `Pipeline`, `PipelineWarmup`; `LineParser`, `Environment`, `Variables`,
`VariablesWarmup`; `HexEdit`; `ElfTool`, `ElfToolProofs`; `VirusDetector`; then the stages of all of
them, `Looper`, `TextFilters`, `MenuMap`, `PipelineProofs`, `ProgramsProofs`; then the theorems about
hex editors, virus detectors, earlier job shells and the front end, and the refinements of the job
table and of the map of variables.

Models: what is left without one is in the section above, with the reason.

Next, theorems: the safety halves of the liveness properties, where they say something of their own:
what `quit` and the second signal of `kill` have left to do, and that the reader of a pipe is not kept
waiting by a descriptor that the shell forgot.
