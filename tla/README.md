# A TLA+ model of sys-tester

sys-tester runs a program in a sandbox and lets a test say which system calls it
must make, in which order, and how they are answered. This directory holds TLA+
modules that model the core of the crate, TLC configurations that check them on
small instances, and TLAPS proofs of most of what they check for every instance.
Source paths below are relative to the crate (`src/` in the crate is written
`src/src/` in PROJECT.json, whose `map` gives the lines of every definition).

## The system

| part | source | state | operations |
|---|---|---|---|
| test compiler | `compiler.rs`, `graph.rs` | task tree, `happens_before`; boundaries, atom and task edges | `TaskInfo::compile`: boundaries, edges, topological order, transitive reduction |
| graph search | `graph.rs` | visit states, stack positions, frames | `topological_order`, `transitive_solved_reduction` (also `tarjan`, not yet used by the rest) |
| supervisor, scheduling | `runner/supervisor.rs`, `runner/request.rs` | `wait_counts`, `ready_atoms`, `info` | `new`, `get_task`, `mark_done`, `iter_undone` |
| supervisor, processes | `runner/supervisor.rs` | `procs` | `register_process`, `handle_process_creation`, `try_handle_process_creation`, `reap_exited` |
| ptrace | `runner/ptrace.rs` | none; the kernel's stops | `seize`, `continue_to_fork`, `reject_process_creation`, `resume_fork`, waits |
| startup | `runner/spawn.rs` | one shared page, a socket pair, three processes | `spawn_seccomp_target` |
| file spaces, tracker | `runner/fd.rs`, `runner/tracker.rs` | descriptors of a child, pending notification | `respond_real`, `respond_mock`, `remove_file`, seccomp ioctls |
| page buffer | `buffer.rs` | pages, length | copies from a tested process |
| seccomp policies | `build.rs`, `seccomp_filters.rs` | tables of system calls | four BPF programs, at build time |

A test description is compiled once; the compiled graph of *atoms* (expected
system calls) goes to the supervisor. `spawn_seccomp_target` starts the program
under a seccomp filter and a tracer. From then on a notification of a system call
is matched by `get_task` and retired by `mark_done`, and a process creation, which
stops under ptrace, is carried through by `handle_process_creation`. Which calls
notify, stop or pass is decided by the seccomp filter the build script compiled; a
call that opens a file is answered through a file space, which tells real
descriptors from mocks. The event loop that ties these together is not in the
repository yet, so the parts are modelled one by one, each against every caller its
contract allows; where two parts meet in the repository itself (the compiler's
result in the supervisor, file spaces in process creation) they are composed.

What is hard: the startup protocol has three processes, shared memory that is
used again, and death at any moment; the process-creation handler works on
processes that run, receive signals and die between any two of its calls; the
scheduler's correctness depends on the order in which a whole graph completes; and
the compiler has to be exact about tasks that overlap, repeat or are empty. An
answer that installs a descriptor is two system calls, between which the asking
process may die or withdraw its call, and a copy from a process is a loop of reads
while the process changes its memory. The hazards, with their lines and the properties that watch them, are in PROJECT.json.

## The modules

| module | models | checked by |
|---|---|---|
| `AtomOrder` | what the scheduler promises: every atom runs at most once, after its predecessors | refined by `Supervisor` |
| `Supervisor` | scheduling half of the supervisor | `MCSupervisor`, `SupervisorProofs` |
| `Spawn` | `spawn_seccomp_target`: supervisor, spawner, target, page, sockets | `MCSpawn`, `SpawnProofs` |
| `ProcessCreation` | process half of the supervisor and the ptrace primitives, over a model of the kernel's ptrace stops | `MCProcessCreation`, `ProcessCreationProofs` |
| `AdjacencyLists` | the graphs the searches run on | extended by both searches |
| `TopologicalOrder` | `topological_order`, edge by edge | `GraphSearches` |
| `Tarjan` | `tarjan`, edge by edge | `GraphSearches` |
| `GraphSearches` | both searches on the same graph | `MCGraphSearches`, `GraphSearchesProofs` |
| `Compiler` | `TaskInfo::compile`, with its recursion call by call and the reduction edge by edge | `MCPipeline`, `PipelineProofs` |
| `Pipeline` | `Compiler` and `Supervisor` composed | `MCPipeline`, `PipelineProofs` |
| `PageBuffer` | `PageBuffer` and its copies from a process, read by read | `MCPageBuffer`, `PageBufferProofs` |
| `FileSpace` | both file spaces, the tracker's ioctls, the copy at process creation | `MCFileSpace`, `FileSpaceProofs` |
| `SeccompPolicy` | the build script: groups, the four filters, their answers | `MCSeccompPolicy`, `SeccompPolicyProofs` |

Definitions whose comment starts with "Variant:" are deliberately wrong forms of
the definition that follows them. They are part of no specification; replacing the
right form by one of them has to break the property PROJECT.json lists for it.

**Supervisor.** `wait_counts`, `ready_atoms` and `info` are the fields of the
struct; `claimed` holds the atoms handed out and not yet marked done, which is what
callers must respect (`mark_done` only for an atom `get_task` returned). The
entry of a request is a set: the code pops from the end of a `Vec`, and any member
covers that. `Decrement` wraps as a release build does; `DecrementsSound` is the
`debug_assert` in front of it, extended to the mark: whatever is decremented next is
neither zero nor the mark of a finished atom, so nothing ever wraps. An atom without a request
(`DebugName`) reaching zero is the `todo!()` panic and ends the behaviour.

**Spawn.** One action per system call or page access of each process. The page is
one record because every reader is ordered after its writers: by `CLONE_VFORK`, by
a message, or by the wait for the spawner. `Launches` calls follow each other on
one exchange; the target of launch *l* has pid *l* and listener *l*, so that mixing
up two launches shows. External: the end of the socket stays open while a target
before its `execve` shares the spawner's descriptors; a program that exits, stops
under ptrace; SIGKILL from outside. Left out because no
behaviour reaches them: wrong control bytes (EPROTO), a negative listener after a
successful seccomp call, ECHILD for the own children (the runner owns all waits,
header of `ptrace.rs`), a pid on the page that is not positive when the target is
seized (`spawn.rs:292-294`; `SeizesOwnTarget` proves that it is the launch's own).
EINTR is retried by the code and so invisible.

**ProcessCreation.** `proc` gives each pid a state: running, stopped and not yet
reported, stopped and reported, inside the call, zombie, free. `program`, `dies`,
`do_call`, `return_child` and `skip_call` are the kernel and the program (external);
everything else is the handler, with one action between two places where it waits.
Pids are reused as soon as their exit status is consumed. A call is one of six
kinds, by what the handler and the kernel do with its flags. `reap_exited` follows the
call it makes, not its comment: `waitid` with `WEXITED` also reports, and consumes, an
unreported ptrace stop of a tracee, so a live process may be `swallowed`: its stop is
gone and its entry with it. Left out because nothing reaches them: line 128 of
`ptrace.rs` (another stop between a seccomp stop and the syscall exit), a negative
result after a fork event (lines 103-109), a child pid outside `pid_t` (line 240), and
a traced call that creates no process (`supervisor.rs:211-213`).

**TopologicalOrder.** The variables are the locals of the function; `dag_edge` is one
turn of the inner loop, `finish` the end of a frame, `dag_next_root` the outer loop.

**Compiler.** `pass` says which pass runs. In the first, `stack` and `states` are those
of the recursive `build_boundary`: `enter` is a call for a task not seen before,
`finish` its return, with the boundary and the edges of its loop over the children,
`contains_itself` the call for a task still on the stack, which ends `compile` with a
cycle. `Called` is the place of the caller's loop, so children and roots are visited in
the code's order; a call for a finished task only reads its boundary and is part of the
caller's step. `build_edges` is the second pass (the loops there carry nothing from one
task to the next), `sort_tasks` the topological order, where any order that
`topological_order` may return is considered. In the reduction `from`
and `to` are the places of its two loops: `look_at` is one successor, `atom_reduced` the
end of the inner loop. Sets of pairs stand for adjacency lists. `Closure(R)`, the
pairs that a path connects, is defined by closed sets of tasks and not by recursion, so
that it can be reasoned about; the walk through empty tasks and the reference use it.
The reference definition,
`MustPrecede`, is stated on the description alone: if a task comes before another,
every atom in the first comes before every atom in the second.

**Pipeline.** Extends `Compiler` and instantiates `Supervisor` on its result; `new` is
`Supervisor::new`, after which nothing of the compiler's state is left but the
supervisor's copy of the result. All atoms expect the same request, so that every order of
completion the tables allow is explored. The order required is `MustPrecede` of the
description, not the compiled graph.

**Tarjan.** The variables are the locals of `tarjan`; `Enter` is the push of a frame,
`edge` one turn of the inner loop, `leave` and `close_component` the two ends of a
frame. Members of a component are a set; its successors are a sequence, what was noted
in the order of first occurrences (`Dedup`, by the rank of a first occurrence among all
of them, which is what draining through a `HashSet` leaves). `reach` is computed once
from the graph and read by the properties only: a node reaches another if every set
that has the one and is closed under the edges has the other.

**GraphSearches.** Runs `topological_order` and then `tarjan` on the same graph. Neither
affects the other. It extends both modules, so its run checks the very definitions the
theorems are about; the locals that both functions have are prefixed in
`TopologicalOrder`, after its types `DagVisitState` and `DagWorkFrame` (`dag_states`,
`dag_stack`, `dag_root`).

**PageBuffer.** A page has `MAX_PATH` bytes, as the code asserts. A byte is a value,
or `Uninit` when nobody wrote it since it was given up; addresses end at `UsizeMax`.
One action per system call of a copy; `process_vm_readv` (external) may read less
than asked, read nothing, or fail, and up to `MaxWrites` times the program changes a
byte or unmaps a page in between. The closure given to `write_path_with` and
`write_bytes_with` is always the copy, the only closure in the crate. The last page of
the address space is never mapped, as on x86-64.

**FileSpace.** `files` is the map of `MappedFileSpace`, `kfd` what the kernel's table
really holds, `call` the state of each process's call, `req` the notification being
worked on. `respond_real` and `respond_mock` are split between their two ioctls.
`interrupt` is a signal that withdraws a call, which then fails or is made again, once
a poll of the process has let the signal pass. Process creation is coarser than in
`ProcessCreation` but has the same ends: `reject_process_creation` (refused, failed,
restarted, or given up with the caller in its stop), `continue_to_fork` (the kernel's
copy of the descriptors, or an untraced child and `ForkResultMismatch`),
`register_process` (also under a pid that still has an entry), `child_lost` and
`caller_lost`. `zombies` are the dead whose exit is not consumed; a poll that consumes
it keeps the entry, and the pid may be used again. `stale` (history) are the
processes that then run under the map of a dead one, or were forked by such a process.
A process without an entry (an untraced child, one whose stop `reap_exited` consumed)
is unknown to the supervisor and gets an errno.
External: the processes, the kernel, and the loop that calls the code
(`dispatch_*`): it answers every notification, continues a close before it drops the
record and drops it only if the continuation succeeded, and continues no call that
creates a descriptor. A `MappedFileSpace` starts empty, so the streams the program
inherits are unknown to it; the properties are therefore about mocks and about
records, not about every descriptor. `Arc::make_mut` gives each process a copy of
its own, which is what a function from processes to maps says. `add_fd_and_respond`
and `id_valid` are called by nothing in the repository and left out.

**SeccompPolicy.** The tables are the real ones, name by name. `add_group` stands for
one call of `add_group`, `add_mmap_rules`, `add_fd_arg0_rules` or `register_group`, in
the order of `export_filter`; `missing` is the set of names the build's libseccomp does
not know. `Answer` is what an exported filter returns for a name, a first argument and
the anonymous flag. `FileCalls` are facts about Linux (external): the calls that take a
descriptor as their first argument, also those the tables do not mention. One of them,
`pidfd_send_signal`, is in a group that the `file_only` filters allow outright, because
they do not supervise signals (`build.rs:56`); `MocksSupervised` names it as the one
exception. The checks of the target platform, the
BPF code and its size are left out.

## Runs that pass

| run | instance | what it shows |
|---|---|---|
| `supervisor` | all 64 forward graphs on 4 atoms, all assignments of 2 requests or none | `CountsExact`, `ReadyExact`: the tables are exact in every order of completion; `DecrementsSound`: no count wraps; `NoStall`; `OrderSpec`: refinement of `AtomOrder` |
| `spawn` | 2 launches, zero, negative and positive errnos | `OkGuarantee`, `NothingLeftRunning`, `KillsOwnTarget`, `NoStaleWriter`, `FirstFailureReported`; `Returns` |
| `process_creation` | 3 pids, 4 kinds of calls, 1 signal | `RunsOnlyTracked`, `StaleOnlyIfReported`, `NobodyLeftStopped`; `HandlerReturns` |
| `graph_searches` | every graph on 4 nodes, cyclic ones included, with a possible self-loop at one node and successors in ascending or, at odd nodes, descending order; every graph on 3 nodes with lists of up to two successors, repeats included | `StackIsPath`, `OrderIsTopological`, `CycleIsClosedPath` of `topological_order`; `ComponentsExact`, `DagExact`, `Complete` (every node ends in exactly one component) and `Asserted` (its `debug_assert` and `expect` hold) of `tarjan`; `SearchesEnd` of both |
| `compiler` | 3 atoms, 2 composite tasks with up to 2 children each, or one with 3 beside an empty one, up to 1 `happens_before`; of descriptions that differ by a renaming of atoms, one | `OrderExact`, `RefusedExact`, `Reduced`; under the supervisor `DescriptionKept` (atoms run in an order the description allows) and `NeverStuck` (an accepted description that puts no atom before itself can be finished) |
| `page_buffer` | pages of 3 bytes, 9 addresses, one interference | `MemorySafe`: no unwritten byte is exposed, no read overruns the pages; `CopiesExact`: paths up to their NUL, ranges in full length, errors for a true reason; `NothingPartial` |
| `file_space` | both kinds; base 1, 2 descriptors, mocks inside the limit, above it and above `RawFd` (for the map, one mock); 2 processes, 1 signal, all creations; 4 opens, closes and creations, any number of other calls | `MocksKnown`, `RecordsTrue`: of a tracked process that does not run under the map of a dead one; `AnswersTrue`; `AllAnswered`: calls and stops end, but for the processes its comment lists |
| `seccomp_policy` | the real tables, every subset of 3 newer names missing; 3-bit descriptors in 4-bit arguments | `MocksSupervised`, `StartupUnattended`, `TracedUnderstood`; `AllBuilt` |

Bounds. Four atoms give chains, diamonds and joins of three predecessors; what
holds there is proved for every size. Two launches are what a reused page needs:
a third starts from the same kinds of leftovers as the second. Three pids give a
parent, a child, and a process that takes over the pid of a reaped one while both
others live; `vfork` has a run of its own, because the handler does not return from
it, and an argument block that is null or too short (`badargs`) is refused along the
same path as `CLONE_FILES`, so the run leaves it out. Two composite tasks can nest, overlap, be empty and contain each other; with
one explicit constraint and their own order that gives contradictions of every sort
the compiler distinguishes; three children give an empty one between two others. Three bytes per page give a first, a middle and a last
position in a page; two mapped pages give a string that crosses a boundary, one that
stops at an unreadable page and one without a NUL; one interference is what it takes
to make two reads disagree. Two processes give the inheritance of descriptors, one
signal the repetition of a call whose descriptor is already installed; two
descriptors around a base of one give a full lower half (a real file that lands in
the mock range) and mocks on both sides of every limit. Four opens, closes and
creations (`MaxChanges`) are what it takes to open a mock, pass it on, close it in the
child and open another file at its number, or to fork, lose the child to a poll, fork again
under its pid and use what was opened before. The other calls, which change no table,
are not bounded, so one process can go on calling while another waits. The theorems hold
for any bound. One more bit than a
descriptor has is enough for an argument that differs from its descriptor. Deadlock
checking is off where the system may come to its end, which is everywhere but in
`page_buffer`.

Fairness. `spawn`: weak fairness of each process (supervisor, spawner, target
before its `execve`), which is the operating system's scheduler; nothing is assumed
of the program or of kills. `process_creation`: weak fairness of the handler's
thread and of the kernel inside a call it was told to run. `graph_searches`,
`seccomp_policy`: the function keeps running. `file_space`: weak fairness of the
handler's thread; strong fairness, for each process, of the step that takes its call
on (receiving its notification, polling it for a stop, the kernel finishing
a continued call), because the kernel hands
notifications out in order and the loop that the comment on
`try_handle_process_creation` asks for polls every process. Nothing is assumed of the
program.

## Runs that are violated

Each states what a comment or test of the repository says, and shows a behaviour of
the code that disagrees.

- `spawn_reap` (`FailedTargetReaped`): cleanup takes a ptrace stop for an exit and
  leaves the target stopped and unreaped (`spawn.rs:801`).
- `vfork` (`HandlerReturns`): the handler waits for the parent of a vfork while it
  keeps the child stopped (`ptrace.rs:96`).
- `compiler_self` (`AtomsTopological`): an atom ordered before a task that contains it
  compiles to an atom waiting for itself (`compiler.rs:269`).
- `real_fds` (`RealBelowBase`): a real descriptor that lands in the mock range is
  answered with EMFILE but stays installed (`fd.rs:106`).

Five more differences between comment and code can be read off the models without
a run of their own. In `Spawn` the program runs from `execve` on and is seized later; a
process creation in that window fails instead of stopping (`spawn.rs:295`, against
`build.rs:15`). In `ProcessCreation` a call that the kernel restarts after a signal is
reported as failed with the kernel-internal errno 513 (`ptrace.rs:111`, against
`supervisor.rs:18`). In `SeccompPolicy` the range filters allow `recvmsg` and `recvmmsg`
on a real socket, which create descriptors when the message carries some
(`build.rs:505`, against `build.rs:371`). In `ProcessCreation` and `FileSpace`
`reap_exited` may consume the ptrace stop of a live process, which loses its entry and is
resumed by nobody: the state `swallowed` (`ptrace.rs:179`, against `ptrace.rs:174` and
`supervisor.rs:182`). And a poll consumes the exit of a process but keeps its entry; a
child with that pid is refused an entry of its own but resumed, and runs under the dead
process's map: the set `stale` of `FileSpace` (`supervisor.rs:174-177`, against
`supervisor.rs:110`).

`NothingLeftRunning` speaks of launches whose spawner published its page: after a
spawner killed earlier, the code does not look for the target, which may be running.
`NobodyLeftStopped` speaks of calls that return without an error: after a reported
error (a mismatch, a process that vanished) a parent or child may stay stopped; nor
does it speak of a stop that `reap_exited` consumed.
`AllAnswered` lists the same cases and the vfork: the caller of a creation given up on
(`supervisor.rs:151`, `ptrace.rs:94`, `ptrace.rs:115-121`), the child of a killed caller,
a process whose stop `reap_exited` consumed, and everyone while the handler waits for a
vfork. `MocksKnown` and `RecordsTrue` leave out the processes in `stale`.

## Proofs

Each proof module extends the module of its component. It defines an inductive
invariant `IInv` (`PipelineInv` in `PipelineProofs`, `DagIInv` for
`topological_order`), shows that `Init` implies it and
that every action keeps it (one
lemma per action), and derives the theorems. Every `IInv` was checked by TLC as an
invariant of the component's run, `PipelineInv` on an instance with 2 atoms and single
children. Nothing is assumed but the
`ASSUME`s of the modules, which TLC evaluates in the runs.

| module | holds for every | theorems: property |
|---|---|---|
| `SupervisorProofs` | finite set of atoms, set of requests, setup | `CountsCorrect`: `CountsExact`; `CountsNeverWrap`: `DecrementsSound`; `ReadyCorrect`: `ReadyExact`; `NeverStalls`: `NoStall`; `ImplementsOrder`: `OrderSpec` (refinement of `AtomOrder`) |
| `SpawnProofs` | number of launches, errors of kernel and `FdFactory` | `OkMeansStarted`: `OkGuarantee`; `ErrorLeavesNothing`: `NothingLeftRunning`; `KillsOnlyOwn`: `KillsOwnTarget`; `PageQuiet`: `NoStaleWriter`; `FirstFailure`: `FirstFailureReported`; `SeizesOwnTarget` |
| `ProcessCreationProofs` | set of pids, mix of calls, number of signals | `RegisteredBeforeRunning`: `RunsOnlyTracked`; `NoDeathUnnoticed`: `StaleOnlyIfReported`; `BothGoOn`: `NobodyLeftStopped` |
| `PipelineProofs` | finite set of tasks, description over it, set of requests | `OrderCorrect`: `OrderExact`; `RefusalCorrect`: `RefusedExact`; `ReductionCorrect`: `Reduced`; `OrderKept`: `DescriptionKept`; `NeverStuckCorrect`: `NeverStuck` |
| `GraphSearchesProofs` | finite graph | of `topological_order`: `PathOnStack`: `StackIsPath`; `OrderCorrect`: `OrderIsTopological`; `CycleCorrect`: `CycleIsClosedPath`; of `tarjan`: `ComponentsCorrect`: `ComponentsExact`; `DagCorrect`: `DagExact`; `AssertionsHold`: `Asserted`; `ResultComplete`: `Complete`; of both: `SearchesApart`, `SearchesCorrect` |
| `PageBufferProofs` | page size, address space, memory, number of interferences | `TypeCorrect`: `TypeOK`; `Safe`: `MemorySafe`; `Exact`: `CopiesExact`; `FailuresClean`: `NothingPartial` (an action property) |
| `FileSpaceProofs` | number of processes, descriptors, mocks, signals; mix of creations; base and limit | `MocksStayKnown`: `MocksKnown`; `RecordsStayTrue`: `RecordsTrue`; `NobodyMisled`: `AnswersTrue` |
| `SeccompPolicyProofs` | width of descriptors and arguments, base of the mock range, set of names libseccomp lacks | `MocksReachSupervisor`: `MocksSupervised`; `StartupPasses`: `StartupUnattended`; `CreationsTraced`: `TracedUnderstood` |

**Supervisor.** Assumed: the two adjacency lists of a setup describe the same edges
(`SetupsAssumption`), fewer atoms than `U32Max` (`CountsFit`), `NoReq` is no request
(`NoReqAssumption`). `IInv` is `TypeOK`, `CountsExact`, `ReadyExact` and three facts
that make them inductive: a claimed atom is not finished (`ClaimedUndone`), a claimed
or finished atom has all its predecessors finished (`OrderRespected`), and an
unfinished atom without missing predecessors has a request (`RunnableHasReq`, unless
the panic was reached). The heart is `mark_done`: because the finished atom *id* is
claimed, it is unfinished, so it is in exactly the sets of missing predecessors of its
successors, none of which is finished; each of those sets loses one element, which is
the decrement, and no mark is ever decremented. The same fact says that a set that
loses an element was not empty and is smaller than `U32Max`, so no count wraps
(`CountsNeverWrap`). `NeverStalls` takes the smallest
unfinished atom: in a setup the compiler numbered (`TopologicallyNumbered`, a
hypothesis of `NoStall`) its predecessors have smaller numbers, so they are finished.
`ImplementsOrder` maps `claimed` and the marks to `running` and `finished`.

**Spawn.** Assumed: at least one launch (`LaunchesAssumption`), kernel errnos are
positive, those of the `FdFactory` are any integers (`ErrnosAssumption`). The
properties speak of results; `IInv` has to say how the three processes got there.
`InStep` and `Messages` say which steps of supervisor and spawner can be taken side by
side and what is in the socket then; `Targets`, that only the current launch's target
can be before its `execve`, and only while the supervisor waits for the first message;
`PageTrue`, what the page says of this launch at each of these points, in particular
that a pid on it is this launch's own; `StatusTrue` ties the spawner's exit status to
the page; `CauseTrue`, that the failure on the page or in the link is the first one,
unless the attach failed; `LinkTrue`, that a link that succeeded has a seized target
behind it; `ResultsTrue`, who may have been killed when. `NoStaleWriter` follows from
`Targets`: between two launches no target is before its `execve`.

**ProcessCreation.** Assumed: pids are positive, `NoPid` is none (`PidsAssumption`).
`TracedExact` and `EntriesTraced` relate the table of entries, the set of traced
processes and the deaths that were reported. `HandlerKnows` and `ChildKnown` say in
which states the kernel may hold the caller and the newborn child at each place where
the handler waits, whatever signals and deaths came between. `StoppedKnown` lists who
can be in a stop as long as no error was met: the process being worked on and its
child, at the places where the handler is about to resume them; a stop that
`reap_exited` swallowed is none of these. `BothGoOn` is that list
for a handler that is back at `idle`.

**Compiler and Pipeline.** Assumed: finitely many tasks, which are numbers
(`TasksAssumption`), descriptions whose children and constraints name tasks and whose
atoms have no children (`TaskInfosAssumption`), as many atom numbers as atoms
(`AtomIdsAssumption`), fewer than `U32Max` (`PipelineAssumption`). The first lemmas are
about `Closure`: it extends its relation, is transitive and monotone, has a first and a
last step, and allows induction along a path (a set that has the successors of *a* and
is closed has all *a* reaches), which is all the induction the proofs need.
`CompilerInv` goes pass by pass.
- Boundaries: the stack is a path of containment without repetition (`StackInv`), so a
  task called again while on it contains itself; a finished task has finished children,
  does not contain itself, and its boundary is right for the edges so far
  (`FinishedInv`): by `Bounds`, entries and exits are atoms of the task, and each atom
  of the task is, or comes after, an entry and is, or comes before, an exit.
  `BoundaryBuilt` shows this of a task from its children, empty ones in between
  included. Every edge so far is one the description asks for.
- Edges: when all tasks are finished, the atom edges order atoms exactly as
  `MustPrecede` does (`Built`). No edge is invented because boundaries are atoms of
  their tasks. None is lost: a path of task edges that starts and ends at tasks with
  atoms splits at its tasks with atoms into pieces that `ContractedEdges` connects
  (`ContractedEdgesComplete`), and within a task `Bounds` leads from the entry to any
  atom and from any atom to the exit.
- Refusal: `TaskGraphCycles` shows that the task graph that is sorted and the reference
  have the same cycles, though the one joins the atom edges without loops and the other
  the closed orders.
- Reduction: atoms behind `from` have their final `reachable` set, which is what all
  edges reach and what the kept edges reach (`ReachInv`); `covered` is what the
  successors looked at so far reach (`CoverInv`); of two kept edges of an atom the target
  of neither reaches that of the other (`KeptInv`), because successors are taken
  nearest first and an edge only leads forward (`OrderFacts`). At the end the kept edges
  generate the same order; and none is redundant, because the tasks that do not reach
  its target, with its source, are closed under the others.

For the running test, `RunInv` holds the argument of `SupervisorProofs` (here every
atom has a request, so nothing panics) and `Represents`: the compiled edges are part of
the description's order, lead from smaller to larger numbers, and generate it, in the
form that a set of atoms closed under compiled predecessors is closed under the
description's. `OrderKept` applies this to the finished atoms; `NeverStuckCorrect`
takes the smallest unfinished atom. Both hold of the description itself, with no
hypothesis on the compiled graph.

**TopologicalOrder.** Assumed: finitely many nodes numbered from 0, edges lead to
nodes (`GraphsAssumption`). `FramesTrue` is the key: an edge of a node on the stack is
still in its frame's iterator, leads to a finished node, or is the one by which the next
frame was pushed. When the iterator is empty, all successors are finished, hence listed
(`Listed`, `ListedDone`, `ListedOnce`), so the node appended now comes after all it
leads to (`Backward`); the reversed list is an order. `DagRootsSeen` adds that the list is
complete when the outer loop ends. `Placed` makes the noted position of a `Working` node
a position in the stack, so that the slice from there is a path (`StackIsPath`) closed by
the edge just met.

**Tarjan.** The same assumption. The nodes on `scc_stack` are the `Working` ones, with
rising numbers (`OnStack`, `Rising`, `Numbered`), and so are the frames' nodes
(`FramesWorking`, `FramesRise`). A `Working` node reaches every later one (`ReachUp`)
and a frame at or below it (`ReachFrame`). An edge is *taken* when its node's frame is
past it; a taken edge leads to a seen node (`TakenSeen`), and no edge leaves the `Done`
nodes (`DoneClosed`). `min_val` is the number of some `Working` node that is reached
(`LowTrue`) and, for a frame, a lower bound on where the taken edges of its segment lead
(`LowBound`), a segment being the open nodes found below that frame and not below the
next; these edges do not lead past the next frame (`NoForward`), whose node was found by
one of them (`FrameEdge`). When a frame ends with `index = min_val`, the nodes above it
reach each other by `ReachUp` and `ReachFrame`, and together with the `Done` nodes they
are closed under edges by `LowBound`, so nothing else reaches back: they are the
component. For the graph between components, each frame's part of `successor_stack` has
exactly the components that taken edges of its segment lead to (`SuccessorsRise`,
`SuccessorsTrue`, `SuccessorsAll`); a component that is closed joins the part of the
frame below by `FrameEdge` and no other part by `NoForward`. `DedupFacts` proves that
`Dedup` keeps every element once, by counting ranks. `ResultComplete` adds that passed
roots are seen (`RootsSeen`) and that a component's nodes carry its number
(`CompsMapped`).

**PageBuffer.** Assumed: sizes are natural numbers and a page is not empty
(`SizesAssumption`); whole pages are mapped and the last page of the address space is
not (`MemoriesAssumption`). `Initialized` says that what is inside the length was
written. While a copy runs, the buffer's length is 0 and what arrived is behind it
(`CopyHidden`); each loop keeps inside its length and has met no NUL (`LoopBound`); as
long as the program left its memory alone, what arrived is what is there
(`ArrivedTrue`); `CPathExact` and `BytesExact` say what results claim. The arithmetic of
chunks (a chunk stays on a page, the first of a page that fails is the end) is proved
for every page size.

**FileSpace.** Assumed: base and limits are numbers with room for a descriptor
(`FileSpaceAssumption`). `RequestTrue` ties the notification the handler works on to the
call its process is in, as long as it was not withdrawn; `InstallTrue`, the descriptor
that was installed to the answer about to be given; `ClosingForgotten` and `Recorded`
state that a record goes before its descriptor does; `MockPlaced`, that a mock has its
record, or in a range its number, except while it is being closed. `Recorded` and the
half of `MockPlaced` about maps are of live tracked processes outside `stale`. For the
child of a process creation `ChildTrue` says that it is stopped until it is registered
and that the copied map fits the copied descriptors: the caller is stopped too, so its
map is still the snapshot when the kernel copies the table (`RequestTrue`). A child whose
pid has an entry already is in `stale` from birth, so an entry that `register_process`
leaves alone is one nothing is claimed of.

**GraphSearches.** A step of one search leaves the graph and the other's locals alone, so
it is a stuttering step of the other: `SearchesSpec` implements `DagSpec` and `Spec`
(`SearchesApart`), and with that all seven invariants hold of the specification that the
run `graph_searches` checks (`SearchesCorrect`).

**SeccompPolicy.** Assumed: the base of the mock range is a positive unsigned int, and an
argument is wider than a descriptor (`SeccompAssumption`); the names libseccomp may lack
are not among the calls of the startup or the process creations (`NewerAssumption`:
libseccomp knew them all when it gained user notification). The tables are the real ones. `RulesTrue`
says that a rule fits its name: `allow` only for names of the allowed groups, `arg0` only
for the calls on descriptors and not in a mapped policy, `trace` only for process
creations. `Present` follows the groups in their order, which differs between the policies
(`TracePlace`), and says which rules are there already. `MocksReachSupervisor` then rests
on two facts: no call on a descriptor but `pidfd_send_signal` is in an allowed group
(`FileCallsApart`), and an
argument below the base is its own low half, so one with high bits set, which the kernel
would cut off, is never taken for a real descriptor. That is why the filters compare the
whole argument.

Only model-checked:

- liveness (`Returns`, `HandlerReturns`, `SearchesEnd`, `AllAnswered`, `AllBuilt`), which
  is out of the prover's reach;
- that `AtomOrders`, what `Compiler` takes from `topological_order`, is what
  `TopologicalOrder` computes: `OrderIsTopological`, proved there, is the link, but the
  two modules are not composed.

## Not modelled, and the plan

Left out, because there is no state or logic TLC could say much about: the BPF code
that libseccomp emits and its embedding (`seccomp_filters.rs`), typed vectors and the
containers of `graph.rs` (`BasicGraph`, `VecGraph`, `BasicOrder`), error formatting
(`error.rs`), the unit tests' helpers. Left out because nothing calls them:
`Tracker::add_fd_and_respond`, `id_valid`, and `UnionFind` of `index.rs`. Not there yet: the event loop; once it
exists, `FileSpace`'s `dispatch_*` actions become its model, and `Supervisor`,
`FileSpace` and `ProcessCreation` can be composed under it.

What is left to prove: that `topological_order`, run on the task graph, returns one of the
orders that `Compiler` takes (`AtomOrders`).
