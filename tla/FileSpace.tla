----------------------------- MODULE FileSpace -----------------------------
(***************************************************************************)
(* The descriptors of the tested program: RangeFileSpace and               *)
(* MappedFileSpace (src/src/runner/fd.rs), the seccomp notifications that  *)
(* Tracker answers (src/src/runner/tracker.rs), and the copy of a file     *)
(* space at process creation (src/src/runner/supervisor.rs).               *)
(*                                                                         *)
(* One thread receives notifications, answers them and polls for process   *)
(* creation; that loop is the caller of the code and not in the repository *)
(* (external).  An answer that installs a descriptor is two ioctls.  In    *)
(* between the process may die, or a signal may withdraw its call: the     *)
(* notification is then gone and the call fails or is made again.          *)
(*                                                                         *)
(* The processes are traced: a signal, a birth and a process creation are  *)
(* stops that the loop has to poll for.  A pid is free again once its exit *)
(* status has been consumed, by reap_exited or by such a poll.             *)
(***************************************************************************)
EXTENDS Integers

CONSTANTS Kinds,         \* of "range" and "mapped", the file spaces considered
          MOCK_FD_BASE,  \* first descriptor number of the mock range
          RawFdMax,      \* the largest RawFd
          FdLimit,       \* RLIMIT_NOFILE of the program
          Mocks,         \* numbers of mock files, for each kind
          Errnos,        \* errnos the caller passes to respond_errno
          Procs, FirstProc,
          Creations,     \* the process-creation calls considered
          MaxChanges,    \* bound: how many opens, closes and creations the program makes
          MaxSignals     \* bound: how many signals the program receives

ASSUME FileSpaceAssumption ==
    /\ Kinds \subseteq {"range", "mapped"}
    /\ MOCK_FD_BASE \in Nat \ {0} /\ RawFdMax \in Nat
    /\ FdLimit \in 1..(RawFdMax + 1)
    /\ \A k \in Kinds : Mocks[k] \subseteq Nat
    /\ Errnos \subseteq Int
    /\ FirstProc \in Procs /\ MaxChanges \in Nat /\ MaxSignals \in Nat
    /\ Creations \subseteq {"fork", "vfork", "untraced"}

EIO    == 5
EBADF  == 9
EMFILE == 24

Fds == 0..(FdLimit - 1)

Real    == -1   \* ChildFile::Real; a mock file is its number
NoFile  == -2   \* None, or no descriptor

VARIABLES kind,     \* the file space in use: the supervisor's type parameter
          files,    \* MappedFileSpace.files of each process
          procs,    \* the processes in Supervisor.procs
          pc,       \* where the handler is
          req,      \* the notification it works on
          \* The kernel:
          alive,    \* processes that have not ended
          zombies,  \* processes that ended, their exit not yet consumed
          untraced, \* live processes that ptrace did not attach to
          kfd,      \* what the descriptors of each process denote
          call,     \* the intercepted call of each process
          changes,  \* how many opens, closes and creations were made
          signals,  \* how many signals were sent
          \* History, read by the properties only:
          stale,    \* live processes with the map of an earlier process of their pid
          misled    \* processes told of a descriptor they do not have

supVars    == <<kind, files, procs, pc, req>>
procVars   == <<alive, zombies, untraced, stale>>
kernelVars == <<procVars, kfd, call, changes, signals>>
vars       == <<supVars, kernelVars, misled>>

(* A call is pending (not yet received), received, or continued (the kernel *)
(* carries it out).  A traced process may also be stopped: stopped is the   *)
(* stop of a process creation, halted that of a signal or of a newborn      *)
(* child, held a stop that was already reported.                            *)
NoCall == [op |-> "none", fd |-> 0, at |-> "none"]

(* The request: whose, its call, the file to be installed, the descriptor   *)
(* or errno to answer with; it is live until its call ends or is withdrawn. *)
(* Of a process creation: the copied file space, and the child once there   *)
(* is one.                                                                  *)
NoReq == [proc |-> FirstProc, op |-> "none", fd |-> 0, want |-> NoFile,
          answer |-> 0, live |-> FALSE, snapshot |-> [fd \in Fds |-> NoFile],
          child |-> FirstProc]

Nothing == [fd \in Fds |-> NoFile]

(* The program starts with its standard stream, which nobody recorded.      *)
Init ==
    /\ kind \in Kinds
    /\ files = [p \in Procs |-> Nothing]
    /\ procs = {FirstProc}
    /\ pc = "idle" /\ req = NoReq
    /\ alive = {FirstProc} /\ zombies = {} /\ untraced = {} /\ stale = {}
    /\ kfd = [p \in Procs |-> IF p = FirstProc THEN [Nothing EXCEPT ![0] = Real] ELSE Nothing]
    /\ call = [p \in Procs |-> NoCall]
    /\ signals = 0 /\ changes = 0 /\ misled = {}
----------------------------------------------------------------------------
(* What a descriptor number means *)

(* decode_mock: the mock a number of the range stands for.                  *)
decode_mock(fd) == IF fd < MOCK_FD_BASE THEN NoFile ELSE fd - MOCK_FD_BASE

(* mock_fd: NoFile is CantAllocate.                                         *)
mock_fd(m) == IF MOCK_FD_BASE + m > RawFdMax THEN NoFile ELSE MOCK_FD_BASE + m

(* lookup_fd of both file spaces.                                           *)
lookup_fd(p, fd) ==
    IF kind = "mapped" THEN files[p][fd]
    ELSE IF decode_mock(fd) = NoFile THEN Real ELSE decode_mock(fd)

(* add_fd_arg0_rules of build.rs: the calls on a descriptor that the filter *)
(* lets pass without a notification.                                        *)
Allowed(fd) == kind = "range" /\ fd < MOCK_FD_BASE
----------------------------------------------------------------------------
(* The program and the kernel (external) *)

Lives(p) == p \in alive /\ call[p] = NoCall

Changes == changes < MaxChanges /\ changes' = changes + 1

open(p) ==
    /\ Changes
    /\ Lives(p)
    /\ call' = [call EXCEPT ![p] = [op |-> "open", fd |-> 0, at |-> "pending"]]
    /\ UNCHANGED <<supVars, procVars, kfd, signals, misled>>

close(p, fd) ==
    /\ Changes
    /\ Lives(p)
    /\ IF Allowed(fd)
       THEN /\ kfd' = [kfd EXCEPT ![p][fd] = NoFile]
            /\ UNCHANGED call
       ELSE /\ call' = [call EXCEPT ![p] = [op |-> "close", fd |-> fd, at |-> "pending"]]
            /\ UNCHANGED kfd
    /\ UNCHANGED <<supVars, procVars, signals, misled>>

(* read, write and the like: they change no table.                          *)
use(p, fd) ==
    /\ Lives(p) /\ ~Allowed(fd)
    /\ call' = [call EXCEPT ![p] = [op |-> "use", fd |-> fd, at |-> "pending"]]
    /\ UNCHANGED <<supVars, procVars, kfd, changes, signals, misled>>

(* Without a tracer the call fails with ENOSYS.                             *)
fork(p) ==
    /\ Changes
    /\ Lives(p) /\ p \notin untraced
    /\ \E op \in Creations : call' = [call EXCEPT ![p] = [op |-> op, fd |-> 0, at |-> "stopped"]]
    /\ UNCHANGED <<supVars, procVars, kfd, signals, misled>>

(* The request of p, if the handler works on one, is no longer valid.       *)
Withdrawn(p) == req' = IF req.proc = p THEN [req EXCEPT !.live = FALSE] ELSE req

Halted(c) == [c EXCEPT !.at = "halted"]

(* A signal: the call fails with EINTR, or is made again as a new one, once *)
(* the tracer has let the signal pass.                                      *)
interrupt(p) ==
    /\ p \in alive /\ call[p].at \in {"none", "pending", "received"}
    /\ signals < MaxSignals /\ signals' = signals + 1
    /\ Withdrawn(p)
    /\ \E c \in {NoCall, [call[p] EXCEPT !.at = IF @ = "none" THEN "none" ELSE "pending"]} :
          call' = [call EXCEPT ![p] = IF p \in untraced THEN c ELSE Halted(c)]
    /\ UNCHANGED <<kind, files, procs, pc, procVars, kfd, changes, misled>>

(* Nobody but the program waits for a process that is not traced.           *)
die(p) ==
    /\ p \in alive
    /\ alive' = alive \ {p}
    /\ untraced' = untraced \ {p}
    /\ zombies' = IF p \in untraced THEN zombies ELSE zombies \cup {p}
    /\ kfd' = [kfd EXCEPT ![p] = Nothing]
    /\ call' = [call EXCEPT ![p] = NoCall]
    /\ Withdrawn(p)
    /\ stale' = stale \ {p}
    /\ UNCHANGED <<kind, files, procs, pc, changes, signals, misled>>

Over(p) == call' = [call EXCEPT ![p] = NoCall]

(* The kernel carries out a continued call.                                 *)
finish(p) ==
    /\ call[p].at = "continued"
    /\ kfd' = IF call[p].op = "close" THEN [kfd EXCEPT ![p][call[p].fd] = NoFile] ELSE kfd
    /\ Over(p)
    /\ UNCHANGED <<supVars, procVars, changes, signals, misled>>
----------------------------------------------------------------------------
(* The tracker's ioctls.  Each fails with ENOENT when the notification is   *)
(* gone; the handler then has nothing left to do.                           *)

Idle == pc' = "idle" /\ req' = NoReq

(* recv: the kernel hands out a pending notification.                       *)
recv(p) ==
    /\ pc = "idle" /\ call[p].at = "pending"
    /\ call' = [call EXCEPT ![p].at = "received"]
    /\ pc' = "dispatch"
    /\ req' = [NoReq EXCEPT !.proc = p, !.op = call[p].op, !.fd = call[p].fd, !.live = TRUE]
    /\ UNCHANGED <<kind, files, procs, procVars, kfd, changes, signals, misled>>

(* send_response with the result of the call.                               *)
send_response(value) ==
    /\ Idle
    /\ IF req.live
       THEN /\ Over(req.proc)
            /\ misled' = IF /\ req.op = "open" /\ value >= 0
                            /\ value \in Fds => kfd[req.proc][value] # req.want
                         THEN misled \cup {req.proc} ELSE misled
       ELSE UNCHANGED <<call, misled>>
    /\ UNCHANGED <<kind, files, procs, procVars, kfd, changes, signals>>

(* Variant: the caller's errno is passed on as it is.                       *)
normalizeNot(e) == e

normalize(e) == IF e > 0 THEN e ELSE IF e < 0 THEN -e ELSE EIO

(* respond_errno: an error field of zero would mean success with value 0.   *)
respond_errno(e) == send_response(-normalize(e))

continue_syscall ==
    /\ Idle
    /\ call' = IF req.live THEN [call EXCEPT ![req.proc].at = "continued"] ELSE call
    /\ UNCHANGED <<kind, procs, procVars, kfd, changes, signals, misled>>

(* add_fd: the lowest free descriptor, if there is one.                     *)
Free(p) == {fd \in Fds : kfd[p][fd] = NoFile}

Lowest(p) == CHOOSE fd \in Free(p) : \A g \in Free(p) : fd <= g

(* The descriptor is installed in the child and answered next.              *)
Installed(fd) ==
    /\ kfd' = [kfd EXCEPT ![req.proc][fd] = req.want]
    /\ req' = [req EXCEPT !.answer = fd]
----------------------------------------------------------------------------
(* The file spaces *)

(* The io::Error of respond_real and respond_mock leaves the call           *)
(* unanswered; the caller answers it with that errno.                       *)
Unanswered(e) ==
    /\ pc' = "errno" /\ req' = [req EXCEPT !.answer = e]
    /\ UNCHANGED <<kind, files, procs, kernelVars, misled>>

(* RangeFileSpace::respond_real up to the answer: a descriptor that landed  *)
(* in the mock range is answered with EMFILE, and stays installed.          *)
respond_real_range ==
    /\ pc = "respond_real" /\ kind = "range"
    /\ IF ~req.live THEN Idle /\ UNCHANGED <<kind, files, procs, kernelVars, misled>>
       ELSE IF Free(req.proc) = {} THEN Unanswered(EMFILE)
       ELSE LET fd == Lowest(req.proc)
            IN  /\ IF fd >= MOCK_FD_BASE
                   THEN /\ pc' = "errno"
                        /\ kfd' = [kfd EXCEPT ![req.proc][fd] = req.want]
                        /\ req' = [req EXCEPT !.answer = EMFILE]
                   ELSE pc' = "respond" /\ Installed(fd)
                /\ UNCHANGED <<kind, files, procs, procVars, call, changes, signals, misled>>

(* RangeFileSpace::respond_mock: the number is fixed, what was there before *)
(* is replaced; a number above the limit is refused by the kernel.          *)
respond_mock_range ==
    /\ pc = "respond_mock" /\ kind = "range"
    /\ IF mock_fd(req.want) = NoFile THEN Unanswered(EMFILE)
       ELSE IF ~req.live THEN Idle /\ UNCHANGED <<kind, files, procs, kernelVars, misled>>
       ELSE IF mock_fd(req.want) \notin Fds THEN Unanswered(EBADF)
       ELSE /\ pc' = "respond" /\ Installed(mock_fd(req.want))
            /\ UNCHANGED <<kind, files, procs, procVars, call, changes, signals, misled>>

(* respond_real and respond_mock of MappedFileSpace: installed, recorded in *)
(* this process's own copy of the map, then answered.                       *)
respond_mapped ==
    /\ pc \in {"respond_real", "respond_mock"} /\ kind = "mapped"
    /\ IF ~req.live THEN Idle /\ UNCHANGED <<kind, files, procs, kernelVars, misled>>
       ELSE IF Free(req.proc) = {} THEN Unanswered(EMFILE)
       ELSE /\ pc' = "respond" /\ Installed(Lowest(req.proc))
            /\ files' = [files EXCEPT ![req.proc][Lowest(req.proc)] = req.want]
            /\ UNCHANGED <<kind, procs, procVars, call, changes, signals, misled>>

respond == pc = "respond" /\ send_response(req.answer)

errno == pc = "errno" /\ respond_errno(req.answer)

(* Variant: the record of a closed file is kept.                            *)
remove_fileKept(p, fd) == files

remove_file(p, fd) ==
    IF kind = "mapped" THEN [files EXCEPT ![p][fd] = NoFile] ELSE files
----------------------------------------------------------------------------
(* The caller (external): what it does with a notification.  It continues   *)
(* no call that creates a descriptor, and drops the record of a closed file *)
(* only when the continued close cannot be withdrawn any more.              *)

dispatch_open ==
    /\ pc = "dispatch" /\ req.proc \in procs /\ req.op = "open"
    /\ \/ /\ pc' = "respond_real" /\ req' = [req EXCEPT !.want = Real]
          /\ UNCHANGED <<kind, files, procs, kernelVars, misled>>
       \/ \E m \in Mocks[kind] :
             /\ pc' = "respond_mock" /\ req' = [req EXCEPT !.want = m]
             /\ UNCHANGED <<kind, files, procs, kernelVars, misled>>
       \/ \E e \in Errnos : respond_errno(e)

dispatch_close ==
    /\ pc = "dispatch" /\ req.proc \in procs /\ req.op = "close"
    /\ continue_syscall
    /\ files' = IF req.live THEN remove_file(req.proc, req.fd) ELSE files

dispatch_use ==
    /\ pc = "dispatch" /\ req.proc \in procs /\ req.op = "use"
    /\ LET f == lookup_fd(req.proc, req.fd)
       IN  \/ f = Real /\ continue_syscall /\ UNCHANGED files
           \/ f = NoFile /\ respond_errno(EBADF)
           \/ f \in Nat /\ send_response(0)

(* A process without an entry: Supervisor::lookup_fd returns None.          *)
dispatch_unknown == pc = "dispatch" /\ req.proc \notin procs /\ respond_errno(EBADF)

Handle ==
    \/ respond_real_range \/ respond_mock_range \/ respond_mapped \/ respond \/ errno
    \/ dispatch_open \/ dispatch_close \/ dispatch_use \/ dispatch_unknown
----------------------------------------------------------------------------
(* Process creation, in two steps around the kernel's own snapshot; its     *)
(* ptrace calls one by one are in ProcessCreation.                          *)

(* Variant: the blocking form: the thread waits for p's stop and receives   *)
(* no notification meanwhile.                                               *)
try_handle_process_creationBlocking(p) ==
    /\ p \in procs
    /\ \/ /\ pc = "idle" /\ pc' = "wait" /\ req' = [NoReq EXCEPT !.proc = p]
          /\ UNCHANGED <<call, zombies>>
       \/ /\ pc = "wait" /\ p = req.proc /\ call[p].at = "stopped"
          /\ call' = [call EXCEPT ![p].at = "held"]
          /\ pc' = "creation"
          /\ req' = [NoReq EXCEPT !.proc = p, !.op = call[p].op, !.live = TRUE,
                                  !.snapshot = files[p], !.child = p]
          /\ UNCHANGED zombies
       \/ /\ pc = "wait" /\ p = req.proc /\ p \notin alive
          /\ Idle /\ zombies' = zombies \ {p} /\ UNCHANGED call
    /\ UNCHANGED <<kind, files, procs, alive, untraced, stale, kfd, changes, signals, misled>>

(* A halted process goes on, with the call it is to make again.             *)
Resumed(p) ==
    [call[p] EXCEPT !.at = IF call[p].op = "none" THEN "none"
                           ELSE IF call[p].op \in Creations THEN "stopped" ELSE "pending"]

(* try_handle_process_creation polls p.  Of a process creation, the first   *)
(* step of handle_process_creation_stop copies the file space; another stop *)
(* is resumed; an exit status is consumed and reported as an error, and the *)
(* entry stays.                                                             *)
try_handle_process_creation(p) ==
    /\ pc = "idle" /\ p \in procs
    /\ \/ /\ call[p].at = "stopped"
          /\ call' = [call EXCEPT ![p].at = "held"]
          /\ pc' = "creation"
          /\ req' = [NoReq EXCEPT !.proc = p, !.op = call[p].op, !.live = TRUE,
                                  !.snapshot = files[p], !.child = p]
          /\ UNCHANGED zombies
       \/ /\ call[p].at = "halted"
          /\ call' = [call EXCEPT ![p] = Resumed(p)]
          /\ UNCHANGED <<pc, req, zombies>>
       \/ /\ p \in zombies
          /\ zombies' = zombies \ {p}
          /\ UNCHANGED <<pc, req, call>>
    /\ UNCHANGED <<kind, files, procs, alive, untraced, stale, kfd, changes, signals, misled>>

(* The caller is refused, or its call fails in the kernel, for good or to   *)
(* be made again after a signal; or the handler cannot read the arguments,  *)
(* returns the error and leaves the caller in its stop.                     *)
reject_process_creation ==
    /\ pc = "creation" /\ req.live
    /\ Idle
    /\ \/ Over(req.proc) /\ UNCHANGED signals
       \/ /\ signals < MaxSignals /\ signals' = signals + 1
          /\ call' = [call EXCEPT ![req.proc].at = "halted"]
       \/ UNCHANGED <<call, signals>>
    /\ UNCHANGED <<kind, files, procs, procVars, kfd, changes, misled>>

(* continue_to_fork: the kernel copies the descriptors.  A child that       *)
(* ptrace does not attach to runs at once, and the handler returns          *)
(* ForkResultMismatch with the caller in its stop.                          *)
continue_to_fork ==
    /\ pc = "creation" /\ req.live
    /\ \E c \in Procs \ (alive \cup zombies) :
          /\ alive' = alive \cup {c}
          /\ kfd' = [kfd EXCEPT ![c] = kfd[req.proc]]
          /\ stale' = IF kind = "mapped" /\ (c \in procs \/ req.proc \in stale)
                      THEN stale \cup {c} ELSE stale
          /\ IF req.op = "untraced"
             THEN /\ untraced' = untraced \cup {c}
                  /\ Idle /\ UNCHANGED call
             ELSE /\ call' = [call EXCEPT ![c] = Halted(NoCall)]
                  /\ pc' = "born" /\ req' = [req EXCEPT !.child = c]
                  /\ UNCHANGED untraced
    /\ UNCHANGED <<kind, files, procs, zombies, changes, signals, misled>>

(* Variant: the child starts with an empty file space.                      *)
ChildFilesEmpty == Nothing

ChildFiles == req.snapshot

(* register_process and resume_fork, after the call returned the child, a   *)
(* vfork only once the child has ended.  Under a pid that still has an      *)
(* entry the handler returns ProcessAlreadyTracked, and resumes both too.   *)
register_process ==
    /\ pc = "born" /\ req.live
    /\ req.op = "vfork" => req.child \notin alive
    /\ Idle
    /\ procs' = procs \cup {req.child}
    /\ files' = IF req.child \in procs THEN files ELSE [files EXCEPT ![req.child] = ChildFiles]
    /\ call' = [call EXCEPT ![req.proc] = NoCall, ![req.child] = NoCall]
    /\ UNCHANGED <<kind, procVars, kfd, changes, signals, misled>>

(* A child killed before the handler waited for it: the handler consumes    *)
(* its exit and returns with the caller in its stop.                        *)
child_lost ==
    /\ pc = "born" /\ req.live /\ req.child \in zombies
    /\ zombies' = zombies \ {req.child}
    /\ Idle
    /\ UNCHANGED <<kind, files, procs, alive, untraced, stale, kfd, call, changes, signals, misled>>

(* A caller killed: a wait consumes its exit (or first the child's), or a   *)
(* ptrace request fails.  The child stays in its stop, reported or not.     *)
caller_lost ==
    /\ pc \in {"creation", "born"} /\ ~req.live
    /\ \/ UNCHANGED zombies
       \/ \E p \in {req.proc, req.child} : zombies' = zombies \ {p}
    /\ \/ UNCHANGED call
       \/ /\ pc = "born" /\ req.child \in alive
          /\ call' = [call EXCEPT ![req.child].at = "held"]
    /\ Idle
    /\ UNCHANGED <<kind, files, procs, alive, untraced, stale, kfd, changes, signals, misled>>

handle_process_creation_stop ==
    \/ reject_process_creation \/ continue_to_fork \/ register_process
    \/ child_lost \/ caller_lost

(* waitid reports a child that ended, and as well a traced process in a     *)
(* stop, which is then held; the entry goes in both cases.                  *)
reap_exited(p) ==
    /\ pc = "idle"
    /\ \/ p \in zombies /\ zombies' = zombies \ {p} /\ UNCHANGED call
       \/ /\ call[p].at \in {"stopped", "halted"}
          /\ call' = [call EXCEPT ![p].at = "held"]
          /\ UNCHANGED zombies
    /\ procs' = procs \ {p}
    /\ files' = [files EXCEPT ![p] = Nothing]
    /\ UNCHANGED <<kind, pc, req, alive, untraced, stale, kfd, changes, signals, misled>>

Program(p) ==
    \/ open(p) \/ fork(p) \/ interrupt(p) \/ die(p)
    \/ \E fd \in Fds : close(p, fd) \/ use(p, fd)

(* The step that takes p's call on: a call is pending, continued or in a    *)
(* stop and never two of these.                                             *)
Served(p) == finish(p) \/ recv(p) \/ try_handle_process_creation(p)

Next ==
    \/ Handle \/ handle_process_creation_stop
    \/ \E p \in Procs :
          Program(p) \/ Served(p) \/ reap_exited(p)

Spec == Init /\ [][Next]_vars

(* The handler's thread and the kernel go on.  Notifications are received   *)
(* in the order they are made, and the loop polls every process.            *)
FairSpec ==
    /\ Spec
    /\ WF_vars(Handle \/ handle_process_creation_stop)
    /\ \A p \in Procs : SF_vars(Served(p))
----------------------------------------------------------------------------
(* The descriptors of p change only by steps of the handler or the program, *)
(* not now.                                                                 *)
Settled(p) == p \in alive \cap procs /\ call[p] = NoCall /\ ~(req.live /\ req.proc = p)

(* Whatever call was interrupted or withdrawn on the way, a mock file in    *)
(* the program's hands, inherited ones included, is known as that mock and  *)
(* no call on it bypasses the supervisor.  This leaves out the processes in *)
(* stale: their pid still had an entry when they were born, and they run    *)
(* under that map (supervisor.rs:174-177).                                  *)
MocksKnown ==
    \A p \in Procs : Settled(p) /\ p \notin stale =>
        \A fd \in Fds : kfd[p][fd] \in Nat => lookup_fd(p, fd) = kfd[p][fd] /\ ~Allowed(fd)

(* A record of MappedFileSpace is never stale: the descriptor is open and   *)
(* denotes that file; otherwise a number the kernel uses again would be     *)
(* taken for the file it denoted before.  Again without those in stale.     *)
RecordsTrue ==
    kind = "mapped" => \A p \in Procs : Settled(p) /\ p \notin stale =>
        \A fd \in Fds : files[p][fd] # NoFile => kfd[p][fd] = files[p][fd]

(* "answers the intercepted syscall with the child FD" (fd.rs:28): a call   *)
(* that opens a file and returns a number has that file at that number; an  *)
(* errno is never mistaken for a descriptor.                                *)
AnswersTrue == misled = {}

(* No poll will resume p.                                                   *)
Left(p) == pc = "idle" /\ (call[p].at = "held" \/ (call[p].at = "halted" /\ p \notin procs))

(* The handler waits for the caller of a vfork, and the caller for a child  *)
(* that the handler keeps stopped.                                          *)
WaitsForVfork == pc = "born" /\ req.op = "vfork" /\ req.child \in alive

(* Every intercepted call and every stop comes to an end for a program that *)
(* stays alive, whatever was withdrawn or failed on the way, but for:       *)
(* the caller of a creation that the handler gave up on (supervisor.rs:151, *)
(* ptrace.rs:94 and 115-121), the child of a killed caller, a process whose *)
(* stop reap_exited consumed, and everyone while the handler waits for a    *)
(* vfork.                                                                   *)
AllAnswered ==
    \A p \in Procs : (call[p] # NoCall) ~> (call[p] = NoCall \/ Left(p) \/ WaitsForVfork)

(* "Real FDs must remain below the range reserved for mocks." (fd.rs:105)   *)
RealBelowBase ==
    kind = "range" =>
        \A p \in Procs : Settled(p) => \A fd \in Fds : kfd[p][fd] = Real => fd < MOCK_FD_BASE
=============================================================================
