------------------------------- MODULE Spawn -------------------------------
(***************************************************************************)
(* spawn_seccomp_target (src/src/runner/spawn.rs): three processes start a *)
(* program under a seccomp filter.                                         *)
(*                                                                         *)
(*   supervisor  forks the spawner, attaches ptrace to the target and      *)
(*               receives the listener descriptor;                         *)
(*   spawner     sets up the streams, clones the target and hands the      *)
(*               listener over;                                            *)
(*   target      installs the filter and crosses execve.                   *)
(*                                                                         *)
(* They share one page, used again by every launch, and a socket pair.     *)
(* Any of the spawner and the targets may be killed at any moment.  The    *)
(* pid of the target of launch l is l, the listener it creates is l too.   *)
(* The kernel is the one the code relies on: a CLONE_VFORK parent sleeps   *)
(* until its child execs or dies, and the target keeps the spawner's end   *)
(* of the socket open until then (CLONE_FILES; the socket is CLOEXEC).     *)
(***************************************************************************)
EXTENDS Integers, Sequences

CONSTANTS Launches,       \* how many calls are made on one StartupExchange
          FactoryErrors,  \* the errors an FdFactory may return
          KernelErrnos    \* the errnos a failing system call may report

ASSUME LaunchesAssumption == Launches \in Nat \ {0}

ASSUME ErrnosAssumption ==
    FactoryErrors \subseteq Int /\ KernelErrnos \subseteq Nat \ {0}

EIO    == 5
ECHILD == 10
EFAULT == 14
EINVAL == 22
EPIPE  == 32

VARIABLES
    pc,        \* where the supervisor is in spawn_seccomp_target
    launch,    \* the number of the current (or last) call
    link,      \* listener_result
    supOpen,   \* the supervisor holds its end of the socket pair
    result,    \* what each call returned
    page,      \* SharedStartup
    sp,        \* where the spawner is
    status,    \* the spawner's exit status; -9 when it was killed
    toSup,     \* messages from the spawner to the supervisor
    toSp,      \* messages from the supervisor to the spawner
    target,    \* where each launch's target is
    seized,    \* targets attached to by ptrace
    execd,     \* targets that crossed execve
    \* History, read by the properties only:
    cause,     \* the step of the first operation of this call that failed
    killed     \* targets some code of this file sent SIGKILL to

supVars  == <<pc, launch, link, supOpen, result>>
spVars   == <<sp, status>>
tgVars   == <<target, seized, execd>>
history  == <<cause, killed>>
vars     == <<supVars, page, spVars, toSup, toSp, tgVars, history>>

Calls == 1..Launches

PreExec == {"prctl", "seccomp", "publish", "execve", "failed"}
Alive   == PreExec \cup {"run", "stop"}

(* errno::normalize *)
normalize(e) == IF e > 0 THEN e ELSE IF e < 0 THEN -e ELSE EIO

NoResult == [kind |-> "none"]
Err(step, e) == [kind |-> "err", step |-> step, errno |-> normalize(e)]
Ok(pid, fd) == [kind |-> "ok", pid |-> pid, listener |-> fd]

(* Variant: the target has a descriptor table of its own (no CLONE_FILES).  *)
SpawnerEndUnshared == sp \in {"none", "zombie"}

(* The spawner's end of the pair is closed when the spawner is gone and no  *)
(* target shares its descriptor table any more.                             *)
SpawnerEndClosed ==
    sp \in {"none", "zombie"} /\ (launch > 0 => target[launch] \notin PreExec)

Blame(step) == cause' = IF cause = "None" THEN step ELSE cause

(* StartupExchange::new, and StartupExchange::reset.                        *)
EmptyPage ==
    [done |-> FALSE, state |-> "EMPTY", target_pid |-> -1, listener_fd |-> -1,
     error_step |-> "None", error_code |-> 0]

(* Variant: the pid of the previous launch is not cleared.                  *)
resetKeepsPid(p) == [EmptyPage EXCEPT !.target_pid = p.target_pid]

reset(p) == EmptyPage

Init ==
    /\ pc = "idle" /\ launch = 0 /\ link = NoResult /\ supOpen = FALSE
    /\ result = [l \in Calls |-> NoResult]
    /\ page = EmptyPage
    /\ sp = "none" /\ status = 0
    /\ toSup = <<>> /\ toSp = <<>>
    /\ target = [l \in Calls |-> "none"]
    /\ seized = {} /\ execd = {}
    /\ cause = "None" /\ killed = {}
----------------------------------------------------------------------------
(* The supervisor: spawn_seccomp_target, from the top.                      *)

Return(r) ==
    /\ pc' = "idle"
    /\ supOpen' = FALSE
    /\ result' = [result EXCEPT ![launch] = r]

(* validate_inputs refuses the call before anything is touched.             *)
validate_inputs ==
    /\ pc = "idle" /\ launch < Launches
    /\ launch' = launch + 1
    /\ \E e \in {Err("InstallSeccomp", EINVAL), Err("Exec", EFAULT)} :
          /\ result' = [result EXCEPT ![launch + 1] = e]
          /\ cause' = e.step
    /\ UNCHANGED <<pc, link, supOpen, page, spVars, toSup, toSp, tgVars, killed>>

(* The inputs are accepted: the page is reset and the socket pair made.     *)
begin ==
    /\ pc = "idle" /\ launch < Launches
    /\ launch' = launch + 1
    /\ page' = reset(page)
    /\ link' = NoResult
    /\ toSup' = <<>> /\ toSp' = <<>>
    /\ \/ /\ pc' = "fork" /\ supOpen' = TRUE /\ cause' = "None"
          /\ UNCHANGED result
       \/ \E e \in KernelErrnos :
             /\ result' = [result EXCEPT ![launch + 1] = Err("TransferListener", e)]
             /\ cause' = "TransferListener"
             /\ UNCHANGED <<pc, supOpen>>
    /\ UNCHANGED <<spVars, tgVars, killed>>

fork ==
    /\ pc = "fork"
    /\ \/ /\ pc' = "recv_ready" /\ sp' = "stdin" /\ status' = 0
          /\ UNCHANGED <<supOpen, result, cause>>
       \/ /\ \E e \in KernelErrnos : Return(Err("CloneTarget", e))
          /\ Blame("CloneTarget")
          /\ UNCHANGED spVars
    /\ UNCHANGED <<launch, link, page, toSup, toSp, tgVars, killed>>

(* Variant: the socket stays open until the call returns.                   *)
LinkFailsKeepingSocket(step, e) ==
    /\ link' = Err(step, e)
    /\ pc' = "wait"
    /\ Blame(step)
    /\ UNCHANGED <<launch, supOpen, result>>

(* listener_result is an error: the supervisor drops its socket, then waits *)
(* for the spawner.                                                         *)
LinkFails(step, e) ==
    /\ link' = Err(step, e)
    /\ supOpen' = FALSE
    /\ pc' = "wait"
    /\ Blame(step)
    /\ UNCHANGED <<launch, result>>

recv_ready ==
    /\ pc = "recv_ready"
    /\ \/ /\ toSup # <<>>
          /\ toSup' = Tail(toSup)
          /\ pc' = "seize"
          /\ UNCHANGED <<launch, link, supOpen, result, cause>>
       \/ /\ toSup = <<>> /\ SpawnerEndClosed
          /\ \E e \in KernelErrnos \cup {EPIPE} : LinkFails("TransferListener", e)
          /\ UNCHANGED toSup
    /\ UNCHANGED <<page, spVars, toSp, tgVars, killed>>

(* Variant: a failed PTRACE_SEIZE is ignored.                               *)
seizeUnchecked ==
    /\ pc = "seize"
    /\ seized' = seized \cup ({page.target_pid} \cap {l \in Calls : target[l] = "run"})
    /\ pc' = "send_attached"
    /\ UNCHANGED <<launch, link, supOpen, result, page, spVars, toSup, toSp,
                   target, execd, history>>

(* ptrace::seize(target_pid).  A dead target cannot be attached to; a       *)
(* living one may be refused as well (permissions).  The refusal of a pid   *)
(* that is not positive (spawn.rs:292) is left out: the spawner stores the  *)
(* pid before it sends READY, so there is always one                        *)
(* (SpawnProofs!SeizesOwnTarget).                                           *)
seize ==
    /\ pc = "seize"
    /\ \/ /\ target[page.target_pid] = "run"
          /\ seized' = seized \cup {page.target_pid}
          /\ pc' = "send_attached"
          /\ UNCHANGED <<launch, link, supOpen, result, cause>>
       \/ /\ \E e \in KernelErrnos : LinkFails("AttachTracer", e)
          /\ UNCHANGED seized
    /\ UNCHANGED <<page, spVars, toSup, toSp, target, execd, killed>>

send_attached ==
    /\ pc = "send_attached"
    /\ \/ /\ ~SpawnerEndClosed
          /\ toSp' = Append(toSp, "ATTACHED")
          /\ pc' = "recv_fd"
          /\ UNCHANGED <<launch, link, supOpen, result, cause>>
       \/ /\ \E e \in KernelErrnos \cup {EPIPE} : LinkFails("TransferListener", e)
          /\ UNCHANGED toSp
    /\ UNCHANGED <<page, spVars, toSup, tgVars, killed>>

(* recv_fd: the descriptor; or a truncated control message (no descriptor   *)
(* slot left in the supervisor) or the end of the stream, both without an   *)
(* errno and so reported as EIO; or a reset by a spawner that was killed    *)
(* before it read ATTACHED.                                                 *)
recv_fd ==
    /\ pc = "recv_fd"
    /\ \/ /\ toSup # <<>>
          /\ toSup' = Tail(toSup)
          /\ \/ /\ link' = [kind |-> "ok", fd |-> Head(toSup).fd]
                /\ pc' = "wait"
                /\ UNCHANGED <<launch, supOpen, result, cause>>
             \/ LinkFails("TransferListener", EIO)
       \/ /\ toSup = <<>> /\ SpawnerEndClosed
          /\ \E e \in KernelErrnos \cup {EIO} : LinkFails("TransferListener", e)
          /\ UNCHANGED toSup
    /\ UNCHANGED <<page, spVars, toSp, tgVars, killed>>

(* waitpid_nointr(spawner_pid) *)
wait_spawner ==
    /\ pc = "wait" /\ sp = "zombie"
    /\ sp' = "none"
    /\ pc' = "evaluate"
    /\ UNCHANGED <<launch, link, supOpen, result, page, status, toSup, toSp, tgVars, history>>

(* Variant: the page's error is looked at before a failed attach.           *)
OutcomePageFirst ==
    IF ~page.done THEN Err("CloneTarget", ECHILD)
    ELSE IF page.state = "FAILED" THEN Err(page.error_step, page.error_code)
    ELSE IF status # 0 THEN Err("CloneTarget", ECHILD)
    ELSE IF link.kind = "err" THEN link
    ELSE Ok(page.target_pid, link.fd)

(* The closure that decides what the call returns, in the code's order.     *)
Outcome ==
    IF ~page.done THEN Err("CloneTarget", ECHILD)
    ELSE IF link.kind = "err" /\ link.step = "AttachTracer" THEN link
    ELSE IF page.state = "FAILED" THEN Err(page.error_step, page.error_code)
    ELSE IF status # 0 THEN Err("CloneTarget", ECHILD)
    ELSE IF link.kind = "err" THEN link
    ELSE IF page.state # "SPAWNED" THEN Err("CloneTarget", EIO)
    ELSE IF page.target_pid <= 0 THEN Err("CloneTarget", ECHILD)
    ELSE Ok(page.target_pid, link.fd)

(* Variant: nothing is cleaned up after an error.                           *)
evaluateOnly ==
    /\ pc = "evaluate"
    /\ Return(Outcome)
    /\ UNCHANGED <<launch, link, page, spVars, toSup, toSp, tgVars, history>>

(* Only an error seen after the spawner published its page leads to the     *)
(* termination of the target, and only if the page names one.               *)
evaluate ==
    /\ pc = "evaluate"
    /\ IF Outcome.kind = "err" /\ page.done /\ page.target_pid > 0
       THEN pc' = "terminate" /\ UNCHANGED <<supOpen, result>>
       ELSE Return(Outcome)
    /\ UNCHANGED <<launch, link, page, spVars, toSup, toSp, tgVars, history>>

(* terminate_and_reap_target: waitpid(WNOHANG) reports a zombie, which it   *)
(* reaps, but also a ptrace stop; both end the function.                    *)
terminate_poll ==
    /\ pc = "terminate"
    /\ IF target[page.target_pid] \in {"zombie", "stop"}
       THEN /\ Return(Outcome)
            /\ target' = [target EXCEPT ![page.target_pid] =
                            IF @ = "zombie" THEN "reaped" ELSE @]
       ELSE /\ pc' = "terminate_kill"
            /\ UNCHANGED <<supOpen, result, target>>
    /\ UNCHANGED <<launch, link, page, spVars, toSup, toSp, seized, execd, history>>

SigKill(pid) ==
    /\ target' = [target EXCEPT ![pid] = IF @ \in Alive THEN "zombie" ELSE @]
    /\ killed' = killed \cup {pid}

terminate_kill ==
    /\ pc = "terminate_kill"
    /\ SigKill(page.target_pid)
    /\ pc' = "terminate_reap"
    /\ UNCHANGED <<launch, link, supOpen, result, page, spVars, toSup, toSp,
                   seized, execd, cause>>

terminate_reap ==
    /\ pc = "terminate_reap"
    /\ target[page.target_pid] = "zombie"
    /\ target' = [target EXCEPT ![page.target_pid] = "reaped"]
    /\ Return(Outcome)
    /\ UNCHANGED <<launch, link, page, spVars, toSup, toSp, seized, execd, history>>

Supervisor ==
    \/ validate_inputs \/ begin \/ fork \/ recv_ready \/ seize \/ send_attached
    \/ recv_fd \/ wait_spawner \/ evaluate
    \/ terminate_poll \/ terminate_kill \/ terminate_reap
----------------------------------------------------------------------------
(* The spawner: spawner_main, then the publication and the exit.            *)

record_failure(step, e) ==
    page' = [page EXCEPT !.error_step = step, !.error_code = normalize(e),
                         !.state = "FAILED"]

SpawnerFails(step, e) ==
    /\ record_failure(step, e)
    /\ Blame(step)
    /\ status' = 127
    /\ sp' = "publish"

(* A failure that leaves a target behind kills it.                          *)
SpawnerFailsAndKills(step, e) ==
    SpawnerFails(step, e) /\ SigKill(page.target_pid)

install_standard_stream(here, step, then) ==
    /\ sp = here
    /\ \/ sp' = then /\ UNCHANGED <<page, status, cause>>
       \/ \E e \in FactoryErrors \cup KernelErrnos : SpawnerFails(step, e)
    /\ UNCHANGED <<supVars, toSup, toSp, tgVars, killed>>

close_unwanted_fds ==
    /\ sp = "close"
    /\ \/ sp' = "clone" /\ UNCHANGED <<page, status, cause>>
       \/ \E e \in KernelErrnos : SpawnerFails("CloseDescriptors", e)
    /\ UNCHANGED <<supVars, toSup, toSp, tgVars, killed>>

clone_target ==
    /\ sp = "clone"
    /\ \/ /\ sp' = "vfork"
          /\ target' = [target EXCEPT ![launch] = "prctl"]
          /\ UNCHANGED <<page, status, cause>>
       \/ \E e \in KernelErrnos : SpawnerFails("CloneTarget", e) /\ UNCHANGED target
    /\ UNCHANGED <<supVars, toSup, toSp, seized, execd, killed>>

(* CLONE_VFORK ends when the target execs or dies; its pid is stored then.  *)
vfork_returns ==
    /\ sp = "vfork"
    /\ target[launch] \notin PreExec
    /\ page' = [page EXCEPT !.target_pid = launch]
    /\ sp' = "check"
    /\ UNCHANGED <<supVars, status, toSup, toSp, tgVars, history>>

check_state ==
    /\ sp = "check"
    /\ \/ /\ page.state = "FAILED"
          /\ status' = 127 /\ sp' = "publish"
          /\ UNCHANGED <<page, target, cause, killed>>
       \/ /\ page.state = "EMPTY"
          /\ SpawnerFailsAndKills("Exec", EIO)
       \/ /\ page.state = "LISTENER_CREATED"
          /\ sp' = "send_ready"
          /\ UNCHANGED <<page, status, target, cause, killed>>
    /\ UNCHANGED <<supVars, toSup, toSp, seized, execd>>

send_ready ==
    /\ sp = "send_ready"
    /\ \/ /\ supOpen
          /\ toSup' = Append(toSup, "READY")
          /\ sp' = "recv_attached"
          /\ UNCHANGED <<page, status, target, cause, killed>>
       \/ /\ \E e \in KernelErrnos : SpawnerFailsAndKills("TransferListener", e)
          /\ UNCHANGED toSup
    /\ UNCHANGED <<supVars, toSp, seized, execd>>

recv_attached ==
    /\ sp = "recv_attached"
    /\ \/ /\ toSp # <<>>
          /\ toSp' = Tail(toSp)
          /\ sp' = "send_fd"
          /\ UNCHANGED <<page, status, target, cause, killed>>
       \/ /\ toSp = <<>> /\ ~supOpen
          /\ SpawnerFailsAndKills("TransferListener", EPIPE)
          /\ UNCHANGED toSp
    /\ UNCHANGED <<supVars, toSup, seized, execd>>

send_fd ==
    /\ sp = "send_fd"
    /\ \/ /\ supOpen
          /\ toSup' = Append(toSup, [fd |-> page.listener_fd])
          /\ sp' = "spawned"
          /\ UNCHANGED <<page, status, target, cause, killed>>
       \/ /\ \E e \in KernelErrnos : SpawnerFailsAndKills("TransferListener", e)
          /\ UNCHANGED toSup
    /\ UNCHANGED <<supVars, toSp, seized, execd>>

set_spawned ==
    /\ sp = "spawned"
    /\ page' = [page EXCEPT !.state = "SPAWNED"]
    /\ status' = 0
    /\ sp' = "publish"
    /\ UNCHANGED <<supVars, toSup, toSp, tgVars, history>>

publish_done ==
    /\ sp = "publish"
    /\ page' = [page EXCEPT !.done = TRUE]
    /\ sp' = "exit"
    /\ UNCHANGED <<supVars, status, toSup, toSp, tgVars, history>>

spawner_exit ==
    /\ sp = "exit"
    /\ sp' = "zombie"
    /\ UNCHANGED <<supVars, page, status, toSup, toSp, tgVars, history>>

Spawner ==
    \/ install_standard_stream("stdin", "Stdin", "stdout")
    \/ install_standard_stream("stdout", "Stdout", "stderr")
    \/ install_standard_stream("stderr", "Stderr", "close")
    \/ close_unwanted_fds \/ clone_target \/ vfork_returns \/ check_state
    \/ send_ready \/ recv_attached \/ send_fd
    \/ set_spawned \/ publish_done \/ spawner_exit
----------------------------------------------------------------------------
(* The target: target_entry, on the page of whatever launch is current.     *)

publish_target_failure(l, step, e) ==
    /\ record_failure(step, e)
    /\ Blame(step)
    /\ target' = [target EXCEPT ![l] = "failed"]

prctl(l) ==
    /\ target[l] = "prctl"
    /\ \/ target' = [target EXCEPT ![l] = "seccomp"] /\ UNCHANGED <<page, cause>>
       \/ \E e \in KernelErrnos : publish_target_failure(l, "NoNewPrivileges", e)
    /\ UNCHANGED <<supVars, spVars, toSup, toSp, seized, execd, killed>>

seccomp(l) ==
    /\ target[l] = "seccomp"
    /\ \/ target' = [target EXCEPT ![l] = "publish"] /\ UNCHANGED <<page, cause>>
       \/ \E e \in KernelErrnos : publish_target_failure(l, "InstallSeccomp", e)
    /\ UNCHANGED <<supVars, spVars, toSup, toSp, seized, execd, killed>>

publish_listener(l) ==
    /\ target[l] = "publish"
    /\ page' = [page EXCEPT !.listener_fd = l, !.state = "LISTENER_CREATED"]
    /\ target' = [target EXCEPT ![l] = "execve"]
    /\ UNCHANGED <<supVars, spVars, toSup, toSp, seized, execd, history>>

execve(l) ==
    /\ target[l] = "execve"
    /\ \/ /\ target' = [target EXCEPT ![l] = "run"]
          /\ execd' = execd \cup {l}
          /\ UNCHANGED <<page, cause>>
       \/ /\ \E e \in KernelErrnos : publish_target_failure(l, "Exec", e)
          /\ UNCHANGED execd
    /\ UNCHANGED <<supVars, spVars, toSup, toSp, seized, killed>>

target_exit(l) ==
    /\ target[l] = "failed"
    /\ target' = [target EXCEPT ![l] = "zombie"]
    /\ UNCHANGED <<supVars, page, spVars, toSup, toSp, seized, execd, history>>

Target(l) ==
    prctl(l) \/ seccomp(l) \/ publish_listener(l) \/ execve(l) \/ target_exit(l)

(* The program after execve.  It exits, or a signal or a traced system call *)
(* stops it under ptrace.  While nobody is attached SECCOMP_RET_TRACE makes *)
(* a process creation fail, which changes nothing here.                     *)
program(l) ==
    /\ target[l] = "run"
    /\ \/ target' = [target EXCEPT ![l] = "zombie"]
       \/ l \in seized /\ target' = [target EXCEPT ![l] = "stop"]
    /\ UNCHANGED <<supVars, page, spVars, toSup, toSp, seized, execd, history>>

(* SIGKILL from outside: another process, or the kernel out of memory.      *)
spawner_dies ==
    /\ sp \notin {"none", "zombie"}
    /\ sp' = "zombie" /\ status' = -9
    /\ UNCHANGED <<supVars, page, toSup, toSp, tgVars, history>>

target_dies(l) ==
    /\ target[l] \in Alive
    /\ target' = [target EXCEPT ![l] = "zombie"]
    /\ UNCHANGED <<supVars, page, spVars, toSup, toSp, seized, execd, history>>

Next ==
    \/ Supervisor \/ Spawner \/ spawner_dies
    \/ \E l \in Calls : Target(l) \/ program(l) \/ target_dies(l)

Spec == Init /\ [][Next]_vars

(* The scheduler runs the supervisor, the spawner and a target before its   *)
(* execve.  Nothing is assumed of the program or of outside kills.          *)
FairSpec ==
    /\ Spec
    /\ WF_vars(pc # "idle" /\ Supervisor) /\ WF_vars(Spawner)
    /\ \A l \in Calls : WF_vars(Target(l))
----------------------------------------------------------------------------
Steps == {"None", "Stdin", "Stdout", "Stderr", "CloseDescriptors", "CloneTarget",
          "NoNewPrivileges", "InstallSeccomp", "Exec", "TransferListener", "AttachTracer"}

PageType ==
    [done : BOOLEAN, state : {"EMPTY", "LISTENER_CREATED", "SPAWNED", "FAILED"},
     target_pid : Calls \cup {-1}, listener_fd : Calls \cup {-1},
     error_step : Steps, error_code : Nat]

(* Types; the page never holds a pid or a descriptor of no launch, nor a    *)
(* negative errno.                                                          *)
TypeOK ==
    /\ launch \in 0..Launches
    /\ page \in PageType
    /\ \A l \in Calls : result[l].kind \in {"none", "err", "ok"}
    /\ target \in [Calls -> Alive \cup {"none", "zombie", "reaped"}]
    /\ seized \subseteq execd /\ execd \subseteq Calls
    /\ killed \subseteq Calls
    /\ status \in {0, 127, -9}

(* What the documentation of spawn_seccomp_target promises of a successful  *)
(* call: the target it names is this launch's, crossed execve, has ptrace   *)
(* attached, its own listener was transferred, and the spawner is gone.     *)
OkGuarantee ==
    /\ \A l \in Calls : result[l].kind = "ok" =>
          /\ result[l].pid = l /\ result[l].listener = l
          /\ l \in execd /\ l \in seized
    /\ pc = "idle" => sp = "none"

(* After an error of a published launch no target of it goes on: there was  *)
(* none, it is gone, or it stays in the ptrace stop it was found in.        *)
NothingLeftRunning ==
    pc = "idle" /\ launch > 0 /\ page.done /\ result[launch].kind = "err"
        => target[launch] \notin PreExec \cup {"run"}

(* SIGKILL is only ever sent to the target of a launch that fails: a page   *)
(* used again never makes a later call kill the program of an earlier one.  *)
KillsOwnTarget == \A l \in killed : result[l].kind # "ok"

(* Between calls nobody is left who could still write to the shared page.   *)
NoStaleWriter == pc = "idle" => \A l \in Calls : target[l] \notin PreExec

(* A failure is reported as the first operation that failed, whatever the   *)
(* failures it brings about in the other processes, and with a usable       *)
(* errno; only a spawner that was killed is reported as CloneTarget.        *)
FirstFailureReported ==
    pc = "idle" /\ launch > 0 /\ result[launch].kind = "err" =>
        /\ result[launch].errno > 0
        /\ \/ result[launch].step = cause
           \/ result[launch].step = "CloneTarget" /\ status = -9

(* Every call returns, even if spawner or target die half way.              *)
Returns == pc # "idle" ~> pc = "idle"

(* "assert_eq!(errno::get(), libc::ECHILD)" (spawn.rs:899): after a failed  *)
(* published launch the target has been reaped.                             *)
FailedTargetReaped ==
    pc = "idle" /\ launch > 0 /\ page.done /\ result[launch].kind = "err"
        => target[launch] \in {"none", "reaped"}
=============================================================================
