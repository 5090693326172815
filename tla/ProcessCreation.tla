-------------------------- MODULE ProcessCreation --------------------------
(***************************************************************************)
(* The tracking half of runner::Supervisor (src/src/runner/supervisor.rs)  *)
(* with the ptrace primitives it uses (src/src/runner/ptrace.rs): every    *)
(* fork, vfork, clone and clone3 of the tested program stops under         *)
(* SECCOMP_RET_TRACE, and the supervisor carries the call to its           *)
(* syscall-exit stop, registers the child and lets both go.                *)
(*                                                                         *)
(* The handler runs in one thread; between any two of its ptrace calls the *)
(* processes of the program run, receive signals, exit or are killed.  A   *)
(* pid is free again once its exit status has been consumed.               *)
(***************************************************************************)
EXTENDS Integers, FiniteSets

CONSTANTS Pids,        \* kernel pids
          FirstPid,    \* the target that spawn_seccomp_target returned
          NoPid,
          Calls,       \* the kinds of process-creation calls considered
          MaxSignals   \* bound: how many signals the program receives

(* "fork"      fork, or clone and clone3 with flags the handler accepts     *)
(* "vfork"     vfork, or clone and clone3 with CLONE_VFORK                  *)
(* "files"     clone or clone3 with CLONE_FILES                             *)
(* "untraced"  clone or clone3 with CLONE_UNTRACED                          *)
(* "badargs"   clone3 with a null or too short argument block               *)
(* "unreadable" clone3 whose argument block cannot be read: EFAULT, or an   *)
(*             error of process_vm_readv that is not the program's fault    *)
CallKinds == {"fork", "vfork", "files", "untraced", "badargs", "unreadable"}

ASSUME PidsAssumption ==
    /\ Pids \subseteq Nat \ {0} /\ FirstPid \in Pids /\ NoPid \notin Pids
    /\ Calls \subseteq CallKinds
    /\ MaxSignals \in Nat

EAGAIN         == 11
EFAULT         == 14
EINVAL         == 22
ENOTSUP        == 95
ERESTARTNOINTR == 513   \* kernel-internal: run the call again after the signal

VARIABLES
    procs,     \* the pids that have an entry in Supervisor.procs
    pc,        \* where the handler is
    cur,       \* stop.parent
    attached,  \* attached_child of continue_to_fork
    blocking,  \* waiting in handle_process_creation, not in its try_ form
    outcome,   \* what the last call returned
    \* The kernel:
    proc,      \* the state of each pid
    call,      \* the process-creation call a process is in
    ret,       \* the return value of that call at its syscall-exit stop
    newborn,   \* the child that call created
    traced,    \* the pids attached to by ptrace
    signals,   \* how many signals the program received
    \* History, read by the properties only:
    lost,      \* pids whose exit was consumed and reported as an error
    faulted    \* a call returned an error

supVars    == <<procs, pc, cur, attached, blocking, outcome>>
kernelVars == <<proc, call, ret, newborn, traced, signals>>
vars       == <<supVars, kernelVars, lost, faulted>>

(* run: in user code; sigstop: signal-delivery stop not yet reported;       *)
(* seccomp: stop of a creation call not yet reported; stopped: stop already *)
(* reported; syscall, skipped: resumed inside the call (to run it, or to    *)
(* skip it); event: fork-event stop; released: resumed after that event;    *)
(* exit: syscall-exit stop; attach: stop of a newborn child; swallowed:     *)
(* stop that reap_exited took for an exit.                                  *)
Alive == {"run", "sigstop", "seccomp", "stopped", "syscall", "skipped",
          "event", "released", "exit", "attach", "swallowed"}

(* The stops that a wait for the process has still to report.               *)
Unreported == {"sigstop", "seccomp", "event", "exit", "attach"}

Exists(p) == proc[p] \in Alive \cup {"zombie"}

(* What a call returned: the child, or the errno of a call that failed or   *)
(* was refused; zero for the errors of the handler itself.                  *)
Outcome(k, e) == [kind |-> k, value |-> e]

Init ==
    /\ procs = {FirstPid} /\ pc = "idle" /\ cur = NoPid /\ attached = NoPid
    /\ blocking = FALSE /\ outcome = Outcome("none", 0)
    /\ proc = [p \in Pids |-> IF p = FirstPid THEN "run" ELSE "free"]
    /\ call = [p \in Pids |-> "none"]
    /\ ret = [p \in Pids |-> 0]
    /\ newborn = [p \in Pids |-> NoPid]
    /\ traced = {FirstPid}
    /\ signals = 0
    /\ lost = {} /\ faulted = FALSE
----------------------------------------------------------------------------
(* The kernel and the program (external): what happens to a process between *)
(* two ptrace calls of the handler.                                         *)

Become(p, s) == proc' = [proc EXCEPT ![p] = s]

CallOver(p) ==
    /\ call' = [call EXCEPT ![p] = "none"]
    /\ ret' = [ret EXCEPT ![p] = 0]
    /\ newborn' = [newborn EXCEPT ![p] = NoPid]

program(p) ==
    /\ proc[p] = "run"
    /\ \/ /\ \E k \in Calls : call' = [call EXCEPT ![p] = k]
          /\ p \in traced
          /\ Become(p, "seccomp")
          /\ UNCHANGED <<traced, signals>>
       \/ /\ p \in traced /\ signals < MaxSignals
          /\ signals' = signals + 1
          /\ Become(p, "sigstop")
          /\ UNCHANGED <<call, traced>>
    /\ UNCHANGED <<supVars, ret, newborn, lost, faulted>>

(* Exit, or SIGKILL.  The exit of a process nobody traces is the program's. *)
dies(p) ==
    /\ proc[p] \in Alive
    /\ Become(p, IF p \in traced THEN "zombie" ELSE "free")
    /\ CallOver(p)
    /\ UNCHANGED <<supVars, traced, signals, lost, faulted>>

(* The body of the call: a child, an errno, or a restart after a signal.    *)
(* A child is attached and stopped at birth unless CLONE_UNTRACED.          *)
do_call(p) ==
    /\ proc[p] = "syscall"
    /\ \/ /\ call[p] # "untraced"
          /\ \E c \in Pids :
                /\ proc[c] = "free"
                /\ proc' = [proc EXCEPT ![p] = "event", ![c] = "attach"]
                /\ newborn' = [newborn EXCEPT ![p] = c]
                /\ traced' = traced \cup {c}
          /\ UNCHANGED <<ret, signals>>
       \/ /\ call[p] = "untraced"
          /\ \E c \in Pids :
                /\ proc[c] = "free"
                /\ proc' = [proc EXCEPT ![p] = "exit", ![c] = "run"]
                /\ ret' = [ret EXCEPT ![p] = c]
          /\ UNCHANGED <<newborn, traced, signals>>
       \/ /\ Become(p, "exit")
          /\ ret' = [ret EXCEPT ![p] = -EAGAIN]
          /\ UNCHANGED <<newborn, traced, signals>>
       \/ /\ signals < MaxSignals
          /\ signals' = signals + 1
          /\ Become(p, "exit")
          /\ ret' = [ret EXCEPT ![p] = -ERESTARTNOINTR]
          /\ UNCHANGED <<newborn, traced>>
    /\ UNCHANGED <<supVars, call, lost, faulted>>

(* After the fork event the call returns the child's pid, a vfork only once *)
(* the child has exited (a stopped child cannot exec).                      *)
return_child(p) ==
    /\ proc[p] = "released"
    /\ call[p] = "vfork" => proc[newborn[p]] \in {"zombie", "free", "run"}
    /\ Become(p, "exit")
    /\ ret' = [ret EXCEPT ![p] = newborn[p]]
    /\ UNCHANGED <<supVars, call, newborn, traced, signals, lost, faulted>>

skip_call(p) ==
    /\ proc[p] = "skipped"
    /\ Become(p, "exit")
    /\ UNCHANGED <<supVars, call, ret, newborn, traced, signals, lost, faulted>>

Kernel(p) == do_call(p) \/ return_child(p) \/ skip_call(p)
----------------------------------------------------------------------------
(* The handler *)

Return(o) ==
    /\ pc' = "idle" /\ cur' = NoPid /\ attached' = NoPid /\ blocking' = FALSE
    /\ outcome' = o

Fault(o) == Return(o) /\ faulted' = TRUE

(* A system call of the handler failed, mostly with ESRCH because the       *)
(* process was killed: the handler gives up and touches nothing.            *)
GivesUp == Fault(Outcome("io", 0)) /\ UNCHANGED <<procs, kernelVars, lost>>

Freed(p) ==
    /\ Become(p, "free")
    /\ traced' = traced \ {p}

(* waitpid(p) returned an exit status: ensure_stopped makes it an error.    *)
ExitConsumed(p) ==
    /\ Freed(p)
    /\ lost' = lost \cup ({p} \cap procs)
    /\ Fault(Outcome("wait_status", 0))
    /\ UNCHANGED <<procs, call, ret, newborn, signals>>

(* The process the handler works on was killed: the wait reports it, or, if  *)
(* the wait had already reported a stop, the next ptrace request fails.     *)
Killed == proc[cur] = "zombie" /\ (ExitConsumed(cur) \/ GivesUp)

(* resume(p): back to user code.  A call interrupted for a signal goes      *)
(* through the signal's delivery and is then made again.                    *)
Resumed(p) ==
    IF ret[p] = -ERESTARTNOINTR THEN "sigstop" ELSE "run"

EndCall(p) ==
    IF Resumed(p) = "sigstop" THEN UNCHANGED <<call, ret, newborn>> ELSE CallOver(p)

(* handle_process_creation and try_handle_process_creation: the entry check *)
start(p) ==
    /\ pc = "idle"
    /\ IF p \in procs
       THEN /\ pc' = "poll" /\ cur' = p
            /\ blocking' \in BOOLEAN
            /\ outcome' = Outcome("none", 0)
       ELSE /\ outcome' = Outcome("not_tracked", 0)
            /\ UNCHANGED <<pc, cur, blocking>>
    /\ UNCHANGED <<procs, attached, kernelVars, lost, faulted>>

(* One round of wait_for_process_creation or its WNOHANG form, with         *)
(* process_creation_stop: another stop is resumed with its signal.          *)
poll ==
    /\ pc = "poll"
    /\ \/ /\ proc[cur] = "seccomp"
          /\ Become(cur, "stopped")
          /\ pc' = "decide" /\ blocking' = FALSE
          /\ UNCHANGED <<procs, cur, attached, outcome, call, ret, newborn,
                         traced, signals, lost, faulted>>
       \/ /\ proc[cur] = "sigstop"
          /\ Become(cur, IF call[cur] = "none" THEN "run" ELSE "seccomp")
          /\ UNCHANGED <<supVars, call, ret, newborn, traced, signals, lost, faulted>>
       \/ Killed
       \/ /\ proc[cur] \in Alive \ {"seccomp", "sigstop"} /\ cur \in traced
          /\ ~blocking
          /\ Return(Outcome("nothing", 0))
          /\ UNCHANGED <<procs, kernelVars, lost, faulted>>
       \/ /\ cur \notin traced   \* a stale entry: ECHILD
          /\ GivesUp

(* handle_process_creation_stop up to its first ptrace call: the errno of a *)
(* refused call, zero for one that is carried out.                          *)
process_creation_flags(k) ==
    CASE k = "badargs"    -> EINVAL
      [] k = "unreadable" -> EFAULT
      [] k = "files"      -> ENOTSUP
      [] OTHER            -> 0

decide ==
    /\ pc = "decide"
    /\ \/ /\ proc[cur] = "stopped"
          /\ IF process_creation_flags(call[cur]) # 0
             THEN Become(cur, "skipped") /\ pc' = "reject"
             ELSE Become(cur, "syscall") /\ pc' = "await"
          /\ UNCHANGED <<procs, cur, attached, blocking, outcome, call, ret, newborn,
                         traced, signals, lost, faulted>>
       \/ /\ proc[cur] = "zombie" \/ call[cur] = "unreadable"
          /\ GivesUp

(* reject_process_creation from its PTRACE_SYSCALL on: the skipped call     *)
(* returns the errno.                                                       *)
reject ==
    /\ pc = "reject"
    /\ \/ /\ proc[cur] = "exit"
          /\ Become(cur, "run")
          /\ CallOver(cur)
          /\ Return(Outcome("rejected", process_creation_flags(call[cur])))
          /\ UNCHANGED <<procs, traced, signals, lost, faulted>>
       \/ Killed

(* Variant: the parent of a failed call is not resumed.                     *)
await_failedNotResumed ==
    /\ proc[cur] = "exit" /\ ret[cur] < 0 /\ attached = NoPid
    /\ EndCall(cur)
    /\ Become(cur, "stopped")
    /\ Return(Outcome("failed", -ret[cur]))
    /\ UNCHANGED <<procs, traced, signals, lost, faulted>>

(* The call failed in the kernel: the parent goes on with the errno.        *)
await_failed ==
    /\ proc[cur] = "exit" /\ ret[cur] < 0 /\ attached = NoPid
    /\ EndCall(cur)
    /\ Become(cur, Resumed(cur))
    /\ Return(Outcome("failed", -ret[cur]))
    /\ UNCHANGED <<procs, traced, signals, lost, faulted>>

(* The loop of continue_to_fork: the fork event, or the syscall-exit stop   *)
(* whose result has to agree with the event.                                *)
await ==
    /\ pc = "await"
    /\ \/ /\ proc[cur] = "event"
          /\ Become(cur, "stopped")
          /\ attached' = newborn[cur]
          /\ pc' = "await_child"
          /\ UNCHANGED <<procs, cur, blocking, outcome, call, ret, newborn, traced,
                         signals, lost, faulted>>
       \/ await_failed
       \/ /\ proc[cur] = "exit" /\ ret[cur] > 0 /\ ret[cur] = attached
          /\ Become(cur, "stopped")
          /\ pc' = "register"
          /\ UNCHANGED <<procs, cur, attached, blocking, outcome, call, ret, newborn,
                         traced, signals, lost, faulted>>
       \/ /\ proc[cur] = "exit" /\ ret[cur] > 0 /\ ret[cur] # attached
          /\ Become(cur, "stopped")
          /\ Fault(Outcome("mismatch", 0))
          /\ UNCHANGED <<procs, call, ret, newborn, traced, signals, lost>>
       \/ Killed

(* Variant: the parent is not sent on after its fork event.                 *)
await_childOnly ==
    /\ pc = "await_child"
    /\ proc[attached] = "attach"
    /\ Become(attached, "stopped")
    /\ pc' = "await"
    /\ UNCHANGED <<procs, cur, attached, blocking, outcome, call, ret, newborn,
                   traced, signals, lost, faulted>>

(* The wait for the attached child, then the parent's PTRACE_SYSCALL.       *)
await_child ==
    /\ pc = "await_child"
    /\ \/ /\ proc[attached] = "attach" /\ proc[cur] = "stopped"
          /\ proc' = [proc EXCEPT ![attached] = "stopped", ![cur] = "released"]
          /\ pc' = "await"
          /\ UNCHANGED <<procs, cur, attached, blocking, outcome, call, ret, newborn,
                         traced, signals, lost, faulted>>
       \/ /\ proc[attached] = "attach" /\ proc[cur] = "zombie"
          /\ Become(attached, "stopped")
          /\ Fault(Outcome("io", 0))
          /\ UNCHANGED <<procs, call, ret, newborn, traced, signals, lost>>
       \/ proc[attached] = "zombie" /\ ExitConsumed(attached)
       \/ proc[cur] = "zombie" /\ GivesUp   \* before PTRACE_GETEVENTMSG

(* Variant: the child is let go without an entry.                           *)
registerNothing ==
    /\ pc = "register"
    /\ pc' = "resume"
    /\ UNCHANGED <<procs, cur, attached, blocking, outcome, kernelVars, lost, faulted>>

(* register_process(child) *)
register ==
    /\ pc = "register"
    /\ pc' = IF attached \in procs THEN "resume_occupied" ELSE "resume"
    /\ procs' = procs \cup {attached}
    /\ UNCHANGED <<cur, attached, blocking, outcome, kernelVars, lost, faulted>>

(* resume_fork: child and parent, each of which may have been killed.       *)
resume_fork ==
    /\ pc \in {"resume", "resume_occupied"}
    /\ proc' = [p \in Pids |->
                  IF p \in {cur, attached} /\ proc[p] = "stopped" THEN "run" ELSE proc[p]]
    /\ CallOver(cur)
    /\ IF pc = "resume_occupied" THEN Fault(Outcome("already_tracked", 0))
       ELSE IF proc[cur] = "stopped" /\ proc[attached] = "stopped"
       THEN Return(Outcome("created", attached)) /\ UNCHANGED faulted
       ELSE Fault(Outcome("io", 0))
    /\ UNCHANGED <<procs, traced, signals, lost>>

(* Variant: the entry of a reaped process stays.                            *)
reap_exitedOnly(p) ==
    /\ pc = "idle" /\ proc[p] = "zombie"
    /\ Freed(p)
    /\ UNCHANGED <<supVars, call, ret, newborn, signals, lost, faulted>>

(* Supervisor::reap_exited, when waitid(P_ALL, WEXITED | WNOHANG) reports a *)
(* child.  That is one that has exited, or a tracee in a stop nobody has    *)
(* waited for: the kernel reports a ptrace stop to its tracer whatever the  *)
(* options are.  The code asks only for the pid, so the stop is consumed    *)
(* and the entry of a process that lives is removed.                        *)
reap_exited(p) ==
    /\ pc = "idle"
    /\ \/ proc[p] = "zombie" /\ Freed(p)
       \/ /\ p \in traced /\ proc[p] \in Unreported
          /\ Become(p, "swallowed")
          /\ UNCHANGED traced
    /\ procs' = procs \ {p}
    /\ lost' = lost \ {p}
    /\ UNCHANGED <<pc, cur, attached, blocking, outcome, call, ret, newborn, signals, faulted>>

Handler ==
    \/ poll \/ decide \/ reject \/ await \/ await_child \/ register \/ resume_fork

Next ==
    \/ Handler
    \/ \E p \in Pids : start(p) \/ reap_exited(p) \/ program(p) \/ dies(p) \/ Kernel(p)

Spec == Init /\ [][Next]_vars

(* The scheduler runs the handler's thread, and the kernel finishes a       *)
(* system call it has been told to run.                                     *)
FairSpec == Spec /\ WF_vars(Handler) /\ \A p \in Pids : WF_vars(Kernel(p))
----------------------------------------------------------------------------
(* Types.                                                                   *)
TypeOK ==
    /\ procs \subseteq Pids
    /\ proc \in [Pids -> Alive \cup {"free", "zombie"}]
    /\ cur \in Pids \cup {NoPid} /\ attached \in Pids \cup {NoPid}
    /\ call \in [Pids -> CallKinds \cup {"none"}]
    /\ newborn \in [Pids -> Pids \cup {NoPid}]
    /\ traced \subseteq Pids
    /\ outcome.value \in Nat

(* No traced process executes code of the tested program before it has an   *)
(* entry: the child is registered while it is still stopped at birth.       *)
RunsOnlyTracked ==
    \A p \in traced : proc[p] \in {"run", "sigstop", "seccomp"} => p \in procs

(* An entry outlives its process only if a call has reported that exit to   *)
(* the caller as an error: no death goes unnoticed.                         *)
StaleOnlyIfReported == \A p \in procs : ~Exists(p) => p \in lost

(* A call of the handler that returns without an error leaves nobody        *)
(* stopped by its hand: child and parent go on.  The states listed leave    *)
(* out swallowed: a stop that reap_exited consumed, the handler cannot see. *)
NobodyLeftStopped ==
    pc = "idle" /\ ~faulted => \A p \in Pids : proc[p] \notin
        {"stopped", "syscall", "skipped", "event", "released", "exit", "attach"}

(* Once a call has seen its process-creation stop it returns, whoever is    *)
(* killed meanwhile.                                                        *)
HandlerReturns == pc \notin {"idle", "poll"} ~> pc = "idle"
=============================================================================
