---------------------------- MODULE SpawnProofs ----------------------------
(***************************************************************************)
(* Proofs about Spawn.tla, for any number of launches on one               *)
(* StartupExchange and any errors of the kernel and of the FdFactory.      *)
(***************************************************************************)
EXTENDS Spawn, TLAPS

(* Where the supervisor is: the spawner is not yet reaped; the listener is  *)
(* still to come; the spawner is gone and the call is about to return.      *)
Linking == {"recv_ready", "seize", "send_attached", "recv_fd", "wait"}
Before  == {"fork", "recv_ready", "seize", "send_attached", "recv_fd"}
Killing == {"terminate", "terminate_kill", "terminate_reap"}
Closing == {"evaluate"} \cup Killing

(* Where the spawner is: before the clone; past the target's execve.        *)
Early   == {"stdin", "stdout", "stderr", "close", "clone"}
Started == {"send_ready", "recv_attached", "send_fd", "spawned"}
Ending  == {"publish", "exit"}

Failed == page.state = "FAILED"

LinkType ==
    [kind : {"none"}] \cup [kind : {"ok"}, fd : Calls]
        \cup [kind : {"err"}, step : {"TransferListener", "AttachTracer"}, errno : Nat \ {0}]

ResultType ==
    [kind : {"none"}] \cup [kind : {"ok"}, pid : Calls, listener : Calls]
        \cup [kind : {"err"}, step : Steps, errno : Nat]

(* Types, in full.                                                          *)
Types ==
    /\ TypeOK
    /\ pc \in {"idle", "fork"} \cup Linking \cup Closing
    /\ sp \in {"none", "zombie", "vfork", "check"} \cup Early \cup Started \cup Ending
    /\ link \in LinkType /\ result \in [Calls -> ResultType]
    /\ cause \in Steps /\ supOpen \in BOOLEAN
    /\ pc # "idle" => launch \in Calls

(* Which steps of supervisor and spawner can be taken side by side.         *)
InStep ==
    /\ sp = "none" <=> pc \notin Linking
    /\ pc \in Before => supOpen
    /\ sp \in Early \cup {"vfork", "check", "send_ready"} => pc = "recv_ready"
    /\ sp = "send_fd" => pc = "recv_fd"
    /\ sp = "spawned" => pc \in {"recv_fd", "wait"}
    /\ pc \in {"seize", "send_attached"} => sp \in {"recv_attached", "zombie"}

(* What can be in the socket.                                               *)
Messages ==
    /\ pc \in {"fork", "recv_ready", "seize", "send_attached"} => toSp = <<>>
    /\ pc \in {"fork", "seize", "send_attached"} => toSup = <<>>
    /\ pc = "recv_ready" /\ toSup # <<>> =>
          toSup = <<"READY">> /\ sp \in {"recv_attached", "zombie"}
    /\ pc = "recv_fd" /\ toSup # <<>> =>
          toSup = <<[fd |-> launch]>> /\ sp \in {"spawned", "zombie"} \cup Ending
    /\ pc = "wait" /\ sp = "recv_attached" => toSp = <<>>

(* The target of this launch reached its execve.                            *)
Crossed ==
    \/ sp \in Started
    \/ pc = "recv_ready" /\ toSup # <<>>
    \/ pc \in {"seize", "send_attached", "recv_fd"}
    \/ link.kind = "ok"
    \/ page.state = "SPAWNED"

(* The targets: only the one of this launch can be before its execve, and   *)
(* only while the supervisor waits for the first message.                   *)
Targets ==
    /\ \A l \in Calls : l > launch => target[l] = "none" /\ l \notin killed
    /\ \A l \in Calls : target[l] \in PreExec =>
          l = launch /\ pc = "recv_ready" /\ toSup = <<>> /\ sp \in {"vfork", "zombie"}
    /\ \A l \in Calls : target[l] \in {"run", "stop"} => l \in execd
    /\ pc = "fork" \/ sp \in Early => target[launch] = "none"

(* What the page says of this launch.                                       *)
PageTrue ==
    pc # "idle" =>
        /\ page.target_pid \in {-1, launch}
        /\ Crossed => page.target_pid = launch
        /\ page.target_pid = -1 /\ (page.done \/ sp \in Ending \cup Early) => target[launch] = "none"
        /\ page.state \in {"LISTENER_CREATED", "SPAWNED"} => page.listener_fd = launch
        /\ pc \in {"seize", "send_attached"} \/ sp \in Started
              \/ (pc = "recv_ready" /\ toSup # <<>>) => page.state = "LISTENER_CREATED"
        /\ pc = "fork" \/ sp \in Early => page = EmptyPage
        /\ sp = "vfork" => page.target_pid = -1
        /\ sp = "check" => page.target_pid = launch
        /\ page.state = "SPAWNED" => pc \in {"recv_fd", "wait"} \cup Closing
        /\ target[launch] \in PreExec \ {"failed"} => ~Failed
        /\ page.done => sp \in {"exit", "zombie", "none"} /\ target[launch] \notin PreExec

(* How the spawner ended, or is about to.                                   *)
StatusTrue ==
    pc # "idle" =>
        /\ sp \in {"vfork", "check"} \cup Early \cup Started => status = 0
        /\ sp \in Ending => \/ Failed /\ status = 127
                            \/ page.state = "SPAWNED" /\ status = 0
        /\ sp = "exit" => page.done
        /\ sp = "zombie" \/ pc \in Closing =>
              \/ status = -9
              \/ page.done /\ Failed /\ status = 127
              \/ page.done /\ page.state = "SPAWNED" /\ status = 0

AttachFailed == link.kind = "err" /\ link.step = "AttachTracer"

(* The first failure is what the page or the link says it is.               *)
CauseTrue ==
    pc # "idle" =>
        /\ Failed => /\ page.error_code > 0 /\ page.error_step # "None"
                     /\ page.error_step = cause \/ AttachFailed
        /\ ~Failed /\ pc \in Before => cause = "None"
        /\ AttachFailed => cause = "AttachTracer"
        /\ link.kind = "err" /\ ~Failed /\ status = 0 => cause = link.step

(* The link, and the tracer behind it.                                      *)
LinkTrue ==
    pc # "idle" =>
        /\ link.kind = "none" <=> pc \in Before
        /\ link.kind = "ok" => link.fd = launch /\ sp # "recv_attached"
        /\ link.kind = "ok" \/ pc \in {"send_attached", "recv_fd"} => launch \in seized

(* Kills and results.                                                       *)
ResultsTrue ==
    /\ \A l \in Calls : l > launch \/ (l = launch /\ pc # "idle") => result[l].kind = "none"
    /\ pc # "idle" /\ launch \in killed => status # 0 \/ pc \in Killing
    /\ pc = "fork" \/ sp \notin {"none", "zombie"} \cup Ending => launch \notin killed
    /\ pc \in Killing => Outcome.kind = "err" /\ page.done /\ page.target_pid = launch

(* The inductive invariant.                                                 *)
IInv ==
    /\ Types /\ InStep /\ Messages /\ Targets /\ PageTrue /\ StatusTrue
    /\ CauseTrue /\ LinkTrue /\ ResultsTrue
    /\ OkGuarantee /\ NothingLeftRunning /\ KillsOwnTarget /\ FirstFailureReported
----------------------------------------------------------------------------
(* normalize makes a usable errno of any error.                             *)
LEMMA NormalizePositive ==
    ASSUME NEW e \in Int
    PROVE  normalize(e) \in Nat \ {0}
BY DEF normalize, EIO

(* Between two calls most of the invariant is void.                         *)
LEMMA IdleVoid ==
    ASSUME pc' = "idle"
    PROVE  PageTrue' /\ StatusTrue' /\ CauseTrue' /\ LinkTrue'
BY DEF PageTrue, StatusTrue, CauseTrue, LinkTrue

(* A step in the middle of a call cannot touch a result.                    *)
LEMMA BusyResults ==
    ASSUME IInv, pc # "idle", pc' # "idle", UNCHANGED <<launch, result>>,
           seized \subseteq seized', execd \subseteq execd',
           killed' \subseteq killed \cup {launch}
    PROVE  OkGuarantee' /\ NothingLeftRunning' /\ KillsOwnTarget' /\ FirstFailureReported'
<1>1. launch \in Calls /\ result[launch].kind = "none" /\ killed \subseteq Calls
    BY DEF IInv, Types, TypeOK, ResultsTrue
<1>2. OkGuarantee'
    BY DEF IInv, OkGuarantee
<1>3. NothingLeftRunning' /\ FirstFailureReported'
    BY DEF NothingLeftRunning, FirstFailureReported
<1>4. KillsOwnTarget'
    BY <1>1 DEF IInv, KillsOwnTarget
<1> QED
    BY <1>2, <1>3, <1>4

(* Before the first call.                                                   *)
LEMMA InitIInv == Init => IInv
<1> SUFFICES ASSUME Init PROVE IInv
    OBVIOUS
<1>1. Types
    <2>1. page \in PageType
        BY DEF Init, PageType, EmptyPage, Steps
    <2>2. NoResult \in LinkType /\ NoResult \in ResultType
        BY DEF NoResult, LinkType, ResultType
    <2>3. launch \in 0..Launches /\ cause \in Steps
        BY LaunchesAssumption DEF Init, Steps
    <2> QED
        BY <2>1, <2>2, <2>3 DEF Init, Types, TypeOK, NoResult
<1>2. InStep /\ Messages
    BY DEF Init, InStep, Messages, Linking, Before, Early
<1>3. Targets
    BY DEF Init, Targets, PreExec, Early
<1>4. PageTrue /\ StatusTrue /\ CauseTrue /\ LinkTrue
    BY DEF Init, PageTrue, StatusTrue, CauseTrue, LinkTrue
<1>5. ResultsTrue
    BY DEF Init, ResultsTrue, NoResult, Killing
<1>6. OkGuarantee /\ NothingLeftRunning /\ KillsOwnTarget /\ FirstFailureReported
    BY DEF Init, OkGuarantee, NothingLeftRunning, KillsOwnTarget, FirstFailureReported, NoResult
<1> QED
    BY <1>1, <1>2, <1>3, <1>4, <1>5, <1>6 DEF IInv

(* The call returns r: what r has to satisfy.                               *)
LEMMA ReturnIInv ==
    ASSUME IInv, pc # "idle", sp = "none",
           NEW r \in ResultType, r.kind # "none", Return(r),
           UNCHANGED <<launch, link, page, sp, toSup, toSp, seized, execd>>,
           status' = status, cause' \in Steps, killed' = killed,
           target' \in [Calls -> Alive \cup {"none", "zombie", "reaped"}],
           \A l \in Calls : target'[l] = target[l] \/ (target[l] = "zombie" /\ target'[l] = "reaped"),
           r.kind = "ok" => /\ r.pid = launch /\ r.listener = launch
                            /\ launch \in execd \cap seized /\ launch \notin killed,
           r.kind = "err" => /\ r.errno > 0
                             /\ r.step = cause' \/ (r.step = "CloneTarget" /\ status = -9)
                             /\ page.done => target'[launch] \notin PreExec \cup {"run"}
    PROVE  IInv'
<1>1. /\ launch \in Calls /\ pc \notin Linking /\ result \in [Calls -> ResultType]
      /\ pc' = "idle" /\ supOpen' = FALSE /\ result' = [result EXCEPT ![launch] = r]
    BY DEF IInv, Types, InStep, Return
<1>2. Types'
    BY <1>1 DEF IInv, Types, TypeOK, ResultType
<1>3. InStep' /\ Messages'
    BY <1>1 DEF InStep, Messages, Linking, Before, Early
<1>4. \A l \in Calls : target[l] \notin PreExec
    BY <1>1 DEF IInv, Targets, Linking
<1>5. Targets'
    BY <1>1, <1>4 DEF IInv, Targets, PreExec, Early
<1>6. PageTrue' /\ StatusTrue' /\ CauseTrue' /\ LinkTrue'
    BY <1>1, IdleVoid
<1>7. ResultsTrue'
    BY <1>1 DEF IInv, ResultsTrue, Killing, Types, TypeOK
<1>8. OkGuarantee'
    BY <1>1 DEF IInv, OkGuarantee
<1>9. NothingLeftRunning'
    BY <1>1 DEF NothingLeftRunning
<1>10. KillsOwnTarget'
    BY <1>1 DEF IInv, KillsOwnTarget
<1>11. FirstFailureReported'
    BY <1>1 DEF FirstFailureReported
<1> QED
    BY <1>2, <1>3, <1>5, <1>6, <1>7, <1>8, <1>9, <1>10, <1>11 DEF IInv
----------------------------------------------------------------------------
(* The supervisor's steps *)

(* A new call: the number of launches goes up between two calls.            *)
LEMMA NewLaunch ==
    ASSUME IInv, pc = "idle", launch < Launches, launch' = launch + 1
    PROVE  /\ launch \in 0..Launches /\ launch + 1 \in Calls /\ sp = "none"
           /\ \A l \in Calls : target[l] \notin PreExec
           /\ target[launch + 1] = "none" /\ launch + 1 \notin killed
           /\ result[launch + 1].kind = "none"
           /\ \A l \in Calls : l > launch + 1 => result[l].kind = "none"
           /\ \A l \in Calls : l > launch + 1 => target[l] = "none" /\ l \notin killed
<1>1. launch \in 0..Launches /\ launch + 1 \in Calls
    BY LaunchesAssumption DEF IInv, Types, TypeOK, Calls
<1>2. sp = "none"
    BY DEF IInv, InStep, Linking
<1>3. \A l \in Calls : target[l] \notin PreExec
    BY DEF IInv, Targets
<1>4. /\ target[launch + 1] = "none" /\ launch + 1 \notin killed
      /\ \A l \in Calls : l > launch + 1 => target[l] = "none" /\ l \notin killed
    BY <1>1 DEF IInv, Targets, Calls
<1>5. /\ result[launch + 1].kind = "none"
      /\ \A l \in Calls : l > launch + 1 => result[l].kind = "none"
    BY <1>1 DEF IInv, ResultsTrue, Calls
<1> QED
    BY <1>1, <1>2, <1>3, <1>4, <1>5

(* A call that fails before it forks.                                       *)
LEMMA RefusedIInv ==
    ASSUME IInv, pc = "idle", launch < Launches, launch' = launch + 1,
           NEW r \in ResultType, r.kind = "err", r.errno > 0, cause' = r.step,
           result' = [result EXCEPT ![launch + 1] = r],
           link' \in LinkType, page' \in PageType,
           UNCHANGED <<pc, supOpen, sp, status, target, seized, execd, killed>>
    PROVE  IInv'
<1>1. /\ launch \in 0..Launches /\ launch + 1 \in Calls /\ sp = "none"
      /\ \A l \in Calls : target[l] \notin PreExec
      /\ target[launch + 1] = "none" /\ launch + 1 \notin killed
      /\ \A l \in Calls : l > launch + 1 => result[l].kind = "none"
      /\ \A l \in Calls : l > launch + 1 => target[l] = "none" /\ l \notin killed
    BY NewLaunch
<1>2. result \in [Calls -> ResultType] /\ killed \subseteq Calls /\ r.step \in Steps
    BY DEF IInv, Types, TypeOK, ResultType
<1>3. Types'
    BY <1>1, <1>2 DEF IInv, Types, TypeOK, Calls, ResultType
<1>4. InStep' /\ Messages'
    BY <1>1 DEF InStep, Messages, Linking, Before, Early
<1>5. Targets'
    BY <1>1 DEF IInv, Targets, Early
<1>6. PageTrue' /\ StatusTrue' /\ CauseTrue' /\ LinkTrue'
    BY IdleVoid
<1>7. ResultsTrue'
    BY <1>1, <1>2 DEF ResultsTrue, Killing
<1>8. OkGuarantee' /\ KillsOwnTarget'
    BY <1>1, <1>2 DEF IInv, OkGuarantee, KillsOwnTarget
<1>9. NothingLeftRunning' /\ FirstFailureReported'
    BY <1>1, <1>2 DEF NothingLeftRunning, FirstFailureReported, PreExec
<1> QED
    BY <1>3, <1>4, <1>5, <1>6, <1>7, <1>8, <1>9 DEF IInv

(* An error is a result, with a positive errno.                             *)
LEMMA ErrType ==
    ASSUME NEW step \in Steps, NEW e \in Int
    PROVE  /\ Err(step, e) \in ResultType
           /\ Err(step, e).kind = "err" /\ Err(step, e).step = step /\ Err(step, e).errno > 0
           /\ step \in {"TransferListener", "AttachTracer"} => Err(step, e) \in LinkType
BY NormalizePositive DEF Err, ResultType, LinkType

(* A page that was reset is well formed.                                    *)
LEMMA EmptyPageType == EmptyPage \in PageType
BY DEF PageType, EmptyPage, Steps

(* validate_inputs: a launch refused at once touches nothing.               *)
LEMMA ValidateInputsIInv ==
    ASSUME IInv, validate_inputs
    PROVE  IInv'
<1>1. PICK e \in {Err("InstallSeccomp", EINVAL), Err("Exec", EFAULT)} :
         result' = [result EXCEPT ![launch + 1] = e] /\ cause' = e.step
    BY DEF validate_inputs
<1>2. e \in ResultType /\ e.kind = "err" /\ e.errno > 0
    BY <1>1, ErrType DEF Steps, EINVAL, EFAULT
<1>3. link \in LinkType /\ page \in PageType
    BY DEF IInv, Types, TypeOK
<1> QED
    BY <1>1, <1>2, <1>3, RefusedIInv DEF validate_inputs, spVars, tgVars

(* begin: the page is reset before anyone of this launch exists.            *)
LEMMA BeginIInv ==
    ASSUME IInv, begin
    PROVE  IInv'
<1>1. /\ pc = "idle" /\ launch < Launches /\ launch' = launch + 1
      /\ page' = EmptyPage /\ link' = NoResult /\ toSup' = <<>> /\ toSp' = <<>>
      /\ UNCHANGED <<sp, status, target, seized, execd, killed>>
    BY DEF begin, reset, spVars, tgVars
<1>2. link' \in LinkType /\ link'.kind = "none" /\ page' \in PageType
    BY <1>1, EmptyPageType DEF NoResult, LinkType
<1>3. /\ launch \in 0..Launches /\ launch + 1 \in Calls /\ sp = "none"
      /\ \A l \in Calls : target[l] \notin PreExec
      /\ target[launch + 1] = "none" /\ launch + 1 \notin killed
      /\ result[launch + 1].kind = "none"
      /\ \A l \in Calls : l > launch + 1 => result[l].kind = "none"
      /\ \A l \in Calls : l > launch + 1 => target[l] = "none" /\ l \notin killed
    BY <1>1, NewLaunch
<1>4. CASE pc' = "fork" /\ supOpen' = TRUE /\ cause' = "None" /\ UNCHANGED result
    <2>1. Types'
        BY <1>1, <1>2, <1>3, <1>4 DEF IInv, Types, TypeOK, Calls, Steps
    <2>2. InStep' /\ Messages'
        BY <1>1, <1>3, <1>4 DEF InStep, Messages, Linking, Before, Early
    <2>3. Targets'
        BY <1>1, <1>3, <1>4 DEF IInv, Targets, Early
    <2>4. PageTrue'
        BY <1>1, <1>2, <1>3, <1>4
        DEF PageTrue, EmptyPage, Crossed, Failed, Early, Started, Ending, PreExec
    <2>5. StatusTrue'
        BY <1>1, <1>3, <1>4 DEF StatusTrue, Early, Started, Ending, Closing, Killing
    <2>6. CauseTrue' /\ LinkTrue'
        BY <1>1, <1>2, <1>4 DEF CauseTrue, LinkTrue, Failed, AttachFailed, EmptyPage, Before
    <2>7. ResultsTrue'
        BY <1>1, <1>3, <1>4 DEF ResultsTrue, Killing
    <2>8. OkGuarantee' /\ KillsOwnTarget'
        BY <1>1, <1>4 DEF IInv, OkGuarantee, KillsOwnTarget
    <2>9. NothingLeftRunning' /\ FirstFailureReported'
        BY <1>4 DEF NothingLeftRunning, FirstFailureReported
    <2> QED
        BY <2>1, <2>2, <2>3, <2>4, <2>5, <2>6, <2>7, <2>8, <2>9 DEF IInv
<1>5. CASE \E e \in KernelErrnos :
              /\ result' = [result EXCEPT ![launch + 1] = Err("TransferListener", e)]
              /\ cause' = "TransferListener"
              /\ UNCHANGED <<pc, supOpen>>
    <2>1. PICK e \in KernelErrnos :
              /\ result' = [result EXCEPT ![launch + 1] = Err("TransferListener", e)]
              /\ cause' = "TransferListener"
              /\ UNCHANGED <<pc, supOpen>>
        BY <1>5
    <2>2. /\ Err("TransferListener", e) \in ResultType
          /\ Err("TransferListener", e).kind = "err" /\ Err("TransferListener", e).errno > 0
          /\ Err("TransferListener", e).step = "TransferListener"
        BY ErrType, ErrnosAssumption DEF Steps
    <2> QED
        BY <1>1, <1>2, <2>1, <2>2, RefusedIInv
<1> QED
    BY <1>4, <1>5 DEF begin

(* fork: the spawner starts with nothing sent, or there is none.            *)
LEMMA ForkIInv ==
    ASSUME IInv, fork
    PROVE  IInv'
<1>1. /\ pc = "fork" /\ launch \in Calls /\ sp = "none" /\ toSup = <<>> /\ toSp = <<>>
      /\ supOpen /\ target[launch] = "none" /\ page = EmptyPage /\ cause = "None"
      /\ link.kind = "none" /\ launch \notin killed
    BY DEF IInv, fork, Types, InStep, Messages, Targets, PageTrue, CauseTrue, LinkTrue,
           ResultsTrue, Linking, Before, Failed, EmptyPage
<1>2. UNCHANGED <<launch, link, page, toSup, toSp, target, seized, execd, killed>>
    BY DEF fork, tgVars
<1>3. CASE /\ pc' = "recv_ready" /\ sp' = "stdin" /\ status' = 0
           /\ UNCHANGED <<supOpen, result, cause>>
    <2>1. Types'
        BY <1>1, <1>2, <1>3 DEF IInv, Types, TypeOK, Linking, Early
    <2>2. InStep' /\ Messages'
        BY <1>1, <1>2, <1>3 DEF InStep, Messages, Linking, Early, Before
    <2>3. Targets'
        BY <1>1, <1>2, <1>3 DEF IInv, Targets
    <2>4. PageTrue'
        BY <1>1, <1>2, <1>3
        DEF PageTrue, EmptyPage, Crossed, Failed, Early, Started, Ending, PreExec
    <2>5. StatusTrue'
        BY <1>1, <1>2, <1>3 DEF StatusTrue, Early, Started, Ending, Closing, Killing
    <2>6. CauseTrue' /\ LinkTrue'
        BY <1>1, <1>2, <1>3 DEF CauseTrue, LinkTrue, Failed, AttachFailed, EmptyPage, Before
    <2>7. ResultsTrue'
        BY <1>1, <1>2, <1>3 DEF IInv, ResultsTrue, Killing
    <2>8. OkGuarantee' /\ NothingLeftRunning' /\ KillsOwnTarget' /\ FirstFailureReported'
        BY <1>1, <1>2, <1>3, BusyResults
    <2> QED
        BY <2>1, <2>2, <2>3, <2>4, <2>5, <2>6, <2>7, <2>8 DEF IInv
<1>4. CASE /\ \E e \in KernelErrnos : Return(Err("CloneTarget", e))
           /\ Blame("CloneTarget") /\ UNCHANGED spVars
    <2>1. PICK e \in KernelErrnos : Return(Err("CloneTarget", e))
        BY <1>4
    <2>2. /\ Err("CloneTarget", e) \in ResultType
          /\ Err("CloneTarget", e).kind = "err" /\ Err("CloneTarget", e).errno > 0
          /\ Err("CloneTarget", e).step = "CloneTarget"
        BY ErrType, ErrnosAssumption DEF Steps
    <2>3. cause' = "CloneTarget" /\ cause' \in Steps
        BY <1>1, <1>4 DEF Blame, Steps
    <2>4. target \in [Calls -> Alive \cup {"none", "zombie", "reaped"}]
        BY DEF IInv, Types, TypeOK
    <2> QED
        BY <1>1, <1>2, <1>4, <2>1, <2>2, <2>3, <2>4, ReturnIInv DEF spVars, PreExec
<1> QED
    BY <1>3, <1>4 DEF fork

(* The link fails: the supervisor goes on to wait for the spawner.          *)
LEMMA LinkFailsIInv ==
    ASSUME IInv, pc \in Before \ {"fork"},
           NEW step \in {"TransferListener", "AttachTracer"}, NEW e \in Int,
           LinkFails(step, e),
           UNCHANGED <<page, sp, status, toSp, target, seized, execd, killed>>,
           target[launch] \notin PreExec,
           sp \in {"recv_attached", "spawned", "zombie"} \cup Ending,
           sp = "recv_attached" => toSp = <<>>,
           step = "AttachTracer" => pc = "seize"
    PROVE  IInv'
<1>1. /\ link' = Err(step, e) /\ supOpen' = FALSE /\ pc' = "wait"
      /\ cause' = (IF cause = "None" THEN step ELSE cause) /\ UNCHANGED <<launch, result>>
    BY DEF LinkFails, Blame
<1>2. /\ link'.kind = "err" /\ link'.step = step /\ link' \in LinkType
    BY <1>1, ErrType DEF Steps
<1>3. /\ pc # "idle" /\ launch \in Calls /\ pc \in Linking /\ link.kind = "none"
      /\ ~Failed => cause = "None"
      /\ Failed => page.error_step = cause /\ page.error_step # "None"
    BY DEF IInv, Types, CauseTrue, LinkTrue, AttachFailed, Before, Linking
<1>4. Types'
    BY <1>1, <1>2, <1>3 DEF IInv, Types, TypeOK, Linking, Steps
<1>5. InStep'
    BY <1>1, <1>3 DEF IInv, InStep, Linking, Before, Early, Ending
<1>6. Messages'
    BY <1>1 DEF Messages
<1>7. Targets'
    BY <1>1, <1>3 DEF IInv, Targets, Before, Linking, Early
<1>8. PageTrue'
    BY <1>1, <1>2, <1>3
    DEF IInv, PageTrue, Crossed, Failed, Early, Started, Ending, Before
<1>9. StatusTrue'
    BY <1>1, <1>3 DEF IInv, StatusTrue, Failed, Closing, Killing
<1>10. AttachFailed' => cause' = "AttachTracer"
    <2>1. step = "AttachTracer" => ~Failed
        BY <1>3 DEF IInv, PageTrue, Failed
    <2> QED
        BY <1>1, <1>2, <1>3, <2>1 DEF AttachFailed
<1>11. CauseTrue'
    BY <1>1, <1>2, <1>3, <1>10 DEF IInv, CauseTrue, Failed, Before
<1>12. LinkTrue'
    BY <1>1, <1>2 DEF LinkTrue, Before
<1>13. ResultsTrue'
    BY <1>1, <1>3 DEF IInv, ResultsTrue, Killing, Linking
<1>14. OkGuarantee' /\ NothingLeftRunning' /\ KillsOwnTarget' /\ FirstFailureReported'
    BY <1>1, <1>3, BusyResults
<1> QED
    BY <1>4, <1>5, <1>6, <1>7, <1>8, <1>9, <1>11, <1>12, <1>13, <1>14 DEF IInv

(* An end of the stream shows that the spawner and its target are through.  *)
LEMMA EndOfStream ==
    ASSUME IInv, pc \in Linking, SpawnerEndClosed
    PROVE  sp = "zombie" /\ target[launch] \notin PreExec
BY DEF IInv, InStep, Types, SpawnerEndClosed, Linking, Calls

(* recv_ready: a pid that arrives is on the page.                           *)
LEMMA RecvReadyIInv ==
    ASSUME IInv, recv_ready
    PROVE  IInv'
<1>1. /\ pc = "recv_ready" /\ launch \in Calls /\ pc \in Linking
      /\ UNCHANGED <<page, sp, status, toSp, target, seized, execd, killed>>
    BY DEF IInv, recv_ready, Types, Linking, spVars, tgVars
<1>2. CASE /\ toSup # <<>> /\ toSup' = Tail(toSup) /\ pc' = "seize"
           /\ UNCHANGED <<launch, link, supOpen, result, cause>>
    <2>1. /\ toSup = <<"READY">> /\ sp \in {"recv_attached", "zombie"} /\ toSp = <<>>
          /\ supOpen /\ target[launch] \notin PreExec
        BY <1>1, <1>2 DEF IInv, Messages, Targets, InStep, Before
    <2>2. toSup' = <<>>
        BY <1>2, <2>1
    <2>3. page.state = "LISTENER_CREATED" /\ page.target_pid = launch
        BY <1>1, <1>2 DEF IInv, PageTrue, Crossed
    <2>4. Types'
        BY <1>1, <1>2 DEF IInv, Types, TypeOK, Linking
    <2>5. InStep' /\ Messages'
        BY <1>1, <1>2, <2>1, <2>2 DEF IInv, InStep, Messages, Linking, Early
    <2>6. Targets'
        BY <1>1, <1>2, <2>1, <2>2 DEF IInv, Targets, Early
    <2>7. PageTrue'
        BY <1>1, <1>2, <2>1, <2>2, <2>3
        DEF IInv, PageTrue, Crossed, Failed, Early, Started, Ending
    <2>8. StatusTrue'
        BY <1>1, <1>2, <2>1 DEF IInv, StatusTrue, Failed, Early, Started, Ending, Closing, Killing
    <2>9. CauseTrue' /\ LinkTrue'
        BY <1>1, <1>2, <2>3 DEF IInv, CauseTrue, LinkTrue, Failed, AttachFailed, Before
    <2>10. ResultsTrue'
        BY <1>1, <1>2 DEF IInv, ResultsTrue, Killing, Linking
    <2>11. OkGuarantee' /\ NothingLeftRunning' /\ KillsOwnTarget' /\ FirstFailureReported'
        BY <1>1, <1>2, BusyResults
    <2> QED
        BY <2>4, <2>5, <2>6, <2>7, <2>8, <2>9, <2>10, <2>11 DEF IInv
<1>3. CASE /\ toSup = <<>> /\ SpawnerEndClosed
           /\ \E e \in KernelErrnos \cup {EPIPE} : LinkFails("TransferListener", e)
    <2>1. PICK e \in KernelErrnos \cup {EPIPE} : LinkFails("TransferListener", e)
        BY <1>3
    <2>2. e \in Int
        BY ErrnosAssumption DEF EPIPE
    <2>3. sp = "zombie" /\ target[launch] \notin PreExec
        BY <1>1, <1>3, EndOfStream
    <2> QED
        BY <1>1, <2>1, <2>2, <2>3, LinkFailsIInv DEF Before
<1> QED
    BY <1>2, <1>3 DEF recv_ready

(* seize: the target seized is the one of this launch, if it lives.         *)
LEMMA SeizeIInv ==
    ASSUME IInv, seize
    PROVE  IInv'
<1>1. /\ pc = "seize" /\ launch \in Calls /\ sp \in {"recv_attached", "zombie"}
      /\ toSup = <<>> /\ toSp = <<>> /\ page.target_pid = launch
      /\ page.state = "LISTENER_CREATED" /\ supOpen /\ link.kind = "none"
      /\ target[launch] \notin PreExec
      /\ UNCHANGED <<page, sp, status, toSup, toSp, target, execd, killed>>
    BY DEF IInv, seize, Types, InStep, Messages, Targets, PageTrue, LinkTrue, Crossed, Before, spVars
<1>2. CASE /\ target[page.target_pid] = "run" /\ seized' = seized \cup {page.target_pid}
           /\ pc' = "send_attached" /\ UNCHANGED <<launch, link, supOpen, result, cause>>
    <2>1. launch \in execd /\ seized' = seized \cup {launch}
        BY <1>1, <1>2 DEF IInv, Targets
    <2>2. Types'
        BY <1>1, <1>2, <2>1 DEF IInv, Types, TypeOK, Linking
    <2>3. InStep' /\ Messages'
        BY <1>1, <1>2 DEF InStep, Messages, Linking, Early
    <2>4. Targets'
        BY <1>1, <1>2 DEF IInv, Targets, Early
    <2>5. PageTrue'
        BY <1>1, <1>2 DEF IInv, PageTrue, Crossed, Failed, Early, Started, Ending
    <2>6. StatusTrue'
        BY <1>1, <1>2 DEF IInv, StatusTrue, Failed, Early, Started, Ending, Closing, Killing
    <2>7. CauseTrue' /\ LinkTrue'
        BY <1>1, <1>2, <2>1 DEF IInv, CauseTrue, LinkTrue, Failed, AttachFailed, Before
    <2>8. ResultsTrue'
        BY <1>1, <1>2 DEF IInv, ResultsTrue, Killing
    <2>9. OkGuarantee' /\ NothingLeftRunning' /\ KillsOwnTarget' /\ FirstFailureReported'
        BY <1>1, <1>2, BusyResults
    <2> QED
        BY <2>2, <2>3, <2>4, <2>5, <2>6, <2>7, <2>8, <2>9 DEF IInv
<1>3. CASE /\ \E e \in KernelErrnos : LinkFails("AttachTracer", e)
           /\ UNCHANGED seized
    <2>1. PICK e \in KernelErrnos : LinkFails("AttachTracer", e)
        BY <1>3
    <2> QED
        BY <1>1, <1>3, <2>1, ErrnosAssumption, LinkFailsIInv DEF Before
<1> QED
    BY <1>2, <1>3 DEF seize

(* send_attached: only a seized target is reported attached.                *)
LEMMA SendAttachedIInv ==
    ASSUME IInv, send_attached
    PROVE  IInv'
<1>1. /\ pc = "send_attached" /\ launch \in Calls /\ sp \in {"recv_attached", "zombie"}
      /\ toSup = <<>> /\ toSp = <<>> /\ page.target_pid = launch
      /\ page.state = "LISTENER_CREATED" /\ supOpen /\ link.kind = "none"
      /\ target[launch] \notin PreExec /\ launch \in seized
      /\ UNCHANGED <<page, sp, status, toSup, target, seized, execd, killed>>
    BY DEF IInv, send_attached, Types, InStep, Messages, Targets, PageTrue, LinkTrue, Crossed,
           Before, spVars, tgVars
<1>2. CASE /\ pc' = "recv_fd" /\ UNCHANGED <<launch, link, supOpen, result, cause>>
    <2>1. Types'
        BY <1>1, <1>2 DEF IInv, Types, TypeOK, Linking
    <2>2. InStep' /\ Messages'
        BY <1>1, <1>2 DEF InStep, Messages, Linking, Early
    <2>3. Targets'
        BY <1>1, <1>2 DEF IInv, Targets, Early
    <2>4. PageTrue'
        BY <1>1, <1>2 DEF IInv, PageTrue, Crossed, Failed, Early, Started, Ending
    <2>5. StatusTrue'
        BY <1>1, <1>2 DEF IInv, StatusTrue, Failed, Early, Started, Ending, Closing, Killing
    <2>6. CauseTrue' /\ LinkTrue'
        BY <1>1, <1>2 DEF IInv, CauseTrue, LinkTrue, Failed, AttachFailed, Before
    <2>7. ResultsTrue'
        BY <1>1, <1>2 DEF IInv, ResultsTrue, Killing
    <2>8. OkGuarantee' /\ NothingLeftRunning' /\ KillsOwnTarget' /\ FirstFailureReported'
        BY <1>1, <1>2, BusyResults
    <2> QED
        BY <2>1, <2>2, <2>3, <2>4, <2>5, <2>6, <2>7, <2>8 DEF IInv
<1>3. CASE /\ \E e \in KernelErrnos \cup {EPIPE} : LinkFails("TransferListener", e)
           /\ UNCHANGED toSp
    <2>1. PICK e \in KernelErrnos \cup {EPIPE} : LinkFails("TransferListener", e)
        BY <1>3
    <2>2. e \in Int
        BY ErrnosAssumption DEF EPIPE
    <2> QED
        BY <1>1, <1>3, <2>1, <2>2, LinkFailsIInv DEF Before
<1> QED
    BY <1>2, <1>3 DEF send_attached

(* recv_fd: a listener that arrives is the one on the page.                 *)
LEMMA RecvFdIInv ==
    ASSUME IInv, recv_fd
    PROVE  IInv'
<1>1. /\ pc = "recv_fd" /\ launch \in Calls /\ pc \in Linking /\ page.target_pid = launch
      /\ target[launch] \notin PreExec /\ launch \in seized /\ link.kind = "none"
      /\ UNCHANGED <<page, sp, status, toSp, target, seized, execd, killed>>
    BY DEF IInv, recv_fd, Types, Targets, PageTrue, LinkTrue, Crossed, Linking, Before, spVars, tgVars
<1>2. toSup # <<>> =>
         toSup = <<[fd |-> launch]>> /\ sp \in {"spawned", "zombie"} \cup Ending
    BY <1>1 DEF IInv, Messages
<1>3. CASE /\ toSup # <<>> /\ link' = [kind |-> "ok", fd |-> Head(toSup).fd] /\ pc' = "wait"
           /\ UNCHANGED <<launch, supOpen, result, cause>>
    <2>1. link' = [kind |-> "ok", fd |-> launch]
        BY <1>2, <1>3
    <2>2. link'.kind = "ok" /\ link'.fd = launch /\ link' \in LinkType
        BY <1>1, <2>1 DEF LinkType
    <2>3. Types'
        BY <1>1, <1>3, <2>2 DEF IInv, Types, TypeOK, Linking
    <2>4. InStep' /\ Messages'
        BY <1>1, <1>2, <1>3 DEF IInv, InStep, Messages, Linking, Early, Ending, Before
    <2>5. Targets'
        BY <1>1, <1>3 DEF IInv, Targets, Early
    <2>6. PageTrue'
        BY <1>1, <1>2, <1>3 DEF IInv, PageTrue, Crossed, Failed, Early, Started, Ending
    <2>7. StatusTrue'
        BY <1>1, <1>3 DEF IInv, StatusTrue, Failed, Closing, Killing
    <2>8. CauseTrue'
        BY <1>1, <1>3, <2>2 DEF IInv, CauseTrue, Failed, AttachFailed, Before
    <2>9. LinkTrue'
        BY <1>1, <1>2, <1>3, <2>2 DEF LinkTrue, Before, Ending
    <2>10. ResultsTrue'
        BY <1>1, <1>3 DEF IInv, ResultsTrue, Killing
    <2>11. OkGuarantee' /\ NothingLeftRunning' /\ KillsOwnTarget' /\ FirstFailureReported'
        BY <1>1, <1>3, BusyResults
    <2> QED
        BY <2>3, <2>4, <2>5, <2>6, <2>7, <2>8, <2>9, <2>10, <2>11 DEF IInv
<1>4. CASE toSup # <<>> /\ LinkFails("TransferListener", EIO)
    <2>1. EIO \in Int
        BY DEF EIO
    <2>2. sp \in {"spawned", "zombie"} \cup Ending /\ sp # "recv_attached"
        BY <1>2, <1>4 DEF Ending
    <2> QED
        BY <1>1, <1>4, <2>1, <2>2, LinkFailsIInv DEF Before
<1>5. CASE /\ toSup = <<>> /\ SpawnerEndClosed
           /\ \E e \in KernelErrnos \cup {EIO} : LinkFails("TransferListener", e)
    <2>1. PICK e \in KernelErrnos \cup {EIO} : LinkFails("TransferListener", e)
        BY <1>5
    <2>2. e \in Int
        BY ErrnosAssumption DEF EIO
    <2>3. sp = "zombie"
        BY <1>1, <1>5, EndOfStream
    <2> QED
        BY <1>1, <2>1, <2>2, <2>3, LinkFailsIInv DEF Before
<1> QED
    BY <1>3, <1>4, <1>5 DEF recv_fd

(* wait_spawner: the spawner is gone, and with it the other end.            *)
LEMMA WaitSpawnerIInv ==
    ASSUME IInv, wait_spawner
    PROVE  IInv'
<1>1. /\ pc = "wait" /\ sp = "zombie" /\ sp' = "none" /\ pc' = "evaluate" /\ launch \in Calls
      /\ UNCHANGED <<launch, link, supOpen, result, page, status, toSup, toSp, target, seized,
                     execd, cause, killed>>
    BY DEF IInv, Types, wait_spawner, tgVars, history
<1>2. Types'
    BY <1>1 DEF IInv, Types, TypeOK, Closing
<1>3. InStep' /\ Messages'
    BY <1>1 DEF InStep, Messages, Linking, Early, Before
<1>4. Targets'
    BY <1>1 DEF IInv, Targets, Early
<1>5. PageTrue'
    BY <1>1 DEF IInv, PageTrue, Crossed, Failed, Early, Started, Ending, Closing
<1>6. StatusTrue'
    BY <1>1 DEF IInv, StatusTrue, Failed, Early, Started, Ending
<1>7. CauseTrue' /\ LinkTrue'
    BY <1>1 DEF IInv, CauseTrue, LinkTrue, Failed, AttachFailed, Before
<1>8. ResultsTrue'
    BY <1>1 DEF IInv, ResultsTrue, Killing
<1>9. OkGuarantee' /\ NothingLeftRunning' /\ KillsOwnTarget' /\ FirstFailureReported'
    BY <1>1, BusyResults
<1> QED
    BY <1>2, <1>3, <1>4, <1>5, <1>6, <1>7, <1>8, <1>9 DEF IInv

(* What the closure computes once the spawner is gone: a success is that of *)
(* this launch, and an error is the first failure.                          *)
LEMMA OutcomeTrue ==
    ASSUME IInv, pc \in Closing
    PROVE  /\ Outcome \in ResultType /\ Outcome.kind # "none"
           /\ Outcome.kind = "ok" =>
                 /\ Outcome.pid = launch /\ Outcome.listener = launch
                 /\ launch \in execd \cap seized /\ status = 0
           /\ Outcome.kind = "err" =>
                 /\ Outcome.errno > 0
                 /\ Outcome.step = cause \/ (Outcome.step = "CloneTarget" /\ status = -9)
<1>1. /\ launch \in Calls /\ page \in PageType /\ link \in LinkType /\ link.kind # "none"
      /\ seized \subseteq execd
    BY DEF IInv, Types, TypeOK, LinkTrue, Closing, Killing, Before
<1>2. \/ status = -9
      \/ page.done /\ Failed /\ status = 127
      \/ page.done /\ page.state = "SPAWNED" /\ status = 0
    BY DEF IInv, StatusTrue, Closing, Killing
<1>3. /\ page.error_step \in Steps /\ page.error_code \in Nat
      /\ link.kind = "err" => /\ link \in ResultType /\ link.errno > 0
                              /\ link.step \in {"TransferListener", "AttachTracer"}
    BY <1>1 DEF PageType, LinkType, ResultType, Steps
<1>4. /\ AttachFailed => link.step = cause
      /\ Failed /\ ~AttachFailed => page.error_step = cause
      /\ link.kind = "err" /\ ~Failed /\ status = 0 => link.step = cause
    BY DEF IInv, CauseTrue, AttachFailed, Closing, Killing
<1>5. \A e \in {ECHILD, EIO} : /\ Err("CloneTarget", e) \in ResultType
                               /\ Err("CloneTarget", e).kind = "err"
                               /\ Err("CloneTarget", e).errno > 0
                               /\ Err("CloneTarget", e).step = "CloneTarget"
    BY ErrType DEF Steps, ECHILD, EIO
<1>6. /\ Err(page.error_step, page.error_code) \in ResultType
      /\ Err(page.error_step, page.error_code).kind = "err"
      /\ Err(page.error_step, page.error_code).errno > 0
      /\ Err(page.error_step, page.error_code).step = page.error_step
    BY <1>3, ErrType
<1>7. CASE ~page.done
    BY <1>2, <1>5, <1>7 DEF Outcome
<1>8. CASE page.done /\ AttachFailed
    BY <1>3, <1>4, <1>8 DEF Outcome, AttachFailed
<1>9. CASE page.done /\ ~AttachFailed /\ Failed
    BY <1>4, <1>6, <1>9 DEF Outcome, AttachFailed, Failed
<1>10. CASE page.done /\ ~AttachFailed /\ ~Failed /\ status # 0
    BY <1>2, <1>5, <1>10 DEF Outcome, AttachFailed, Failed
<1>11. CASE page.done /\ ~AttachFailed /\ ~Failed /\ status = 0 /\ link.kind = "err"
    BY <1>3, <1>4, <1>11 DEF Outcome, AttachFailed, Failed
<1>12. CASE page.done /\ ~AttachFailed /\ ~Failed /\ status = 0 /\ link.kind # "err"
    <2>1. link.kind = "ok"
        BY <1>1, <1>12 DEF LinkType
    <2>2. link.fd = launch /\ launch \in seized /\ page.target_pid = launch
        BY <2>1 DEF IInv, LinkTrue, PageTrue, Crossed, Closing, Killing
    <2>3. Outcome = Ok(launch, launch)
        BY <1>1, <1>2, <1>12, <2>1, <2>2 DEF Outcome, AttachFailed, Failed, Calls
    <2> QED
        BY <1>1, <1>12, <2>2, <2>3 DEF Ok, ResultType
<1> QED
    BY <1>7, <1>8, <1>9, <1>10, <1>11, <1>12

(* The outcome depends on nothing else.                                     *)
LEMMA OutcomeSame ==
    ASSUME UNCHANGED <<page, link, status>>
    PROVE  Outcome' = Outcome
BY DEF Outcome

(* The call returns its outcome: nothing of the target may go on.           *)
LEMMA ReturnOutcomeIInv ==
    ASSUME IInv, pc \in Closing, Return(Outcome),
           UNCHANGED <<launch, link, page, sp, status, toSup, toSp, seized, execd, cause, killed>>,
           target' \in [Calls -> Alive \cup {"none", "zombie", "reaped"}],
           \A l \in Calls : target'[l] = target[l] \/ (target[l] = "zombie" /\ target'[l] = "reaped"),
           Outcome.kind = "err" /\ page.done => target'[launch] \notin PreExec \cup {"run"},
           pc \in Killing => Outcome.kind = "err"
    PROVE  IInv'
<1>1. pc # "idle" /\ sp = "none" /\ cause' \in Steps
    BY DEF IInv, InStep, Types, Closing, Killing, Linking
<1>2. launch \in killed => status # 0 \/ pc \in Killing
    BY <1>1 DEF IInv, ResultsTrue
<1> QED
    BY <1>1, <1>2, OutcomeTrue, ReturnIInv

(* evaluate: the outcome follows from the page and the link.                *)
LEMMA EvaluateIInv ==
    ASSUME IInv, evaluate
    PROVE  IInv'
<1>1. /\ pc = "evaluate" /\ launch \in Calls /\ pc \in Closing /\ pc \notin Killing
      /\ UNCHANGED <<launch, link, page, sp, status, toSup, toSp, target, seized, execd,
                     cause, killed>>
    BY DEF IInv, evaluate, Types, Closing, Killing, spVars, tgVars, history
<1>2. sp = "none"
    BY <1>1 DEF IInv, InStep, Linking
<1>3. target[launch] \notin PreExec /\ page.target_pid \in {-1, launch}
    BY <1>1 DEF IInv, Targets, PageTrue
<1>4. CASE Outcome.kind = "err" /\ page.done /\ page.target_pid > 0
    <2>1. pc' = "terminate" /\ UNCHANGED <<supOpen, result>> /\ page.target_pid = launch
        BY <1>1, <1>3, <1>4 DEF evaluate
    <2>2. Types'
        BY <1>1, <2>1 DEF IInv, Types, TypeOK, Closing, Killing
    <2>3. InStep' /\ Messages'
        BY <1>1, <1>2, <2>1 DEF InStep, Messages, Linking, Early, Before
    <2>4. Targets'
        BY <1>1, <1>2, <2>1 DEF IInv, Targets, Early
    <2>5. PageTrue'
        BY <1>1, <2>1 DEF IInv, PageTrue, Crossed, Failed, Closing, Killing
    <2>6. StatusTrue'
        BY <1>1, <2>1 DEF IInv, StatusTrue, Failed
    <2>7. CauseTrue' /\ LinkTrue'
        BY <1>1, <2>1 DEF IInv, CauseTrue, LinkTrue, Failed, AttachFailed, Before
    <2>8. Outcome' = Outcome
        BY <1>1, OutcomeSame
    <2>9. ResultsTrue'
        BY <1>1, <1>2, <1>4, <2>1, <2>8 DEF IInv, ResultsTrue, Killing
    <2>10. OkGuarantee' /\ NothingLeftRunning' /\ KillsOwnTarget' /\ FirstFailureReported'
        BY <1>1, <2>1, BusyResults
    <2> QED
        BY <2>2, <2>3, <2>4, <2>5, <2>6, <2>7, <2>9, <2>10 DEF IInv
<1>5. CASE ~(Outcome.kind = "err" /\ page.done /\ page.target_pid > 0)
    <2>1. Return(Outcome)
        BY <1>5 DEF evaluate
    <2>2. Outcome.kind = "err" /\ page.done => target[launch] = "none"
        BY <1>1, <1>3, <1>5 DEF IInv, PageTrue, Calls
    <2>3. target \in [Calls -> Alive \cup {"none", "zombie", "reaped"}]
        BY DEF IInv, Types, TypeOK
    <2> QED
        BY <1>1, <1>3, <2>1, <2>2, <2>3, ReturnOutcomeIInv
<1> QED
    BY <1>4, <1>5

(* What the killing of the target knows.                                    *)
LEMMA KillingFacts ==
    ASSUME IInv, pc \in Killing
    PROVE  /\ launch \in Calls /\ page.target_pid = launch /\ page.done
           /\ Outcome.kind = "err" /\ sp = "none" /\ pc # "idle" /\ pc \in Closing
           /\ target[launch] \notin PreExec
           /\ target \in [Calls -> Alive \cup {"none", "zombie", "reaped"}]
BY DEF IInv, Types, TypeOK, InStep, Targets, ResultsTrue, Killing, Closing, Linking

(* terminate_poll: what the poll reports is this launch's target.           *)
LEMMA TerminatePollIInv ==
    ASSUME IInv, terminate_poll
    PROVE  IInv'
<1>1. /\ pc = "terminate" /\ pc \in Killing
      /\ UNCHANGED <<launch, link, page, sp, status, toSup, toSp, seized, execd, cause, killed>>
    BY DEF terminate_poll, Killing, spVars, history
<1>2. /\ launch \in Calls /\ page.target_pid = launch /\ page.done
      /\ Outcome.kind = "err" /\ sp = "none" /\ pc # "idle" /\ pc \in Closing
      /\ target[launch] \notin PreExec
      /\ target \in [Calls -> Alive \cup {"none", "zombie", "reaped"}]
    BY <1>1, KillingFacts
<1>3. CASE target[page.target_pid] \in {"zombie", "stop"}
    <2>1. /\ Return(Outcome)
          /\ target' = [target EXCEPT ![launch] = IF @ = "zombie" THEN "reaped" ELSE @]
        BY <1>2, <1>3 DEF terminate_poll
    <2>2. target' \in [Calls -> Alive \cup {"none", "zombie", "reaped"}]
        BY <1>2, <2>1
    <2>3. \A l \in Calls : target'[l] = target[l] \/ (target[l] = "zombie" /\ target'[l] = "reaped")
        BY <1>2, <2>1
    <2>4. target'[launch] \notin PreExec \cup {"run"}
        BY <1>2, <1>3, <2>1 DEF PreExec
    <2> QED
        BY <1>1, <1>2, <2>1, <2>2, <2>3, <2>4, ReturnOutcomeIInv
<1>4. CASE target[page.target_pid] \notin {"zombie", "stop"}
    <2>1. pc' = "terminate_kill" /\ UNCHANGED <<supOpen, result, target>>
        BY <1>4 DEF terminate_poll
    <2>2. Types'
        BY <1>1, <1>2, <2>1 DEF IInv, Types, TypeOK, Closing, Killing
    <2>3. InStep' /\ Messages'
        BY <1>1, <1>2, <2>1 DEF InStep, Messages, Linking, Early, Before
    <2>4. Targets'
        BY <1>1, <1>2, <2>1 DEF IInv, Targets, Early
    <2>5. PageTrue'
        BY <1>1, <1>2, <2>1 DEF IInv, PageTrue, Crossed, Failed, Closing, Killing
    <2>6. StatusTrue'
        BY <1>1, <1>2, <2>1 DEF IInv, StatusTrue, Failed
    <2>7. CauseTrue' /\ LinkTrue'
        BY <1>1, <1>2, <2>1 DEF IInv, CauseTrue, LinkTrue, Failed, AttachFailed, Before
    <2>8. Outcome' = Outcome
        BY <1>1, OutcomeSame
    <2>9. ResultsTrue'
        BY <1>1, <1>2, <2>1, <2>8 DEF IInv, ResultsTrue, Killing
    <2>10. OkGuarantee' /\ NothingLeftRunning' /\ KillsOwnTarget' /\ FirstFailureReported'
        BY <1>1, <1>2, <2>1, BusyResults
    <2> QED
        BY <2>2, <2>3, <2>4, <2>5, <2>6, <2>7, <2>9, <2>10 DEF IInv
<1> QED
    BY <1>3, <1>4

(* terminate_kill: the process killed is this launch's target.              *)
LEMMA TerminateKillIInv ==
    ASSUME IInv, terminate_kill
    PROVE  IInv'
<1>1. /\ pc = "terminate_kill" /\ pc' = "terminate_reap" /\ pc \in Killing /\ SigKill(page.target_pid)
      /\ UNCHANGED <<launch, link, supOpen, result, page, sp, status, toSup, toSp, seized,
                     execd, cause>>
    BY DEF terminate_kill, Killing, spVars
<1>2. /\ launch \in Calls /\ page.target_pid = launch /\ page.done
      /\ Outcome.kind = "err" /\ sp = "none" /\ pc # "idle" /\ pc \in Closing
      /\ target[launch] \notin PreExec
      /\ target \in [Calls -> Alive \cup {"none", "zombie", "reaped"}]
    BY <1>1, KillingFacts
<1>3. /\ target' = [target EXCEPT ![launch] = IF @ \in Alive THEN "zombie" ELSE @]
      /\ killed' = killed \cup {launch}
    BY <1>1, <1>2 DEF SigKill
<1>4. Types'
    BY <1>1, <1>2, <1>3 DEF IInv, Types, TypeOK, Closing, Killing
<1>5. InStep' /\ Messages'
    BY <1>1, <1>2 DEF InStep, Messages, Linking, Early, Before
<1>6. Targets'
    BY <1>1, <1>2, <1>3 DEF IInv, Targets, Types, Calls, PreExec, Alive, Early
<1>7. PageTrue'
    BY <1>1, <1>2, <1>3 DEF IInv, PageTrue, Crossed, Failed, PreExec, Alive, Closing, Killing
<1>8. StatusTrue'
    BY <1>1, <1>2 DEF IInv, StatusTrue, Failed
<1>9. CauseTrue' /\ LinkTrue'
    BY <1>1, <1>2 DEF IInv, CauseTrue, LinkTrue, Failed, AttachFailed, Before
<1>10. Outcome' = Outcome
    BY <1>1, OutcomeSame
<1>11. ResultsTrue'
    BY <1>1, <1>2, <1>3, <1>10 DEF IInv, ResultsTrue, Killing
<1>12. OkGuarantee' /\ NothingLeftRunning' /\ KillsOwnTarget' /\ FirstFailureReported'
    BY <1>1, <1>2, <1>3, BusyResults
<1> QED
    BY <1>4, <1>5, <1>6, <1>7, <1>8, <1>9, <1>11, <1>12 DEF IInv

(* terminate_reap: the launch ends with its target gone.                    *)
LEMMA TerminateReapIInv ==
    ASSUME IInv, terminate_reap
    PROVE  IInv'
<1>1. /\ pc = "terminate_reap" /\ pc \in Killing /\ Return(Outcome)
      /\ target[page.target_pid] = "zombie"
      /\ target' = [target EXCEPT ![page.target_pid] = "reaped"]
      /\ UNCHANGED <<launch, link, page, sp, status, toSup, toSp, seized, execd, cause, killed>>
    BY DEF terminate_reap, Killing, spVars, history
<1>2. /\ launch \in Calls /\ page.target_pid = launch /\ page.done
      /\ Outcome.kind = "err" /\ pc \in Closing
      /\ target \in [Calls -> Alive \cup {"none", "zombie", "reaped"}]
    BY <1>1, KillingFacts
<1>3. /\ target' \in [Calls -> Alive \cup {"none", "zombie", "reaped"}]
      /\ target'[launch] \notin PreExec \cup {"run"}
    BY <1>1, <1>2 DEF PreExec
<1>4. \A l \in Calls : target'[l] = target[l] \/ (target[l] = "zombie" /\ target'[l] = "reaped")
    BY <1>1, <1>2
<1> QED
    BY <1>1, <1>2, <1>3, <1>4, ReturnOutcomeIInv
----------------------------------------------------------------------------
(* The spawner's steps *)

(* As long as the spawner lives, its call is under way and its target, if   *)
(* there is one, has not been killed by it.                                 *)
LEMMA SpawnerFacts ==
    ASSUME IInv, sp \notin {"none", "zombie"}
    PROVE  /\ pc \in Linking /\ pc # "idle" /\ launch \in Calls /\ pc \notin Closing
           /\ result[launch].kind = "none"
           /\ target \in [Calls -> Alive \cup {"none", "zombie", "reaped"}]
           /\ page \in PageType
BY DEF IInv, Types, TypeOK, InStep, ResultsTrue, Linking, Closing, Killing

(* A failure of the spawner, with the death of its target if it has one.    *)
LEMMA SpawnerFailsIInv ==
    ASSUME IInv, ~Failed,
           sp \in Early \cup {"check", "send_ready", "recv_attached", "send_fd"},
           NEW step \in Steps \ {"None"}, NEW e \in Int, SpawnerFails(step, e),
           UNCHANGED <<pc, launch, link, supOpen, result, toSup, toSp, seized, execd>>,
           \/ sp \in Early /\ UNCHANGED <<target, killed>>
           \/ sp \notin Early /\ SigKill(page.target_pid),
           pc = "wait" => step = "TransferListener",
           sp = "recv_attached" => pc = "wait"
    PROVE  IInv'
<1>1. /\ sp' = "publish" /\ status' = 127
      /\ cause' = (IF cause = "None" THEN step ELSE cause)
      /\ page' = [page EXCEPT !.error_step = step, !.error_code = normalize(e), !.state = "FAILED"]
    BY DEF SpawnerFails, record_failure, Blame
<1>2. /\ pc \in Linking /\ pc # "idle" /\ launch \in Calls /\ pc \notin Closing
      /\ target \in [Calls -> Alive \cup {"none", "zombie", "reaped"}]
      /\ page \in PageType
    BY SpawnerFacts DEF Early
<1>3. /\ page' \in PageType /\ page'.state = "FAILED" /\ page'.error_step = step
      /\ page'.error_code > 0 /\ page'.target_pid = page.target_pid /\ page'.done = page.done
    <2>1. normalize(e) \in Nat /\ normalize(e) > 0 /\ step \in Steps
        BY NormalizePositive
    <2> QED
        BY <1>1, <1>2, <2>1 DEF PageType
<1>4. /\ sp \notin Early => page.target_pid = launch
      /\ sp \in Early => target[launch] = "none"
      /\ ~page.done /\ status = 0
    BY <1>2 DEF IInv, PageTrue, Targets, StatusTrue, Crossed, Early, Started
<1>5. \/ sp \in Early /\ UNCHANGED <<target, killed>>
      \/ /\ sp \notin Early
         /\ target' = [target EXCEPT ![launch] = IF @ \in Alive THEN "zombie" ELSE @]
         /\ killed' = killed \cup {launch}
    BY <1>4 DEF SigKill
<1>6. target[launch] \notin PreExec
    BY <1>2 DEF IInv, Targets, Early
<1>7. target'[launch] \notin PreExec
    BY <1>2, <1>5, <1>6 DEF Alive, PreExec
<1>8. Types'
    BY <1>1, <1>2, <1>3, <1>5 DEF IInv, Types, TypeOK, Ending
<1>9. InStep'
    BY <1>1, <1>2 DEF IInv, InStep, Early
<1>10. Messages'
    BY <1>1 DEF IInv, Messages, Early, Ending
<1>11. Targets'
    <2>1. \A l \in Calls : target'[l] = target[l] \/ (target[l] \in Alive /\ target'[l] = "zombie")
        BY <1>2, <1>5
    <2>2. \A l \in Calls : l > launch => l # launch
        BY <1>2 DEF Calls
    <2>3. \A l \in Calls : l > launch => target'[l] = "none" /\ l \notin killed'
        BY <1>5, <2>1, <2>2 DEF IInv, Targets, Alive, PreExec
    <2>4. \A l \in Calls : target'[l] \notin PreExec
        BY <1>6, <2>1 DEF IInv, Targets, PreExec
    <2>5. \A l \in Calls : target'[l] \in {"run", "stop"} => l \in execd
        BY <2>1 DEF IInv, Targets
    <2> QED
        BY <1>1, <1>2, <2>3, <2>4, <2>5 DEF Targets, Linking, Early
<1>12. PageTrue'
    <2>1. pc \notin {"seize", "send_attached"} /\ (pc = "recv_ready" => toSup = <<>>)
        BY DEF IInv, InStep, Messages, Early
    <2>2. page.target_pid \in {-1, launch} /\ (Crossed => page.target_pid = launch)
        BY <1>2 DEF IInv, PageTrue
    <2>3. (Crossed => page.target_pid = launch)'
        BY <1>1, <1>3, <2>1, <2>2 DEF Crossed, Started
    <2>4. page.target_pid = -1 => target'[launch] = "none"
        <3>1. launch # -1
            BY <1>2, LaunchesAssumption DEF Calls
        <3> QED
            BY <1>4, <1>5, <3>1
    <2> QED
        BY <1>1, <1>2, <1>3, <1>4, <1>7, <2>1, <2>2, <2>3, <2>4
        DEF PageTrue, Failed, Early, Started, Ending, Linking
<1>13. StatusTrue'
    BY <1>1, <1>2, <1>3 DEF StatusTrue, Failed, Early, Started, Ending
<1>14. cause = "None" \/ cause = step \/ AttachFailed
    <2>1. CASE pc \in Before
        BY <1>2, <2>1 DEF IInv, CauseTrue
    <2>2. CASE pc = "wait"
        <3>1. (link.kind = "err" /\ link.step \in {"TransferListener", "AttachTracer"}) \/ link.kind = "ok"
            BY <2>2 DEF IInv, LinkTrue, Types, LinkType, Before
        <3>2. sp = "recv_attached"
            BY <2>2 DEF IInv, InStep, Early
        <3> QED
            BY <1>4, <2>2, <3>1, <3>2 DEF IInv, CauseTrue, LinkTrue, AttachFailed
    <2> QED
        BY <1>2, <2>1, <2>2 DEF Linking, Before
<1>15. CauseTrue'
    BY <1>1, <1>3, <1>14 DEF IInv, CauseTrue, Failed, AttachFailed
<1>16. LinkTrue'
    BY <1>1, <1>2 DEF IInv, LinkTrue
<1>17. ResultsTrue'
    BY <1>1, <1>2 DEF IInv, ResultsTrue, Killing, Linking, Ending
<1>18. OkGuarantee' /\ NothingLeftRunning' /\ KillsOwnTarget' /\ FirstFailureReported'
    BY <1>2, <1>5, BusyResults
<1> QED
    BY <1>8, <1>9, <1>10, <1>11, <1>12, <1>13, <1>15, <1>16, <1>17, <1>18 DEF IInv

(* One stage of the setup after the other, before there is a target.        *)
LEMMA EarlyIInv ==
    ASSUME IInv, sp \in Early, sp' \in Early,
           UNCHANGED <<supVars, page, status, toSup, toSp, tgVars, cause, killed>>
    PROVE  IInv'
<1>1. UNCHANGED <<pc, launch, link, supOpen, result, target, seized, execd>>
    BY DEF supVars, tgVars
<1>2. pc # "idle"
    BY SpawnerFacts DEF Early
<1>3. Types'
    BY <1>1 DEF IInv, Types, TypeOK
<1>4. InStep' /\ Messages'
    BY <1>1 DEF IInv, InStep, Messages, Early, Ending
<1>5. Targets'
    BY <1>1 DEF IInv, Targets, Early
<1>6. PageTrue'
    BY <1>1 DEF IInv, PageTrue, Crossed, Failed, Early, Started, Ending
<1>7. StatusTrue'
    BY <1>1 DEF IInv, StatusTrue, Failed, Early, Ending
<1>8. CauseTrue' /\ LinkTrue'
    BY <1>1 DEF IInv, CauseTrue, LinkTrue, Failed, AttachFailed, Early
<1>9. ResultsTrue'
    BY <1>1, OutcomeSame DEF IInv, ResultsTrue, Early, Ending
<1>10. OkGuarantee' /\ NothingLeftRunning' /\ KillsOwnTarget' /\ FirstFailureReported'
    BY <1>1, <1>2, BusyResults
<1> QED
    BY <1>3, <1>4, <1>5, <1>6, <1>7, <1>8, <1>9, <1>10 DEF IInv

(* Nothing has failed while the spawner is before its clone.                *)
LEMMA EarlyFacts ==
    ASSUME IInv, sp \in Early
    PROVE  ~Failed /\ pc = "recv_ready"
BY DEF IInv, InStep, PageTrue, Failed, EmptyPage

(* install_standard_stream: no target yet; a failure is recorded.           *)
LEMMA StreamsIInv ==
    ASSUME IInv, NEW here \in Early, NEW then \in Early, NEW step \in Steps \ {"None"},
           install_standard_stream(here, step, then)
    PROVE  IInv'
<1>1. sp \in Early /\ UNCHANGED <<supVars, toSup, toSp, tgVars, killed>>
    BY DEF install_standard_stream
<1>2. CASE sp' = then /\ UNCHANGED <<page, status, cause>>
    BY <1>1, <1>2, EarlyIInv
<1>3. CASE \E e \in FactoryErrors \cup KernelErrnos : SpawnerFails(step, e)
    <2>1. PICK e \in FactoryErrors \cup KernelErrnos : SpawnerFails(step, e)
        BY <1>3
    <2>2. e \in Int
        BY ErrnosAssumption
    <2> QED
        BY <1>1, <2>1, <2>2, EarlyFacts, SpawnerFailsIInv DEF supVars, tgVars, Early
<1> QED
    BY <1>2, <1>3 DEF install_standard_stream

(* close_unwanted_fds: no target yet; a failure is recorded.                *)
LEMMA CloseUnwantedFdsIInv ==
    ASSUME IInv, close_unwanted_fds
    PROVE  IInv'
<1>1. sp = "close" /\ sp \in Early /\ UNCHANGED <<supVars, toSup, toSp, tgVars, killed>>
    BY DEF close_unwanted_fds, Early
<1>2. CASE sp' = "clone" /\ UNCHANGED <<page, status, cause>>
    BY <1>1, <1>2, EarlyIInv DEF Early
<1>3. CASE \E e \in KernelErrnos : SpawnerFails("CloseDescriptors", e)
    <2>1. PICK e \in KernelErrnos : SpawnerFails("CloseDescriptors", e)
        BY <1>3
    <2>2. e \in Int
        BY ErrnosAssumption
    <2> QED
        BY <1>1, <2>1, <2>2, EarlyFacts, SpawnerFailsIInv DEF supVars, tgVars, Steps
<1> QED
    BY <1>2, <1>3 DEF close_unwanted_fds

(* clone_target: the target of this launch comes into being.                *)
LEMMA CloneTargetIInv ==
    ASSUME IInv, clone_target
    PROVE  IInv'
<1>1. /\ sp = "clone" /\ sp \in Early
      /\ UNCHANGED <<pc, launch, link, supOpen, result, toSup, toSp, seized, execd, killed>>
    BY DEF clone_target, Early, supVars
<1>2. CASE /\ sp' = "vfork" /\ target' = [target EXCEPT ![launch] = "prctl"]
           /\ UNCHANGED <<page, status, cause>>
    <2>1. /\ pc = "recv_ready" /\ launch \in Calls /\ page = EmptyPage /\ target[launch] = "none"
          /\ toSup = <<>> /\ status = 0
          /\ target \in [Calls -> Alive \cup {"none", "zombie", "reaped"}]
        BY <1>1, SpawnerFacts, EarlyFacts DEF IInv, PageTrue, Messages, Targets, StatusTrue, Early
    <2>2. Types'
        BY <1>1, <1>2, <2>1 DEF IInv, Types, TypeOK, Alive, PreExec
    <2>3. InStep' /\ Messages'
        BY <1>1, <1>2, <2>1 DEF IInv, InStep, Messages, Linking, Early
    <2>4. Targets'
        BY <1>1, <1>2, <2>1 DEF IInv, Targets, Types, TypeOK, Calls, PreExec, Early
    <2>5. PageTrue'
        BY <1>1, <1>2, <2>1
        DEF IInv, PageTrue, LinkTrue, Crossed, Failed, EmptyPage, PreExec, Early, Started, Ending, Before
    <2>6. StatusTrue'
        BY <1>1, <1>2, <2>1 DEF StatusTrue, Ending, Closing, Killing
    <2>7. CauseTrue' /\ LinkTrue'
        BY <1>1, <1>2 DEF IInv, CauseTrue, LinkTrue, Failed, AttachFailed
    <2>8. ResultsTrue'
        BY <1>1, <1>2, <2>1 DEF IInv, ResultsTrue, Killing, Ending
    <2>9. OkGuarantee' /\ NothingLeftRunning' /\ KillsOwnTarget' /\ FirstFailureReported'
        BY <1>1, <2>1, BusyResults
    <2> QED
        BY <2>2, <2>3, <2>4, <2>5, <2>6, <2>7, <2>8, <2>9 DEF IInv
<1>3. CASE \E e \in KernelErrnos : SpawnerFails("CloneTarget", e) /\ UNCHANGED target
    <2>1. PICK e \in KernelErrnos : SpawnerFails("CloneTarget", e) /\ UNCHANGED target
        BY <1>3
    <2>2. e \in Int
        BY ErrnosAssumption
    <2> QED
        BY <1>1, <2>1, <2>2, EarlyFacts, SpawnerFailsIInv DEF Steps
<1> QED
    BY <1>2, <1>3 DEF clone_target

(* vfork_returns: the target has left the page, by execve or death.         *)
LEMMA VforkReturnsIInv ==
    ASSUME IInv, vfork_returns
    PROVE  IInv'
<1>1. /\ sp = "vfork" /\ sp' = "check" /\ target[launch] \notin PreExec
      /\ page' = [page EXCEPT !.target_pid = launch]
      /\ UNCHANGED <<pc, launch, link, supOpen, result, status, toSup, toSp, target, seized,
                     execd, cause, killed>>
    BY DEF vfork_returns, supVars, tgVars, history
<1>2. /\ pc = "recv_ready" /\ launch \in Calls /\ page \in PageType /\ toSup = <<>> /\ status = 0
      /\ ~page.done
    BY <1>1, SpawnerFacts DEF IInv, InStep, Messages, StatusTrue, PageTrue
<1>3. /\ page' \in PageType /\ page'.target_pid = launch /\ page'.done = page.done
      /\ page'.state = page.state /\ page'.listener_fd = page.listener_fd
      /\ page'.error_step = page.error_step /\ page'.error_code = page.error_code
    BY <1>1, <1>2 DEF PageType
<1>4. Types'
    BY <1>1, <1>3 DEF IInv, Types, TypeOK
<1>5. InStep' /\ Messages'
    BY <1>1, <1>2 DEF IInv, InStep, Messages, Linking, Early
<1>6. Targets'
    BY <1>1, <1>2 DEF IInv, Targets, Early
<1>7. PageTrue'
    BY <1>1, <1>2, <1>3 DEF IInv, PageTrue, Failed, Early, Started, Ending, PreExec
<1>8. StatusTrue'
    BY <1>1, <1>2 DEF StatusTrue, Ending, Closing, Killing
<1>9. CauseTrue' /\ LinkTrue'
    BY <1>1, <1>3 DEF IInv, CauseTrue, LinkTrue, Failed, AttachFailed
<1>10. ResultsTrue'
    BY <1>1, <1>2 DEF IInv, ResultsTrue, Killing, Ending
<1>11. OkGuarantee' /\ NothingLeftRunning' /\ KillsOwnTarget' /\ FirstFailureReported'
    BY <1>1, <1>2, BusyResults
<1> QED
    BY <1>4, <1>5, <1>6, <1>7, <1>8, <1>9, <1>10, <1>11 DEF IInv

(* A step of the spawner that changes nothing but its place and, perhaps,   *)
(* what it has sent or read.                                                *)
LEMMA SpawnerMovesIInv ==
    ASSUME IInv, sp \in {"check", "send_ready", "recv_attached", "send_fd"},
           sp' \in Started,
           UNCHANGED <<pc, launch, link, supOpen, result, page, status, target, seized, execd,
                       cause, killed>>,
           page.state = "LISTENER_CREATED",
           InStep', Messages',
           pc # "recv_ready" => sp \in {"recv_attached", "send_fd"},
           toSup' # <<>> /\ pc = "recv_ready" => sp' = "recv_attached",
           link.kind = "ok" => sp' # "recv_attached"
    PROVE  IInv'
<1>1. /\ pc \in Linking /\ pc # "idle" /\ launch \in Calls /\ pc \notin Closing
    BY SpawnerFacts
<1>2. page.target_pid = launch
    BY <1>1 DEF IInv, PageTrue, Crossed, Started
<1>3. Types'
    BY DEF IInv, Types, TypeOK
<1>4. Targets'
    BY DEF IInv, Targets, Early, Started
<1>5. PageTrue'
    BY <1>1, <1>2 DEF IInv, PageTrue, Crossed, Failed, Early, Started, Ending
<1>6. StatusTrue'
    BY <1>1 DEF IInv, StatusTrue, Started, Ending
<1>7. CauseTrue' /\ LinkTrue'
    BY DEF IInv, CauseTrue, LinkTrue, Failed, AttachFailed
<1>8. ResultsTrue'
    BY <1>1 DEF IInv, ResultsTrue, Killing, Ending, Started, Linking
<1>9. OkGuarantee' /\ NothingLeftRunning' /\ KillsOwnTarget' /\ FirstFailureReported'
    BY <1>1, BusyResults
<1> QED
    BY <1>3, <1>4, <1>5, <1>6, <1>7, <1>8, <1>9 DEF IInv

(* check_state: the spawner judges the target by the page.                  *)
LEMMA CheckStateIInv ==
    ASSUME IInv, check_state
    PROVE  IInv'
<1>1. /\ sp = "check" /\ pc = "recv_ready" /\ launch \in Calls /\ page \in PageType
      /\ toSup = <<>> /\ toSp = <<>> /\ status = 0 /\ page.target_pid = launch /\ ~page.done
      /\ target[launch] \notin PreExec /\ link.kind = "none" /\ launch \notin killed
      /\ UNCHANGED <<pc, launch, link, supOpen, result, toSup, toSp, seized, execd>>
    BY SpawnerFacts
    DEF check_state, IInv, InStep, Messages, Targets, StatusTrue, PageTrue, LinkTrue,
        ResultsTrue, Before, Ending, supVars
<1>2. CASE /\ Failed /\ status' = 127 /\ sp' = "publish"
           /\ UNCHANGED <<page, target, cause, killed>>
    <2>1. Types'
        BY <1>1, <1>2 DEF IInv, Types, TypeOK, Ending
    <2>2. InStep' /\ Messages'
        BY <1>1, <1>2 DEF IInv, InStep, Messages, Linking, Early
    <2>3. Targets'
        BY <1>1, <1>2 DEF IInv, Targets, Early
    <2>4. PageTrue'
        BY <1>1, <1>2, LaunchesAssumption
        DEF IInv, PageTrue, Failed, Early, Started, Ending, Calls
    <2>5. StatusTrue'
        BY <1>1, <1>2 DEF StatusTrue, Failed, Early, Started, Ending, Closing, Killing
    <2>6. CauseTrue' /\ LinkTrue'
        BY <1>1, <1>2 DEF IInv, CauseTrue, LinkTrue, Failed, AttachFailed
    <2>7. ResultsTrue'
        BY <1>1, <1>2 DEF IInv, ResultsTrue, Killing, Ending
    <2>8. OkGuarantee' /\ NothingLeftRunning' /\ KillsOwnTarget' /\ FirstFailureReported'
        BY <1>1, <1>2, BusyResults
    <2> QED
        BY <2>1, <2>2, <2>3, <2>4, <2>5, <2>6, <2>7, <2>8 DEF IInv
<1>3. CASE page.state = "EMPTY" /\ SpawnerFailsAndKills("Exec", EIO)
    <2>1. EIO \in Int
        BY DEF EIO
    <2>2. SpawnerFails("Exec", EIO) /\ SigKill(page.target_pid)
        BY <1>3 DEF SpawnerFailsAndKills
    <2> QED
        BY <1>1, <1>3, <2>1, <2>2, SpawnerFailsIInv DEF Failed, Steps, Early
<1>4. CASE /\ page.state = "LISTENER_CREATED" /\ sp' = "send_ready"
           /\ UNCHANGED <<page, status, target, cause, killed>>
    <2>1. InStep' /\ Messages'
        BY <1>1, <1>4 DEF IInv, InStep, Messages, Linking, Early
    <2> QED
        BY <1>1, <1>4, <2>1, SpawnerMovesIInv DEF Started
<1> QED
    BY <1>2, <1>3, <1>4 DEF check_state, Failed

(* A lost link leads to a failure of the spawner, and to a kill.            *)
LEMMA TransferFailsIInv ==
    ASSUME IInv, sp \in {"send_ready", "recv_attached", "send_fd"},
           NEW e \in Int, SpawnerFailsAndKills("TransferListener", e),
           UNCHANGED <<supVars, toSup, toSp, seized, execd>>,
           sp = "recv_attached" => pc = "wait"
    PROVE  IInv'
<1>1. ~Failed
    BY SpawnerFacts DEF IInv, PageTrue, Failed, Started
<1>2. SpawnerFails("TransferListener", e) /\ SigKill(page.target_pid)
    BY DEF SpawnerFailsAndKills
<1> QED
    BY <1>1, <1>2, SpawnerFailsIInv DEF supVars, Steps, Early

(* send_ready: the pid sent is the one on the page.                         *)
LEMMA SendReadyIInv ==
    ASSUME IInv, send_ready
    PROVE  IInv'
<1>1. /\ sp = "send_ready" /\ pc = "recv_ready" /\ toSup = <<>> /\ toSp = <<>>
      /\ page.state = "LISTENER_CREATED" /\ link.kind = "none"
      /\ UNCHANGED <<supVars, toSp, seized, execd>>
    BY SpawnerFacts
    DEF send_ready, IInv, InStep, Messages, PageTrue, LinkTrue, Started, Before
<1>2. CASE /\ toSup' = Append(toSup, "READY") /\ sp' = "recv_attached"
           /\ UNCHANGED <<page, status, target, cause, killed>>
    <2>1. toSup' = <<"READY">>
        BY <1>1, <1>2
    <2>2. InStep' /\ Messages'
        BY <1>1, <1>2, <2>1 DEF IInv, InStep, Messages, Linking, Early, supVars
    <2> QED
        BY <1>1, <1>2, <2>2, SpawnerMovesIInv DEF Started, supVars
<1>3. CASE /\ \E e \in KernelErrnos : SpawnerFailsAndKills("TransferListener", e)
           /\ UNCHANGED toSup
    <2>1. PICK e \in KernelErrnos : SpawnerFailsAndKills("TransferListener", e)
        BY <1>3
    <2> QED
        BY <1>1, <1>3, <2>1, ErrnosAssumption, TransferFailsIInv
<1> QED
    BY <1>2, <1>3 DEF send_ready

(* recv_attached: the spawner goes on only after the attach.                *)
LEMMA RecvAttachedIInv ==
    ASSUME IInv, recv_attached
    PROVE  IInv'
<1>1. /\ sp = "recv_attached" /\ page.state = "LISTENER_CREATED" /\ pc \in Linking
      /\ UNCHANGED <<supVars, toSup, seized, execd>>
    BY SpawnerFacts DEF recv_attached, IInv, PageTrue, Started
<1>2. CASE /\ toSp # <<>> /\ sp' = "send_fd"
           /\ UNCHANGED <<page, status, target, cause, killed>>
    <2>1. pc = "recv_fd" /\ toSup = <<>>
        BY <1>1, <1>2 DEF IInv, Messages, Linking, Ending
    <2>2. link.kind = "none"
        BY <2>1 DEF IInv, LinkTrue, Before
    <2>3. InStep' /\ Messages'
        BY <1>1, <1>2, <2>1 DEF IInv, InStep, Messages, Linking, Early, supVars
    <2> QED
        BY <1>1, <1>2, <2>1, <2>2, <2>3, SpawnerMovesIInv DEF Started, supVars
<1>3. CASE /\ toSp = <<>> /\ ~supOpen
           /\ SpawnerFailsAndKills("TransferListener", EPIPE) /\ UNCHANGED toSp
    <2>1. pc = "wait"
        BY <1>1, <1>3 DEF IInv, InStep, Linking, Before
    <2>2. EPIPE \in Int
        BY DEF EPIPE
    <2> QED
        BY <1>1, <1>3, <2>1, <2>2, TransferFailsIInv
<1> QED
    BY <1>2, <1>3 DEF recv_attached

(* send_fd: the listener sent is the one on the page.                       *)
LEMMA SendFdIInv ==
    ASSUME IInv, send_fd
    PROVE  IInv'
<1>1. /\ sp = "send_fd" /\ page.state = "LISTENER_CREATED" /\ pc = "recv_fd" /\ toSup = <<>>
      /\ page.listener_fd = launch /\ link.kind = "none"
      /\ UNCHANGED <<supVars, toSp, seized, execd>>
    BY SpawnerFacts
    DEF send_fd, IInv, InStep, Messages, PageTrue, LinkTrue, Started, Before, Ending
<1>2. CASE /\ toSup' = Append(toSup, [fd |-> page.listener_fd]) /\ sp' = "spawned"
           /\ UNCHANGED <<page, status, target, cause, killed>>
    <2>1. toSup' = <<[fd |-> launch]>>
        BY <1>1, <1>2
    <2>2. InStep' /\ Messages'
        BY <1>1, <1>2, <2>1 DEF IInv, InStep, Messages, Linking, Early, supVars
    <2> QED
        BY <1>1, <1>2, <2>2, SpawnerMovesIInv DEF Started, supVars
<1>3. CASE /\ \E e \in KernelErrnos : SpawnerFailsAndKills("TransferListener", e)
           /\ UNCHANGED toSup
    <2>1. PICK e \in KernelErrnos : SpawnerFailsAndKills("TransferListener", e)
        BY <1>3
    <2> QED
        BY <1>1, <1>3, <2>1, ErrnosAssumption, TransferFailsIInv
<1> QED
    BY <1>2, <1>3 DEF send_fd

(* set_spawned: attach and transfer succeeded, and the page says so.        *)
LEMMA SetSpawnedIInv ==
    ASSUME IInv, set_spawned
    PROVE  IInv'
<1>1. /\ sp = "spawned" /\ sp' = "publish" /\ status' = 0
      /\ page' = [page EXCEPT !.state = "SPAWNED"]
      /\ UNCHANGED <<pc, launch, link, supOpen, result, toSup, toSp, target, seized, execd,
                     cause, killed>>
    BY DEF set_spawned, supVars, tgVars, history
<1>2. /\ pc \in {"recv_fd", "wait"} /\ launch \in Calls /\ page \in PageType
      /\ page.state = "LISTENER_CREATED" /\ page.target_pid = launch /\ page.listener_fd = launch
      /\ ~page.done /\ launch \notin killed /\ status = 0
    BY <1>1, SpawnerFacts
    DEF IInv, InStep, PageTrue, StatusTrue, ResultsTrue, Crossed, Started, Ending
<1>3. /\ page' \in PageType /\ page'.state = "SPAWNED" /\ page'.target_pid = launch
      /\ page'.done = page.done /\ page'.listener_fd = launch
    BY <1>1, <1>2 DEF PageType
<1>4. Types'
    BY <1>1, <1>3 DEF IInv, Types, TypeOK, Ending
<1>5. InStep' /\ Messages'
    BY <1>1, <1>2 DEF IInv, InStep, Messages, Linking, Early, Ending
<1>6. Targets'
    BY <1>1, <1>2 DEF IInv, Targets, Early
<1>7. PageTrue'
    BY <1>1, <1>2, <1>3, LaunchesAssumption
    DEF PageTrue, Failed, Early, Started, Ending, Calls
<1>8. StatusTrue'
    BY <1>1, <1>2, <1>3 DEF StatusTrue, Failed, Early, Started, Closing, Killing
<1>9. CauseTrue' /\ LinkTrue'
    BY <1>1, <1>2, <1>3 DEF IInv, CauseTrue, LinkTrue, Failed, AttachFailed
<1>10. ResultsTrue'
    BY <1>1, <1>2 DEF IInv, ResultsTrue, Killing
<1>11. OkGuarantee' /\ NothingLeftRunning' /\ KillsOwnTarget' /\ FirstFailureReported'
    BY <1>1, <1>2, BusyResults
<1> QED
    BY <1>4, <1>5, <1>6, <1>7, <1>8, <1>9, <1>10, <1>11 DEF IInv

(* publish_done: what the page says is final.                               *)
LEMMA PublishDoneIInv ==
    ASSUME IInv, publish_done
    PROVE  IInv'
<1>1. /\ sp = "publish" /\ sp' = "exit" /\ page' = [page EXCEPT !.done = TRUE]
      /\ UNCHANGED <<pc, launch, link, supOpen, result, status, toSup, toSp, target, seized,
                     execd, cause, killed>>
    BY DEF publish_done, supVars, tgVars, history
<1>2. /\ pc \in Linking /\ pc # "idle" /\ launch \in Calls /\ pc \notin Closing /\ page \in PageType
    BY <1>1, SpawnerFacts
<1>3. /\ page' \in PageType /\ page'.done /\ page'.state = page.state
      /\ page'.target_pid = page.target_pid /\ page'.listener_fd = page.listener_fd
      /\ page'.error_step = page.error_step /\ page'.error_code = page.error_code
    BY <1>1, <1>2 DEF PageType
<1>4. target[launch] \notin PreExec
    BY <1>1, <1>2 DEF IInv, Targets
<1>5. pc \notin {"fork", "seize", "send_attached"} /\ (pc = "recv_ready" => toSup = <<>>)
    BY <1>1, <1>2 DEF IInv, InStep, Messages, Linking
<1>6. Types'
    BY <1>1, <1>3 DEF IInv, Types, TypeOK, Ending
<1>7. InStep' /\ Messages'
    BY <1>1, <1>2 DEF IInv, InStep, Messages, Linking, Early, Ending
<1>8. Targets'
    BY <1>1, <1>4 DEF IInv, Targets, Early
<1>9. PageTrue'
    BY <1>1, <1>2, <1>3, <1>4, <1>5 DEF IInv, PageTrue, Crossed, Failed, Early, Started, Ending
<1>10. StatusTrue'
    BY <1>1, <1>2, <1>3 DEF IInv, StatusTrue, Failed, Early, Started, Ending
<1>11. CauseTrue' /\ LinkTrue'
    BY <1>1, <1>3 DEF IInv, CauseTrue, LinkTrue, Failed, AttachFailed
<1>12. ResultsTrue'
    BY <1>1, <1>2, <1>3 DEF IInv, ResultsTrue, Killing, Linking, Ending
<1>13. OkGuarantee' /\ NothingLeftRunning' /\ KillsOwnTarget' /\ FirstFailureReported'
    BY <1>1, <1>2, BusyResults
<1> QED
    BY <1>6, <1>7, <1>8, <1>9, <1>10, <1>11, <1>12, <1>13 DEF IInv

(* The spawner ends: it has published and exits, or it is killed.           *)
LEMMA SpawnerEndsIInv ==
    ASSUME IInv, sp \notin {"none", "zombie"}, sp' = "zombie",
           \/ sp = "exit" /\ status' = status
           \/ status' = -9,
           UNCHANGED <<supVars, page, toSup, toSp, tgVars, history>>
    PROVE  IInv'
<1>1. UNCHANGED <<pc, launch, link, supOpen, result, page, toSup, toSp, target, seized, execd,
                  cause, killed>>
    BY DEF supVars, tgVars, history
<1>2. pc \in Linking /\ pc # "idle" /\ launch \in Calls /\ pc \notin Closing
    BY SpawnerFacts
<1>3. Types'
    BY <1>1 DEF IInv, Types, TypeOK
<1>4. InStep' /\ Messages'
    BY <1>1, <1>2 DEF IInv, InStep, Messages, Early
<1>5. Targets'
    BY <1>1, <1>2 DEF IInv, Targets, Early, Linking
<1>6. PageTrue'
    BY <1>1, <1>2 DEF IInv, PageTrue, Crossed, Failed, Early, Started, Ending, Linking
<1>7. StatusTrue'
    BY <1>1, <1>2 DEF IInv, StatusTrue, Failed, Early, Started, Ending
<1>8. CauseTrue' /\ LinkTrue'
    BY <1>1, <1>2 DEF IInv, CauseTrue, LinkTrue, Failed, AttachFailed
<1>9. ResultsTrue'
    BY <1>1, <1>2 DEF IInv, ResultsTrue, Killing, Linking
<1>10. OkGuarantee' /\ NothingLeftRunning' /\ KillsOwnTarget' /\ FirstFailureReported'
    BY <1>1, <1>2, BusyResults
<1> QED
    BY <1>3, <1>4, <1>5, <1>6, <1>7, <1>8, <1>9, <1>10 DEF IInv
----------------------------------------------------------------------------
(* The target's steps *)

(* A target before its execve is that of this launch, and nobody else       *)
(* writes to the page.                                                      *)
LEMMA PreExecFacts ==
    ASSUME IInv, NEW l \in Calls, target[l] \in PreExec
    PROVE  /\ l = launch /\ pc = "recv_ready" /\ toSup = <<>> /\ sp \in {"vfork", "zombie"}
           /\ launch \in Calls /\ page \in PageType /\ ~page.done /\ link.kind = "none"
           /\ sp = "zombie" => status = -9
           /\ target[l] # "failed" => ~Failed /\ cause = "None"
           /\ target \in [Calls -> Alive \cup {"none", "zombie", "reaped"}]
<1>1. l = launch /\ pc = "recv_ready" /\ toSup = <<>> /\ sp \in {"vfork", "zombie"}
    BY DEF IInv, Targets
<1>2. /\ page \in PageType /\ target \in [Calls -> Alive \cup {"none", "zombie", "reaped"}]
    BY DEF IInv, Types, TypeOK
<1>3. ~page.done /\ link.kind = "none"
    BY <1>1 DEF IInv, PageTrue, LinkTrue, Before
<1>4. sp = "zombie" => status = -9
    BY <1>1, <1>3 DEF IInv, StatusTrue
<1>5. target[l] # "failed" => ~Failed /\ cause = "None"
    BY <1>1 DEF IInv, PageTrue, CauseTrue, Before
<1> QED
    BY <1>1, <1>2, <1>3, <1>4, <1>5

(* A target goes on before its execve, or crosses it, or fails; the page    *)
(* and the cause say which.                                                 *)
LEMMA TargetStepsIInv ==
    ASSUME IInv, NEW l \in Calls, target[l] \in PreExec \ {"failed"},
           NEW s \in PreExec \cup {"run"}, target' = [target EXCEPT ![l] = s],
           UNCHANGED <<supVars, sp, status, toSup, toSp, seized, killed>>,
           execd' = (IF s = "run" THEN execd \cup {l} ELSE execd),
           page' \in PageType, page'.done = page.done, page'.target_pid = page.target_pid,
           page'.state \in {"LISTENER_CREATED", "SPAWNED"} => page'.listener_fd = l,
           page'.state # "SPAWNED", cause' \in Steps,
           \/ s # "failed" /\ page'.state # "FAILED" /\ cause' = cause
           \/ /\ s = "failed" /\ page'.state = "FAILED" /\ page'.error_code > 0
              /\ cause' = page'.error_step /\ cause' # "None"
    PROVE  IInv'
<1>1. UNCHANGED <<pc, launch, link, supOpen, result>>
    BY DEF supVars
<1>2. /\ l = launch /\ pc = "recv_ready" /\ toSup = <<>> /\ sp \in {"vfork", "zombie"}
      /\ launch \in Calls /\ page \in PageType /\ ~page.done /\ link.kind = "none"
      /\ sp = "zombie" => status = -9
      /\ ~Failed /\ cause = "None"
      /\ target \in [Calls -> Alive \cup {"none", "zombie", "reaped"}]
    BY PreExecFacts
<1>3. \A k \in Calls : target'[k] = IF k = launch THEN s ELSE target[k]
    BY <1>2
<1>4. Types'
    BY <1>1, <1>2, <1>3 DEF IInv, Types, TypeOK, Alive
<1>5. InStep' /\ Messages'
    BY <1>1, <1>2 DEF IInv, InStep, Messages
<1>6. Targets'
    <2>1. \A k \in Calls : k > launch => k # launch
        BY <1>2 DEF Calls
    <2>2. \A k \in Calls : k > launch => target'[k] = "none" /\ k \notin killed
        BY <1>3, <2>1 DEF IInv, Targets
    <2>3. \A k \in Calls : target'[k] \in PreExec => k = launch
        BY <1>3 DEF IInv, Targets
    <2>4. \A k \in Calls : target'[k] \in {"run", "stop"} => k \in execd'
        BY <1>2, <1>3 DEF IInv, Targets, PreExec
    <2> QED
        BY <1>1, <1>2, <2>2, <2>3, <2>4 DEF Targets, Early
<1>7. PageTrue'
    BY <1>1, <1>2, <1>3 DEF IInv, PageTrue, Crossed, Failed, Early, Started, Ending
<1>8. StatusTrue'
    BY <1>1, <1>2 DEF IInv, StatusTrue, Failed, Ending, Closing, Killing
<1>9. CauseTrue' /\ LinkTrue'
    BY <1>1, <1>2 DEF IInv, CauseTrue, LinkTrue, Failed, AttachFailed, Before
<1>10. ResultsTrue'
    BY <1>1, <1>2 DEF IInv, ResultsTrue, Killing
<1>11. OkGuarantee' /\ NothingLeftRunning' /\ KillsOwnTarget' /\ FirstFailureReported'
    BY <1>1, <1>2, BusyResults
<1> QED
    BY <1>4, <1>5, <1>6, <1>7, <1>8, <1>9, <1>10, <1>11 DEF IInv

(* The failure of a target before or at its execve.                         *)
LEMMA TargetFailureIInv ==
    ASSUME IInv, NEW l \in Calls, target[l] \in PreExec \ {"failed"},
           NEW step \in Steps \ {"None"}, NEW e \in KernelErrnos,
           publish_target_failure(l, step, e),
           UNCHANGED <<supVars, spVars, toSup, toSp, seized, execd, killed>>
    PROVE  IInv'
<1>1. page \in PageType /\ cause = "None"
    BY PreExecFacts
<1>2. normalize(e) \in Nat /\ normalize(e) > 0 /\ step \in Steps
    BY NormalizePositive, ErrnosAssumption
<1>3. /\ page' = [page EXCEPT !.error_step = step, !.error_code = normalize(e), !.state = "FAILED"]
      /\ cause' = step /\ target' = [target EXCEPT ![l] = "failed"]
    BY <1>1 DEF publish_target_failure, record_failure, Blame
<1>4. /\ page' \in PageType /\ page'.done = page.done /\ page'.target_pid = page.target_pid
      /\ page'.state = "FAILED" /\ page'.error_code > 0 /\ page'.error_step = step
    BY <1>1, <1>2, <1>3 DEF PageType
<1>5. "failed" \in PreExec
    BY DEF PreExec
<1> QED
    BY <1>2, <1>3, <1>4, <1>5, TargetStepsIInv DEF spVars

(* prctl and seccomp: the target goes on, or its error is recorded.         *)
LEMMA PrctlIInv ==
    ASSUME IInv, NEW l \in Calls, prctl(l) \/ seccomp(l)
    PROVE  IInv'
<1>1. /\ target[l] \in PreExec \ {"failed"}
      /\ UNCHANGED <<supVars, spVars, toSup, toSp, seized, execd, killed>>
    BY DEF prctl, seccomp, PreExec
<1>2. CASE \E s \in {"seccomp", "publish"} :
              target' = [target EXCEPT ![l] = s] /\ UNCHANGED <<page, cause>>
    <2>1. PICK s \in {"seccomp", "publish"} : target' = [target EXCEPT ![l] = s]
        BY <1>2
    <2>2. s \in PreExec /\ s # "failed" /\ s # "run"
        BY DEF PreExec
    <2>3. page \in PageType /\ cause \in Steps /\ l = launch /\ page.state # "FAILED" /\ pc = "recv_ready"
        BY <1>1, PreExecFacts DEF IInv, Types, Failed
    <2>4. /\ page.state # "SPAWNED"
          /\ page.state \in {"LISTENER_CREATED", "SPAWNED"} => page.listener_fd = l
        BY <2>3 DEF IInv, PageTrue, Closing, Killing
    <2> QED
        BY <1>1, <1>2, <2>1, <2>2, <2>3, <2>4, TargetStepsIInv DEF spVars
<1>3. CASE \E e \in KernelErrnos : \/ publish_target_failure(l, "NoNewPrivileges", e)
                                   \/ publish_target_failure(l, "InstallSeccomp", e)
    BY <1>1, <1>3, TargetFailureIInv DEF Steps
<1> QED
    BY <1>2, <1>3 DEF prctl, seccomp

(* publish_listener: the page names the target's own listener.              *)
LEMMA PublishListenerIInv ==
    ASSUME IInv, NEW l \in Calls, publish_listener(l)
    PROVE  IInv'
<1>1. /\ target[l] = "publish" /\ target[l] \in PreExec \ {"failed"} /\ "execve" \in PreExec
      /\ page' = [page EXCEPT !.listener_fd = l, !.state = "LISTENER_CREATED"]
      /\ target' = [target EXCEPT ![l] = "execve"]
      /\ UNCHANGED <<supVars, sp, status, toSup, toSp, seized, execd, cause, killed>>
    BY DEF publish_listener, PreExec, spVars, history
<1>2. page \in PageType /\ cause \in Steps
    BY DEF IInv, Types, TypeOK
<1>3. /\ page' \in PageType /\ page'.done = page.done /\ page'.target_pid = page.target_pid
      /\ page'.state = "LISTENER_CREATED" /\ page'.listener_fd = l
    BY <1>1, <1>2 DEF PageType
<1> QED
    BY <1>1, <1>2, <1>3, TargetStepsIInv

(* execve: the program runs, or the error is recorded.                      *)
LEMMA ExecveIInv ==
    ASSUME IInv, NEW l \in Calls, execve(l)
    PROVE  IInv'
<1>1. /\ target[l] = "execve" /\ target[l] \in PreExec \ {"failed"}
      /\ UNCHANGED <<supVars, spVars, toSup, toSp, seized, killed>>
    BY DEF execve, PreExec
<1>2. CASE /\ target' = [target EXCEPT ![l] = "run"] /\ execd' = execd \cup {l}
           /\ UNCHANGED <<page, cause>>
    <2>1. page \in PageType /\ cause \in Steps /\ l = launch /\ page.state # "FAILED" /\ pc = "recv_ready"
        BY <1>1, PreExecFacts DEF IInv, Types, Failed
    <2>2. /\ page.state # "SPAWNED"
          /\ page.state \in {"LISTENER_CREATED", "SPAWNED"} => page.listener_fd = l
        BY <2>1 DEF IInv, PageTrue, Closing, Killing
    <2> QED
        BY <1>1, <1>2, <2>1, <2>2, TargetStepsIInv DEF spVars
<1>3. CASE /\ \E e \in KernelErrnos : publish_target_failure(l, "Exec", e)
           /\ UNCHANGED execd
    BY <1>1, <1>3, TargetFailureIInv DEF Steps
<1> QED
    BY <1>2, <1>3 DEF execve

(* A living process ends, or stops under ptrace: this may happen at any     *)
(* time, to the target of any launch.                                       *)
LEMMA TargetEndsIInv ==
    ASSUME IInv, NEW l \in Calls, target[l] \in Alive,
           NEW s \in {"zombie", "stop"}, s = "stop" => target[l] = "run",
           target' = [target EXCEPT ![l] = s],
           UNCHANGED <<supVars, page, spVars, toSup, toSp, seized, execd, history>>
    PROVE  IInv'
<1>1. UNCHANGED <<pc, launch, link, supOpen, result, page, sp, status, toSup, toSp, seized,
                  execd, cause, killed>>
    BY DEF supVars, spVars, history
<1>2. target \in [Calls -> Alive \cup {"none", "zombie", "reaped"}]
    BY DEF IInv, Types, TypeOK
<1>3. \A k \in Calls : target'[k] = IF k = l THEN s ELSE target[k]
    BY <1>2
<1>4. s \notin PreExec \cup {"run", "none"} /\ s \in Alive \cup {"zombie"} /\ target[l] # "none"
    BY DEF PreExec, Alive
<1>5. Types'
    BY <1>1, <1>2, <1>3, <1>4 DEF IInv, Types, TypeOK
<1>6. InStep' /\ Messages'
    BY <1>1 DEF IInv, InStep, Messages
<1>7. Targets'
    BY <1>1, <1>3, <1>4 DEF IInv, Targets, Types, Early, InStep
<1>8. PageTrue'
    BY <1>1, <1>3, <1>4 DEF IInv, PageTrue, Crossed, Failed, Types
<1>9. StatusTrue' /\ CauseTrue' /\ LinkTrue'
    BY <1>1 DEF IInv, StatusTrue, CauseTrue, LinkTrue, Failed, AttachFailed
<1>10. ResultsTrue'
    BY <1>1, OutcomeSame DEF IInv, ResultsTrue
<1>11. OkGuarantee' /\ KillsOwnTarget' /\ FirstFailureReported'
    BY <1>1 DEF IInv, OkGuarantee, KillsOwnTarget, FirstFailureReported
<1>12. NothingLeftRunning'
    BY <1>1, <1>3, <1>4 DEF IInv, NothingLeftRunning, Types, TypeOK, Calls
<1> QED
    BY <1>5, <1>6, <1>7, <1>8, <1>9, <1>10, <1>11, <1>12 DEF IInv
----------------------------------------------------------------------------
(* Every step of the supervisor keeps the invariant.                        *)
LEMMA SupervisorIInv == ASSUME IInv, Supervisor PROVE IInv'
BY ValidateInputsIInv, BeginIInv, ForkIInv, RecvReadyIInv, SeizeIInv, SendAttachedIInv,
   RecvFdIInv, WaitSpawnerIInv, EvaluateIInv, TerminatePollIInv, TerminateKillIInv,
   TerminateReapIInv
DEF Supervisor

(* Every step of the spawner keeps the invariant.                           *)
LEMMA SpawnerIInv == ASSUME IInv, Spawner PROVE IInv'
<1>1. CASE \/ install_standard_stream("stdin", "Stdin", "stdout")
           \/ install_standard_stream("stdout", "Stdout", "stderr")
           \/ install_standard_stream("stderr", "Stderr", "close")
    BY <1>1, StreamsIInv DEF Early, Steps
<1>2. CASE spawner_exit
    BY <1>2, SpawnerEndsIInv DEF spawner_exit
<1> QED
    BY <1>1, <1>2, CloseUnwantedFdsIInv, CloneTargetIInv, VforkReturnsIInv, CheckStateIInv,
       SendReadyIInv, RecvAttachedIInv, SendFdIInv, SetSpawnedIInv, PublishDoneIInv
    DEF Spawner

(* Every step of a target and every kill from outside keeps the invariant.  *)
LEMMA TargetIInv ==
    ASSUME IInv, NEW l \in Calls, Target(l) \/ program(l) \/ target_dies(l)
    PROVE  IInv'
<1>1. CASE target_exit(l) \/ program(l) \/ target_dies(l)
    <2>1. target[l] \in Alive
        BY <1>1 DEF target_exit, program, target_dies, Alive, PreExec
    <2>2. /\ UNCHANGED <<supVars, page, spVars, toSup, toSp, seized, execd, history>>
          /\ \/ target' = [target EXCEPT ![l] = "zombie"]
             \/ target[l] = "run" /\ target' = [target EXCEPT ![l] = "stop"]
        BY <1>1 DEF target_exit, program, target_dies
    <2> QED
        BY <2>1, <2>2, TargetEndsIInv
<1> QED
    BY <1>1, PrctlIInv, PublishListenerIInv, ExecveIInv DEF Target

(* The inductive invariant holds throughout.                                *)
THEOREM Invariance == Spec => []IInv
<1>1. IInv /\ [Next]_vars => IInv'
    <2> SUFFICES ASSUME IInv, [Next]_vars PROVE IInv'
        OBVIOUS
    <2>1. CASE Supervisor
        BY <2>1, SupervisorIInv
    <2>2. CASE Spawner
        BY <2>2, SpawnerIInv
    <2>3. CASE spawner_dies
        BY <2>3, SpawnerEndsIInv DEF spawner_dies
    <2>4. CASE \E l \in Calls : Target(l) \/ program(l) \/ target_dies(l)
        BY <2>4, TargetIInv
    <2>5. CASE UNCHANGED vars
        <3>1. UNCHANGED <<pc, launch, link, supOpen, result, page, sp, status, toSup, toSp,
                          target, seized, execd, cause, killed>>
            BY <2>5 DEF vars, supVars, spVars, tgVars, history
        <3> QED
            BY <3>1, OutcomeSame
            DEF IInv, Types, TypeOK, InStep, Messages, Targets, PageTrue, StatusTrue, CauseTrue,
                LinkTrue, ResultsTrue, OkGuarantee, NothingLeftRunning, KillsOwnTarget,
                FirstFailureReported, Crossed, Failed, AttachFailed
    <2> QED
        BY <2>1, <2>2, <2>3, <2>4, <2>5 DEF Next
<1> QED
    BY InitIInv, <1>1, PTL DEF Spec

(* When the supervisor is told READY and reads the pid it is to attach to,  *)
(* the page names the target of this very launch: the check pid <= 0 of     *)
(* spawn.rs:292 never fails, and PTRACE_SEIZE never goes to the target of   *)
(* an earlier launch.                                                       *)
THEOREM SeizesOwnTarget == Spec => [](pc = "seize" => page.target_pid = launch)
<1>1. IInv => (pc = "seize" => page.target_pid = launch)
    BY DEF IInv, PageTrue, Crossed
<1> QED
    BY <1>1, Invariance, PTL

(* A successful call names its own target, past execve, with ptrace         *)
(* attached and with its own listener; the spawner is gone.                 *)
THEOREM OkMeansStarted == Spec => []OkGuarantee
<1>1. IInv => OkGuarantee
    BY DEF IInv
<1> QED
    BY <1>1, Invariance, PTL

(* After an error of a published launch its target does not go on.          *)
THEOREM ErrorLeavesNothing == Spec => []NothingLeftRunning
<1>1. IInv => NothingLeftRunning
    BY DEF IInv
<1> QED
    BY <1>1, Invariance, PTL

(* No call kills the program of another one.                                *)
THEOREM KillsOnlyOwn == Spec => []KillsOwnTarget
<1>1. IInv => KillsOwnTarget
    BY DEF IInv
<1> QED
    BY <1>1, Invariance, PTL

(* The shared page has no writer left between two calls.                    *)
THEOREM PageQuiet == Spec => []NoStaleWriter
<1>1. IInv => NoStaleWriter
    BY DEF IInv, Targets, NoStaleWriter
<1> QED
    BY <1>1, Invariance, PTL

(* A failed call reports the first operation that failed.                   *)
THEOREM FirstFailure == Spec => []FirstFailureReported
<1>1. IInv => FirstFailureReported
    BY DEF IInv
<1> QED
    BY <1>1, Invariance, PTL
=============================================================================
