----------------------- MODULE ProcessCreationProofs -----------------------
(***************************************************************************)
(* Proofs about ProcessCreation.tla, for any set of pids, any mix of       *)
(* process-creation calls and any number of signals.                       *)
(***************************************************************************)
EXTENDS ProcessCreation, TLAPS

(* Pids are numbers.                                                        *)
LEMMA PidsInt == \A p \in Pids : p \in Int
BY PidsAssumption

(* A process inside a call that the handler let go on or skip.              *)
InCall == {"syscall", "skipped", "event", "released", "exit"}

(* The handler between its poll and its return.                             *)
Working == {"decide", "reject", "await", "await_child", "register", "resume", "resume_occupied"}

(* With a child attached to.                                                *)
WithChild == {"await_child", "register", "resume", "resume_occupied"}

Types ==
    /\ TypeOK
    /\ pc \in {"idle", "poll"} \cup Working
    /\ ret \in [Pids -> Int]
    /\ faulted \in BOOLEAN

(* Whom the kernel lets the handler trace.                                  *)
TracedExact ==
    /\ \A p \in Pids : proc[p] = "free" => p \notin traced
    /\ \A p \in Pids : proc[p] \notin {"free", "run"} => p \in traced

(* An entry without a traced process was reported.                          *)
EntriesTraced == \A p \in procs : p \notin traced => p \in lost

(* Where the process is that the handler works on.                          *)
HandlerKnows ==
    /\ pc = "idle" <=> cur = NoPid
    /\ pc # "idle" => cur \in procs
    /\ pc \in Working => cur \in traced
    /\ pc \in {"decide"} \cup WithChild => proc[cur] \in {"stopped", "zombie"}
    /\ pc = "reject" => proc[cur] \in {"skipped", "exit", "zombie"}
    /\ pc = "await" => proc[cur] \in {"syscall", "event", "released", "exit", "zombie"}
    /\ \A p \in Pids : proc[p] \in InCall => p = cur /\ pc \in {"await", "reject"}

(* The child that the handler has attached to, or is about to.              *)
ChildKnown ==
    /\ attached # NoPid => pc \in {"await"} \cup WithChild /\ attached \in traced /\ attached # cur
    /\ pc \in WithChild => attached # NoPid
    /\ pc \in {"resume", "resume_occupied"} => attached \in procs
    /\ pc = "await" => (attached = NoPid => proc[cur] # "released")
                       /\ (attached # NoPid => proc[cur] \notin {"syscall", "event"})
    /\ \A p \in Pids : proc[p] \in {"event", "released"} => newborn[p] \in Pids
    /\ \A p \in Pids : proc[p] = "event" => newborn[p] \in traced /\ newborn[p] # p
    /\ pc = "await_child" /\ proc[cur] = "stopped" => newborn[cur] = attached
    /\ \A p \in Pids : ret[p] > 0 => ret[p] \in Pids

(* Who is stopped, as long as nothing went wrong.                           *)
StoppedKnown ==
    ~faulted =>
        \/ pc # "idle" /\ proc[cur] = "zombie"
        \/ /\ \A p \in Pids : proc[p] = "stopped" =>
                 \/ p = cur /\ pc \in {"decide"} \cup WithChild
                 \/ p = attached /\ pc \in {"await", "register", "resume", "resume_occupied"}
           /\ \A p \in Pids : proc[p] = "attach" =>
                 \/ p = attached /\ pc = "await_child"
                 \/ pc = "await" /\ proc[cur] = "event" /\ p = newborn[cur]

(* The inductive invariant.                                                 *)
IInv ==
    /\ Types /\ TracedExact /\ EntriesTraced /\ HandlerKnows /\ ChildKnown /\ StoppedKnown
    /\ RunsOnlyTracked
----------------------------------------------------------------------------
(* No process is inside a call unless the handler works on it there.        *)
LEMMA NoneInCall ==
    ASSUME IInv, pc \notin {"await", "reject"} \/ proc[cur] = "zombie"
    PROVE  \A p \in Pids : proc[p] \notin InCall
BY DEF IInv, HandlerKnows, InCall

(* What holds of the process the handler works on.                          *)
LEMMA CurFacts ==
    ASSUME IInv, pc # "idle"
    PROVE  /\ cur \in procs /\ cur \in Pids /\ cur # NoPid /\ procs \subseteq Pids
           /\ attached \in Pids \cup {NoPid}
           /\ proc \in [Pids -> Alive \cup {"free", "zombie"}]
BY PidsAssumption DEF IInv, HandlerKnows, Types, TypeOK

(* At the start one process runs, traced and registered.                    *)
LEMMA InitIInv == Init => IInv
<1> SUFFICES ASSUME Init PROVE IInv
    OBVIOUS
<1>1. FirstPid \in Pids /\ FirstPid # NoPid
    BY PidsAssumption
<1>2. Types
    <2>1. "run" \in Alive
        BY DEF Alive
    <2>2. proc \in [Pids -> Alive \cup {"free", "zombie"}]
        BY <2>1 DEF Init
    <2>3. outcome.value \in Nat
        BY DEF Init, Outcome
    <2>4. /\ call \in [Pids -> CallKinds \cup {"none"}] /\ ret \in [Pids -> Int]
          /\ newborn \in [Pids -> Pids \cup {NoPid}]
        BY DEF Init
    <2>5. /\ procs \subseteq Pids /\ traced \subseteq Pids /\ faulted \in BOOLEAN
          /\ cur \in Pids \cup {NoPid} /\ attached \in Pids \cup {NoPid} /\ pc = "idle"
        BY <1>1 DEF Init
    <2> QED
        BY <2>2, <2>3, <2>4, <2>5 DEF Types, TypeOK
<1>3. TracedExact /\ EntriesTraced
    BY <1>1 DEF Init, TracedExact, EntriesTraced
<1>4. HandlerKnows /\ ChildKnown
    BY DEF Init, HandlerKnows, ChildKnown, Working, WithChild, InCall
<1>5. StoppedKnown /\ RunsOnlyTracked
    BY DEF Init, StoppedKnown, RunsOnlyTracked
<1> QED
    BY <1>2, <1>3, <1>4, <1>5 DEF IInv
----------------------------------------------------------------------------
(* The handler's ways to return *)

(* An error return leaves nothing the handler still has to do.              *)
LEMMA GivesUpIInv ==
    ASSUME IInv, GivesUp, pc # "idle", \A p \in Pids : proc[p] \notin InCall
    PROVE  IInv'
<1>1. /\ pc' = "idle" /\ cur' = NoPid /\ attached' = NoPid /\ faulted' = TRUE
      /\ outcome' = Outcome("io", 0)
      /\ UNCHANGED <<procs, proc, call, ret, newborn, traced, lost>>
    BY DEF GivesUp, Fault, Return, kernelVars
<1>2. Types'
    BY <1>1 DEF IInv, Types, TypeOK, Outcome
<1>3. TracedExact' /\ EntriesTraced' /\ RunsOnlyTracked'
    BY <1>1 DEF IInv, TracedExact, EntriesTraced, RunsOnlyTracked
<1>4. HandlerKnows' /\ ChildKnown'
    BY <1>1 DEF IInv, HandlerKnows, ChildKnown, Working, WithChild
<1>5. StoppedKnown'
    BY <1>1 DEF StoppedKnown
<1> QED
    BY <1>2, <1>3, <1>4, <1>5 DEF IInv

(* An exit status was consumed: the process is gone, and if it had an entry *)
(* the caller has been told.                                                *)
LEMMA ExitConsumedIInv ==
    ASSUME IInv, NEW p \in Pids, ExitConsumed(p), proc[p] = "zombie", pc # "idle",
           \A q \in Pids : proc[q] \notin InCall
    PROVE  IInv'
<1>1. /\ pc' = "idle" /\ cur' = NoPid /\ attached' = NoPid /\ faulted' = TRUE
      /\ outcome' = Outcome("wait_status", 0)
      /\ proc' = [proc EXCEPT ![p] = "free"] /\ traced' = traced \ {p}
      /\ lost' = lost \cup ({p} \cap procs)
      /\ UNCHANGED <<procs, call, ret, newborn>>
    BY DEF ExitConsumed, Freed, Become, Fault, Return
<1>2. proc \in [Pids -> Alive \cup {"free", "zombie"}] /\ traced \subseteq Pids
    BY DEF IInv, Types, TypeOK
<1>3. \A q \in Pids : proc'[q] = IF q = p THEN "free" ELSE proc[q]
    BY <1>1, <1>2
<1>4. Types'
    BY <1>1, <1>2 DEF IInv, Types, TypeOK, Outcome
<1>5. TracedExact' /\ EntriesTraced' /\ RunsOnlyTracked'
    BY <1>1, <1>2, <1>3 DEF IInv, TracedExact, EntriesTraced, RunsOnlyTracked
<1>6. HandlerKnows' /\ ChildKnown'
    BY <1>1, <1>3 DEF IInv, HandlerKnows, ChildKnown, Working, WithChild, InCall
<1>7. StoppedKnown'
    BY <1>1 DEF StoppedKnown
<1> QED
    BY <1>4, <1>5, <1>6, <1>7 DEF IInv

(* The process the handler works on was killed.                             *)
LEMMA KilledIInv ==
    ASSUME IInv, Killed, pc # "idle"
    PROVE  IInv'
<1>1. cur \in Pids /\ proc[cur] = "zombie" /\ \A q \in Pids : proc[q] \notin InCall
    BY CurFacts, NoneInCall DEF Killed
<1> QED
    BY <1>1, GivesUpIInv, ExitConsumedIInv DEF Killed
----------------------------------------------------------------------------
(* The handler's steps *)

(* start: only a registered process is worked on.                           *)
LEMMA StartIInv ==
    ASSUME IInv, NEW p \in Pids, start(p)
    PROVE  IInv'
<1>1. /\ pc = "idle" /\ cur = NoPid /\ attached = NoPid
      /\ UNCHANGED <<procs, attached, proc, call, ret, newborn, traced, lost, faulted>>
    BY PidsAssumption DEF start, IInv, HandlerKnows, ChildKnown, WithChild, kernelVars
<1>2. \A q \in Pids : proc[q] \notin InCall
    BY <1>1, NoneInCall
<1>3. \/ p \in procs /\ pc' = "poll" /\ cur' = p /\ outcome' = Outcome("none", 0)
      \/ outcome' = Outcome("not_tracked", 0) /\ UNCHANGED <<pc, cur>>
    BY DEF start
<1>4. p # NoPid
    BY PidsAssumption
<1>5. Types'
    BY <1>1, <1>3 DEF IInv, Types, TypeOK, Outcome
<1>6. TracedExact' /\ EntriesTraced' /\ RunsOnlyTracked'
    BY <1>1 DEF IInv, TracedExact, EntriesTraced, RunsOnlyTracked
<1>7. HandlerKnows' /\ ChildKnown'
    BY <1>1, <1>2, <1>3, <1>4 DEF IInv, HandlerKnows, ChildKnown, Working, WithChild
<1>8. StoppedKnown'
    BY <1>1, <1>3 DEF IInv, StoppedKnown, WithChild
<1> QED
    BY <1>5, <1>6, <1>7, <1>8 DEF IInv

(* poll: the stop that is reported is the one the handler needs.            *)
LEMMA PollIInv ==
    ASSUME IInv, poll
    PROVE  IInv'
<1>1. pc = "poll" /\ pc # "idle" /\ attached = NoPid /\ \A q \in Pids : proc[q] \notin InCall
    BY NoneInCall DEF poll, IInv, ChildKnown, WithChild
<1>2. /\ cur \in procs /\ cur \in Pids /\ cur # NoPid /\ procs \subseteq Pids
      /\ proc \in [Pids -> Alive \cup {"free", "zombie"}]
    BY <1>1, CurFacts
<1>3. CASE /\ proc[cur] = "seccomp" /\ Become(cur, "stopped")
           /\ pc' = "decide"
           /\ UNCHANGED <<procs, cur, attached, outcome, call, ret, newborn,
                          traced, signals, lost, faulted>>
    <2>1. \A q \in Pids : proc'[q] = IF q = cur THEN "stopped" ELSE proc[q]
        BY <1>2, <1>3 DEF Become
    <2>2. cur \in traced
        BY <1>2, <1>3 DEF IInv, TracedExact
    <2>3. Types'
        BY <1>2, <1>3, <2>1 DEF IInv, Types, TypeOK, Become, Alive, Working
    <2>4. TracedExact' /\ EntriesTraced' /\ RunsOnlyTracked'
        BY <1>2, <1>3, <2>1, <2>2 DEF IInv, TracedExact, EntriesTraced, RunsOnlyTracked, Types, TypeOK
    <2>5. HandlerKnows' /\ ChildKnown'
        BY <1>1, <1>2, <1>3, <2>1, <2>2 DEF IInv, HandlerKnows, ChildKnown, Working, WithChild, InCall
    <2>6. StoppedKnown'
        BY <1>1, <1>2, <1>3, <2>1 DEF IInv, StoppedKnown, WithChild
    <2> QED
        BY <2>3, <2>4, <2>5, <2>6 DEF IInv
<1>4. CASE /\ proc[cur] = "sigstop"
           /\ Become(cur, IF call[cur] = "none" THEN "run" ELSE "seccomp")
           /\ UNCHANGED <<supVars, call, ret, newborn, traced, signals, lost, faulted>>
    <2>1. UNCHANGED <<procs, pc, cur, attached, outcome>>
        BY <1>4 DEF supVars
    <2>2. PICK s \in {"run", "seccomp"} : proc' = [proc EXCEPT ![cur] = s]
        BY <1>4 DEF Become
    <2>3. \A q \in Pids : proc'[q] = IF q = cur THEN s ELSE proc[q]
        BY <1>2, <2>2
    <2>4. cur \in traced
        BY <1>2, <1>4 DEF IInv, TracedExact
    <2>5. Types'
        BY <1>2, <1>4, <2>1, <2>2 DEF IInv, Types, TypeOK, Alive
    <2>6. TracedExact' /\ EntriesTraced' /\ RunsOnlyTracked'
        BY <1>2, <1>4, <2>1, <2>3, <2>4
        DEF IInv, TracedExact, EntriesTraced, RunsOnlyTracked, Types, TypeOK
    <2>7. HandlerKnows' /\ ChildKnown'
        BY <1>1, <1>2, <1>4, <2>1, <2>3 DEF IInv, HandlerKnows, ChildKnown, Working, WithChild, InCall
    <2>8. StoppedKnown'
        BY <1>1, <1>2, <1>4, <2>1, <2>3 DEF IInv, StoppedKnown, WithChild
    <2> QED
        BY <2>5, <2>6, <2>7, <2>8 DEF IInv
<1>5. CASE Killed
    BY <1>1, <1>5, KilledIInv
<1>6. CASE /\ proc[cur] \in Alive \ {"seccomp", "sigstop"} /\ cur \in traced
           /\ Return(Outcome("nothing", 0))
           /\ UNCHANGED <<procs, kernelVars, lost, faulted>>
    <2>1. /\ pc' = "idle" /\ cur' = NoPid /\ attached' = NoPid /\ outcome' = Outcome("nothing", 0)
          /\ UNCHANGED <<procs, proc, call, ret, newborn, traced, lost, faulted>>
        BY <1>6 DEF Return, kernelVars
    <2>2. proc[cur] # "zombie"
        BY <1>6 DEF Alive
    <2>3. Types'
        BY <2>1 DEF IInv, Types, TypeOK, Outcome
    <2>4. TracedExact' /\ EntriesTraced' /\ RunsOnlyTracked'
        BY <2>1 DEF IInv, TracedExact, EntriesTraced, RunsOnlyTracked
    <2>5. HandlerKnows' /\ ChildKnown'
        BY <1>1, <2>1 DEF IInv, HandlerKnows, ChildKnown, Working, WithChild
    <2>6. StoppedKnown'
        BY <1>1, <2>1, <2>2 DEF IInv, StoppedKnown, WithChild
    <2> QED
        BY <2>3, <2>4, <2>5, <2>6 DEF IInv
<1>7. CASE GivesUp
    BY <1>1, <1>7, GivesUpIInv
<1> QED
    BY <1>3, <1>4, <1>5, <1>6, <1>7 DEF poll

(* decide: the flags choose between rejection and execution.                *)
LEMMA DecideIInv ==
    ASSUME IInv, decide
    PROVE  IInv'
<1>1. pc = "decide" /\ pc # "idle" /\ attached = NoPid /\ cur \in traced
      /\ \A q \in Pids : proc[q] \notin InCall
    BY NoneInCall DEF decide, IInv, HandlerKnows, ChildKnown, Working, WithChild
<1>2. /\ cur \in procs /\ cur \in Pids /\ cur # NoPid /\ procs \subseteq Pids
      /\ proc \in [Pids -> Alive \cup {"free", "zombie"}]
    BY <1>1, CurFacts
<1>3. CASE /\ proc[cur] = "stopped"
           /\ \/ Become(cur, "skipped") /\ pc' = "reject"
              \/ Become(cur, "syscall") /\ pc' = "await"
           /\ UNCHANGED <<procs, cur, attached, blocking, outcome, call, ret, newborn,
                          traced, signals, lost, faulted>>
    <2>1. PICK s \in {"skipped", "syscall"} :
             /\ proc' = [proc EXCEPT ![cur] = s]
             /\ \/ s = "skipped" /\ pc' = "reject"
                \/ s = "syscall" /\ pc' = "await"
        <3>1. CASE Become(cur, "skipped") /\ pc' = "reject"
            BY <3>1 DEF Become
        <3>2. CASE Become(cur, "syscall") /\ pc' = "await"
            BY <3>2 DEF Become
        <3> QED
            BY <1>3, <3>1, <3>2
    <2>2. \A q \in Pids : proc'[q] = IF q = cur THEN s ELSE proc[q]
        BY <1>2, <2>1
    <2>3. Types'
        BY <1>2, <1>3, <2>1 DEF IInv, Types, TypeOK, Alive, Working
    <2>4. TracedExact' /\ EntriesTraced' /\ RunsOnlyTracked'
        BY <1>1, <1>2, <1>3, <2>2 DEF IInv, TracedExact, EntriesTraced, RunsOnlyTracked, Types, TypeOK
    <2>5. HandlerKnows' /\ ChildKnown'
        BY <1>1, <1>2, <1>3, <2>1, <2>2
        DEF IInv, HandlerKnows, ChildKnown, Working, WithChild, InCall
    <2>6. StoppedKnown'
        BY <1>1, <1>2, <1>3, <2>1, <2>2, PidsAssumption DEF IInv, StoppedKnown, WithChild
    <2> QED
        BY <2>3, <2>4, <2>5, <2>6 DEF IInv
<1>4. CASE GivesUp
    BY <1>1, <1>4, GivesUpIInv
<1> QED
    BY <1>3, <1>4 DEF decide

(* What a refusal or a failed call returns is an errno.                     *)
LEMMA FlagsNat == \A k : process_creation_flags(k) \in Nat
BY DEF process_creation_flags, EINVAL, EFAULT, ENOTSUP

(* The handler lets the process go on after a call that created nobody.     *)
LEMMA LetGoIInv ==
    ASSUME IInv, pc \in {"reject", "await"}, proc[cur] = "exit", attached = NoPid,
           NEW s \in {"run", "sigstop"}, Become(cur, s),
           NEW o, o.value \in Nat, Return(o),
           call' \in [Pids -> CallKinds \cup {"none"}], ret' \in [Pids -> Int],
           newborn' \in [Pids -> Pids \cup {NoPid}],
           \A q \in Pids : ret'[q] > 0 => ret'[q] \in Pids,
           UNCHANGED <<procs, traced, lost, faulted>>
    PROVE  IInv'
<1>1. /\ cur \in procs /\ cur \in Pids /\ cur # NoPid /\ procs \subseteq Pids
      /\ proc \in [Pids -> Alive \cup {"free", "zombie"}] /\ cur \in traced
    BY CurFacts DEF IInv, HandlerKnows, Working
<1>2. /\ pc' = "idle" /\ cur' = NoPid /\ attached' = NoPid /\ outcome' = o
      /\ proc' = [proc EXCEPT ![cur] = s]
    BY DEF Return, Become
<1>3. \A q \in Pids : proc'[q] = IF q = cur THEN s ELSE proc[q]
    BY <1>1, <1>2
<1>4. Types'
    BY <1>1, <1>2 DEF IInv, Types, TypeOK, Alive
<1>5. TracedExact' /\ EntriesTraced' /\ RunsOnlyTracked'
    BY <1>1, <1>3 DEF IInv, TracedExact, EntriesTraced, RunsOnlyTracked, Types, TypeOK
<1>6. \A q \in Pids : proc'[q] \notin InCall
    BY <1>3 DEF IInv, HandlerKnows, InCall
<1>7. HandlerKnows' /\ ChildKnown'
    BY <1>2, <1>6 DEF HandlerKnows, ChildKnown, Working, WithChild, InCall
<1>8. StoppedKnown'
    BY <1>1, <1>2, <1>3, PidsAssumption DEF IInv, StoppedKnown, WithChild
<1> QED
    BY <1>4, <1>5, <1>7, <1>8 DEF IInv

(* The end of a call keeps the types of the call tables.                    *)
LEMMA CallOverTypes ==
    ASSUME IInv, NEW p \in Pids, CallOver(p)
    PROVE  /\ call' \in [Pids -> CallKinds \cup {"none"}] /\ ret' \in [Pids -> Int]
           /\ newborn' \in [Pids -> Pids \cup {NoPid}]
           /\ \A q \in Pids : ret'[q] > 0 => ret'[q] \in Pids
           /\ \A q \in Pids : q # p => newborn'[q] = newborn[q]
BY DEF IInv, Types, TypeOK, ChildKnown, CallOver

(* reject: the call is skipped, no child comes of it.                       *)
LEMMA RejectIInv ==
    ASSUME IInv, reject
    PROVE  IInv'
<1>1. pc = "reject" /\ attached = NoPid /\ cur \in Pids
    BY CurFacts DEF reject, IInv, ChildKnown, WithChild
<1>2. CASE /\ proc[cur] = "exit" /\ Become(cur, "run") /\ CallOver(cur)
           /\ Return(Outcome("rejected", process_creation_flags(call[cur])))
           /\ UNCHANGED <<procs, traced, signals, lost, faulted>>
    <2>1. Outcome("rejected", process_creation_flags(call[cur])).value \in Nat
        BY FlagsNat DEF Outcome
    <2> QED
        BY <1>1, <1>2, <2>1, CallOverTypes, LetGoIInv
<1>3. CASE Killed
    BY <1>1, <1>3, KilledIInv
<1> QED
    BY <1>2, <1>3 DEF reject

(* await: the call ended, restarted, or its process died.                   *)
LEMMA AwaitIInv ==
    ASSUME IInv, await
    PROVE  IInv'
<1>1. pc = "await" /\ pc # "idle" /\ cur \in traced
    BY DEF await, IInv, HandlerKnows, Working
<1>2. /\ cur \in procs /\ cur \in Pids /\ cur # NoPid /\ procs \subseteq Pids
      /\ attached \in Pids \cup {NoPid} /\ proc \in [Pids -> Alive \cup {"free", "zombie"}]
    BY <1>1, CurFacts
<1>3. CASE /\ proc[cur] = "event" /\ Become(cur, "stopped")
           /\ attached' = newborn[cur] /\ pc' = "await_child"
           /\ UNCHANGED <<procs, cur, blocking, outcome, call, ret, newborn, traced,
                          signals, lost, faulted>>
    <2>1. /\ newborn[cur] \in Pids /\ newborn[cur] \in traced /\ newborn[cur] # cur
          /\ newborn[cur] # NoPid /\ attached = NoPid
        BY <1>1, <1>2, <1>3, PidsAssumption DEF IInv, ChildKnown
    <2>2. \A q \in Pids : proc'[q] = IF q = cur THEN "stopped" ELSE proc[q]
        BY <1>2, <1>3 DEF Become
    <2>3. \A q \in Pids : proc'[q] \notin InCall
        BY <2>2 DEF IInv, HandlerKnows, InCall
    <2>4. Types'
        BY <1>2, <1>3, <2>1 DEF IInv, Types, TypeOK, Become, Alive, Working
    <2>5. TracedExact' /\ EntriesTraced' /\ RunsOnlyTracked'
        BY <1>1, <1>2, <1>3, <2>2 DEF IInv, TracedExact, EntriesTraced, RunsOnlyTracked, Types, TypeOK
    <2>6. HandlerKnows'
        BY <1>1, <1>2, <1>3, <2>2, <2>3 DEF IInv, HandlerKnows, Working, WithChild
    <2>7. ChildKnown'
        BY <1>2, <1>3, <2>1, <2>3 DEF IInv, ChildKnown, WithChild, InCall
    <2>8. StoppedKnown'
        BY <1>1, <1>2, <1>3, <2>1, <2>2, PidsAssumption DEF IInv, StoppedKnown, WithChild
    <2> QED
        BY <2>4, <2>5, <2>6, <2>7, <2>8 DEF IInv
<1>4. CASE await_failed
    <2>1. /\ proc[cur] = "exit" /\ ret[cur] < 0 /\ attached = NoPid
          /\ EndCall(cur) /\ Become(cur, Resumed(cur)) /\ Return(Outcome("failed", -ret[cur]))
          /\ UNCHANGED <<procs, traced, signals, lost, faulted>>
        BY <1>4 DEF await_failed
    <2>2. Resumed(cur) \in {"run", "sigstop"}
        BY DEF Resumed
    <2>3. Outcome("failed", -ret[cur]).value \in Nat
        BY <1>2, <2>1 DEF IInv, Types, Outcome
    <2>4. /\ call' \in [Pids -> CallKinds \cup {"none"}] /\ ret' \in [Pids -> Int]
          /\ newborn' \in [Pids -> Pids \cup {NoPid}]
          /\ \A q \in Pids : ret'[q] > 0 => ret'[q] \in Pids
        BY <1>2, <2>1, CallOverTypes DEF EndCall, IInv, Types, TypeOK, ChildKnown
    <2> QED
        BY <1>1, <2>1, <2>2, <2>3, <2>4, LetGoIInv
<1>5. CASE /\ proc[cur] = "exit" /\ ret[cur] > 0 /\ ret[cur] = attached
           /\ Become(cur, "stopped") /\ pc' = "register"
           /\ UNCHANGED <<procs, cur, attached, blocking, outcome, call, ret, newborn,
                          traced, signals, lost, faulted>>
    <2>1. attached \in Pids /\ attached # NoPid /\ attached \in traced /\ attached # cur
        BY <1>2, <1>5, PidsAssumption DEF IInv, ChildKnown
    <2>2. \A q \in Pids : proc'[q] = IF q = cur THEN "stopped" ELSE proc[q]
        BY <1>2, <1>5 DEF Become
    <2>3. \A q \in Pids : proc'[q] \notin InCall
        BY <2>2 DEF IInv, HandlerKnows, InCall
    <2>4. Types'
        BY <1>2, <1>5 DEF IInv, Types, TypeOK, Become, Alive, Working
    <2>5. TracedExact' /\ EntriesTraced' /\ RunsOnlyTracked'
        BY <1>1, <1>2, <1>5, <2>2 DEF IInv, TracedExact, EntriesTraced, RunsOnlyTracked, Types, TypeOK
    <2>6. HandlerKnows'
        BY <1>1, <1>2, <1>5, <2>2, <2>3 DEF IInv, HandlerKnows, Working, WithChild
    <2>7. ChildKnown'
        BY <1>5, <2>1, <2>3 DEF IInv, ChildKnown, WithChild, InCall
    <2>8. StoppedKnown'
        BY <1>1, <1>2, <1>5, <2>1, <2>2 DEF IInv, StoppedKnown, WithChild
    <2> QED
        BY <2>4, <2>5, <2>6, <2>7, <2>8 DEF IInv
<1>6. CASE /\ proc[cur] = "exit" /\ Become(cur, "stopped")
           /\ Fault(Outcome("mismatch", 0))
           /\ UNCHANGED <<procs, call, ret, newborn, traced, signals, lost>>
    <2>1. /\ pc' = "idle" /\ cur' = NoPid /\ attached' = NoPid /\ faulted' = TRUE
          /\ outcome' = Outcome("mismatch", 0) /\ proc' = [proc EXCEPT ![cur] = "stopped"]
        BY <1>6 DEF Fault, Return, Become
    <2>2. \A q \in Pids : proc'[q] = IF q = cur THEN "stopped" ELSE proc[q]
        BY <1>2, <2>1
    <2>3. \A q \in Pids : proc'[q] \notin InCall
        BY <2>2 DEF IInv, HandlerKnows, InCall
    <2>4. Types'
        BY <1>2, <1>6, <2>1 DEF IInv, Types, TypeOK, Outcome, Alive
    <2>5. TracedExact' /\ EntriesTraced' /\ RunsOnlyTracked'
        BY <1>1, <1>2, <1>6, <2>2 DEF IInv, TracedExact, EntriesTraced, RunsOnlyTracked, Types, TypeOK
    <2>6. HandlerKnows' /\ ChildKnown'
        BY <1>6, <2>1, <2>3 DEF IInv, HandlerKnows, ChildKnown, Working, WithChild, InCall
    <2>7. StoppedKnown'
        BY <2>1 DEF StoppedKnown
    <2> QED
        BY <2>4, <2>5, <2>6, <2>7 DEF IInv
<1>7. CASE Killed
    BY <1>1, <1>7, KilledIInv
<1> QED
    BY <1>3, <1>4, <1>5, <1>6, <1>7 DEF await

(* What holds while a child is attached to.                                 *)
LEMMA ChildFacts ==
    ASSUME IInv, pc \in WithChild
    PROVE  /\ attached \in Pids /\ attached \in traced /\ attached # cur /\ attached # NoPid
           /\ cur \in procs /\ cur \in Pids /\ cur \in traced /\ cur # NoPid /\ procs \subseteq Pids
           /\ proc[cur] \in {"stopped", "zombie"} /\ pc # "idle"
           /\ proc \in [Pids -> Alive \cup {"free", "zombie"}]
           /\ \A q \in Pids : proc[q] \notin InCall
BY CurFacts, NoneInCall DEF IInv, HandlerKnows, ChildKnown, WithChild, Working

(* await_child: the child is in its attach stop, or dead.                   *)
LEMMA AwaitChildIInv ==
    ASSUME IInv, await_child
    PROVE  IInv'
<1>1. pc = "await_child" /\ pc \in WithChild
    BY DEF await_child, WithChild
<1>2. /\ attached \in Pids /\ attached \in traced /\ attached # cur /\ attached # NoPid
      /\ cur \in procs /\ cur \in Pids /\ cur \in traced /\ cur # NoPid /\ procs \subseteq Pids
      /\ pc # "idle"
      /\ proc \in [Pids -> Alive \cup {"free", "zombie"}]
      /\ \A q \in Pids : proc[q] \notin InCall
    BY <1>1, ChildFacts
<1>3. CASE /\ proc[attached] = "attach" /\ proc[cur] = "stopped"
           /\ proc' = [proc EXCEPT ![attached] = "stopped", ![cur] = "released"]
           /\ pc' = "await"
           /\ UNCHANGED <<procs, cur, attached, blocking, outcome, call, ret, newborn,
                          traced, signals, lost, faulted>>
    <2>1. \A q \in Pids : proc'[q] = IF q = cur THEN "released"
                                     ELSE IF q = attached THEN "stopped" ELSE proc[q]
        BY <1>2, <1>3
    <2>2. Types'
        BY <1>2, <1>3 DEF IInv, Types, TypeOK, Alive, Working
    <2>3. TracedExact' /\ EntriesTraced' /\ RunsOnlyTracked'
        BY <1>2, <1>3, <2>1 DEF IInv, TracedExact, EntriesTraced, RunsOnlyTracked, Types, TypeOK
    <2>4. HandlerKnows'
        BY <1>1, <1>2, <1>3, <2>1 DEF IInv, HandlerKnows, Working, WithChild, InCall
    <2>5. ChildKnown'
        BY <1>1, <1>2, <1>3, <2>1 DEF IInv, ChildKnown, WithChild, InCall
    <2>6. StoppedKnown'
        BY <1>1, <1>2, <1>3, <2>1 DEF IInv, StoppedKnown, WithChild
    <2> QED
        BY <2>2, <2>3, <2>4, <2>5, <2>6 DEF IInv
<1>4. CASE /\ proc[attached] = "attach" /\ proc[cur] = "zombie"
           /\ Become(attached, "stopped") /\ Fault(Outcome("io", 0))
           /\ UNCHANGED <<procs, call, ret, newborn, traced, signals, lost>>
    <2>1. /\ pc' = "idle" /\ cur' = NoPid /\ attached' = NoPid /\ faulted' = TRUE
          /\ outcome' = Outcome("io", 0) /\ proc' = [proc EXCEPT ![attached] = "stopped"]
        BY <1>4 DEF Fault, Return, Become
    <2>2. \A q \in Pids : proc'[q] = IF q = attached THEN "stopped" ELSE proc[q]
        BY <1>2, <2>1
    <2>3. \A q \in Pids : proc'[q] \notin InCall
        BY <1>2, <2>2 DEF InCall
    <2>4. Types'
        BY <1>2, <1>4, <2>1 DEF IInv, Types, TypeOK, Outcome, Alive
    <2>5. TracedExact' /\ EntriesTraced' /\ RunsOnlyTracked'
        BY <1>2, <1>4, <2>2 DEF IInv, TracedExact, EntriesTraced, RunsOnlyTracked, Types, TypeOK
    <2>6. HandlerKnows' /\ ChildKnown'
        BY <1>4, <2>1, <2>3 DEF IInv, HandlerKnows, ChildKnown, Working, WithChild, InCall
    <2>7. StoppedKnown'
        BY <2>1 DEF StoppedKnown
    <2> QED
        BY <2>4, <2>5, <2>6, <2>7 DEF IInv
<1>5. CASE proc[attached] = "zombie" /\ ExitConsumed(attached)
    BY <1>2, <1>5, ExitConsumedIInv
<1>6. CASE GivesUp
    BY <1>2, <1>6, GivesUpIInv
<1> QED
    BY <1>3, <1>4, <1>5, <1>6 DEF await_child

(* register: the child has its entry before it runs.                        *)
LEMMA RegisterIInv ==
    ASSUME IInv, register
    PROVE  IInv'
<1>1. /\ pc = "register" /\ pc \in WithChild /\ pc' \in {"resume", "resume_occupied"}
      /\ procs' = procs \cup {attached}
      /\ UNCHANGED <<cur, attached, outcome, proc, call, ret, newborn, traced, lost, faulted>>
    BY DEF register, WithChild, kernelVars
<1>2. /\ attached \in Pids /\ attached \in traced /\ attached # cur /\ attached # NoPid
      /\ cur \in procs /\ cur \in Pids /\ cur \in traced /\ cur # NoPid
      /\ proc[cur] \in {"stopped", "zombie"}
      /\ \A q \in Pids : proc[q] \notin InCall
    BY <1>1, ChildFacts
<1>3. Types'
    BY <1>1, <1>2 DEF IInv, Types, TypeOK, Working
<1>4. TracedExact' /\ EntriesTraced' /\ RunsOnlyTracked'
    BY <1>1, <1>2 DEF IInv, TracedExact, EntriesTraced, RunsOnlyTracked
<1>5. HandlerKnows' /\ ChildKnown'
    BY <1>1, <1>2 DEF IInv, HandlerKnows, ChildKnown, Working, WithChild, InCall
<1>6. StoppedKnown'
    BY <1>1, <1>2 DEF IInv, StoppedKnown, WithChild
<1> QED
    BY <1>3, <1>4, <1>5, <1>6 DEF IInv

(* resume_fork: parent and child go on.                                     *)
LEMMA ResumeForkIInv ==
    ASSUME IInv, resume_fork
    PROVE  IInv'
<1>1. /\ pc \in {"resume", "resume_occupied"} /\ pc \in WithChild
      /\ proc' = [p \in Pids |->
                    IF p \in {cur, attached} /\ proc[p] = "stopped" THEN "run" ELSE proc[p]]
      /\ CallOver(cur) /\ UNCHANGED <<procs, traced, lost>>
    BY DEF resume_fork, WithChild
<1>2. /\ attached \in Pids /\ attached \in traced /\ attached # cur /\ attached # NoPid
      /\ cur \in procs /\ cur \in Pids /\ cur \in traced /\ cur # NoPid /\ procs \subseteq Pids
      /\ proc \in [Pids -> Alive \cup {"free", "zombie"}]
      /\ \A q \in Pids : proc[q] \notin InCall
    BY <1>1, ChildFacts
<1>3. attached \in procs
    BY <1>1 DEF IInv, ChildKnown
<1>4. /\ pc' = "idle" /\ cur' = NoPid /\ attached' = NoPid /\ outcome'.value \in Nat
      /\ faulted' \in BOOLEAN
      /\ \/ faulted' = TRUE
         \/ proc[cur] = "stopped" /\ proc[attached] = "stopped" /\ faulted' = faulted
    <2>1. attached \in Nat
        BY <1>2, PidsAssumption
    <2>2. /\ Outcome("already_tracked", 0).value \in Nat /\ Outcome("io", 0).value \in Nat
          /\ Outcome("created", attached).value \in Nat
        BY <2>1 DEF Outcome
    <2>3. faulted \in BOOLEAN
        BY DEF IInv, Types
    <2>4. CASE Fault(Outcome("already_tracked", 0))
        BY <2>2, <2>4 DEF Fault, Return
    <2>5. CASE Fault(Outcome("io", 0))
        BY <2>2, <2>5 DEF Fault, Return
    <2>6. CASE /\ proc[cur] = "stopped" /\ proc[attached] = "stopped"
               /\ Return(Outcome("created", attached)) /\ UNCHANGED faulted
        BY <2>2, <2>3, <2>6 DEF Return
    <2> QED
        BY <2>4, <2>5, <2>6 DEF resume_fork
<1>5. /\ call' \in [Pids -> CallKinds \cup {"none"}] /\ ret' \in [Pids -> Int]
      /\ newborn' \in [Pids -> Pids \cup {NoPid}]
      /\ \A q \in Pids : ret'[q] > 0 => ret'[q] \in Pids
    BY <1>1, <1>2, CallOverTypes
<1>6. \A q \in Pids : proc'[q] \notin InCall
    BY <1>1, <1>2 DEF InCall
<1>7. Types'
    BY <1>1, <1>2, <1>4, <1>5 DEF IInv, Types, TypeOK, Alive
<1>8. TracedExact' /\ EntriesTraced' /\ RunsOnlyTracked'
    BY <1>1, <1>2, <1>3 DEF IInv, TracedExact, EntriesTraced, RunsOnlyTracked, Types, TypeOK
<1>9. HandlerKnows' /\ ChildKnown'
    BY <1>4, <1>5, <1>6 DEF HandlerKnows, ChildKnown, Working, WithChild, InCall
<1>10. StoppedKnown'
    BY <1>1, <1>2, <1>4 DEF IInv, StoppedKnown, WithChild
<1> QED
    BY <1>7, <1>8, <1>9, <1>10 DEF IInv

(* reap_exited: the entry goes with the exit status, or with a stop that    *)
(* leaves its process neither running nor inside a call.                    *)
LEMMA ReapExitedIInv ==
    ASSUME IInv, NEW p \in Pids, reap_exited(p)
    PROVE  IInv'
<1>1. /\ pc = "idle" /\ procs' = procs \ {p} /\ lost' = lost \ {p}
      /\ UNCHANGED <<pc, cur, attached, outcome, call, ret, newborn, faulted>>
    BY DEF reap_exited
<1>2. /\ cur = NoPid /\ attached = NoPid /\ proc \in [Pids -> Alive \cup {"free", "zombie"}]
      /\ traced \subseteq Pids /\ \A q \in Pids : proc[q] \notin InCall
    BY <1>1, NoneInCall DEF IInv, HandlerKnows, ChildKnown, WithChild, Types, TypeOK
<1>3. PICK s \in {"free", "swallowed"} :
         /\ proc' = [proc EXCEPT ![p] = s]
         /\ \/ s = "free" /\ traced' = traced \ {p}
            \/ s = "swallowed" /\ p \in traced /\ traced' = traced
    BY DEF reap_exited, Freed, Become
<1>4. \A q \in Pids : proc'[q] = IF q = p THEN s ELSE proc[q]
    BY <1>2, <1>3
<1>5. Types'
    BY <1>1, <1>2, <1>3 DEF IInv, Types, TypeOK, Alive
<1>6. TracedExact' /\ EntriesTraced' /\ RunsOnlyTracked'
    BY <1>1, <1>2, <1>3, <1>4 DEF IInv, TracedExact, EntriesTraced, RunsOnlyTracked
<1>7. HandlerKnows' /\ ChildKnown'
    BY <1>1, <1>2, <1>3, <1>4 DEF IInv, HandlerKnows, ChildKnown, Working, WithChild, InCall
<1>8. StoppedKnown'
    BY <1>1, <1>2, <1>3, <1>4 DEF IInv, StoppedKnown, WithChild
<1> QED
    BY <1>5, <1>6, <1>7, <1>8 DEF IInv
----------------------------------------------------------------------------
(* What happens to a process between two calls of the handler *)

(* A process in user code makes a call or receives a signal.                *)
LEMMA ProgramIInv ==
    ASSUME IInv, NEW p \in Pids, program(p)
    PROVE  IInv'
<1>1. /\ proc[p] = "run" /\ p \in traced
      /\ UNCHANGED <<procs, pc, cur, attached, outcome, ret, newborn, traced, lost, faulted>>
    BY DEF program, supVars
<1>2. proc \in [Pids -> Alive \cup {"free", "zombie"}] /\ p \in procs
    BY <1>1 DEF IInv, Types, TypeOK, RunsOnlyTracked
<1>3. PICK s \in {"seccomp", "sigstop"} : proc' = [proc EXCEPT ![p] = s]
    BY DEF program, Become
<1>4. \A q \in Pids : proc'[q] = IF q = p THEN s ELSE proc[q]
    BY <1>2, <1>3
<1>5. call' \in [Pids -> CallKinds \cup {"none"}]
    BY PidsAssumption DEF program, IInv, Types, TypeOK
<1>6. Types'
    BY <1>1, <1>2, <1>3, <1>5 DEF IInv, Types, TypeOK, Alive
<1>7. TracedExact' /\ EntriesTraced' /\ RunsOnlyTracked'
    BY <1>1, <1>2, <1>4 DEF IInv, TracedExact, EntriesTraced, RunsOnlyTracked, Types, TypeOK
<1>11. pc # "idle" => cur \in Pids
    BY CurFacts
<1>8. HandlerKnows'
    BY <1>1, <1>4, <1>11 DEF IInv, HandlerKnows, Working, WithChild, InCall
<1>9. ChildKnown'
    BY <1>1, <1>4, <1>11 DEF IInv, ChildKnown, HandlerKnows, WithChild
<1>10. StoppedKnown'
    BY <1>1, <1>4 DEF IInv, StoppedKnown, HandlerKnows, Types, TypeOK
<1> QED
    BY <1>6, <1>7, <1>8, <1>9, <1>10 DEF IInv

(* A process exits or is killed, wherever the handler is.                   *)
LEMMA DiesIInv ==
    ASSUME IInv, NEW p \in Pids, dies(p)
    PROVE  IInv'
<1>1. /\ proc[p] \in Alive /\ proc[p] # "zombie" /\ CallOver(p)
      /\ UNCHANGED <<procs, pc, cur, attached, outcome, traced, lost, faulted>>
    BY DEF dies, supVars, Alive
<1>2. proc \in [Pids -> Alive \cup {"free", "zombie"}] /\ traced \subseteq Pids
    BY DEF IInv, Types, TypeOK
<1>3. /\ call' \in [Pids -> CallKinds \cup {"none"}] /\ ret' \in [Pids -> Int]
      /\ newborn' \in [Pids -> Pids \cup {NoPid}]
      /\ \A q \in Pids : ret'[q] > 0 => ret'[q] \in Pids
      /\ \A q \in Pids : q # p => newborn'[q] = newborn[q]
    BY <1>1, CallOverTypes
<1>4. PICK s \in {"zombie", "free"} :
         /\ proc' = [proc EXCEPT ![p] = s] /\ (p \in traced <=> s = "zombie")
    BY DEF dies, Become
<1>5. \A q \in Pids : proc'[q] = IF q = p THEN s ELSE proc[q]
    BY <1>2, <1>4
<1>6. Types'
    BY <1>1, <1>2, <1>3, <1>4 DEF IInv, Types, TypeOK
<1>7. TracedExact' /\ EntriesTraced' /\ RunsOnlyTracked'
    BY <1>1, <1>2, <1>4, <1>5 DEF IInv, TracedExact, EntriesTraced, RunsOnlyTracked
<1>8. HandlerKnows'
    BY <1>1, <1>4, <1>5 DEF IInv, HandlerKnows, Working, WithChild, InCall
<1>9. ChildKnown'
    <2>1. pc = "await_child" => cur \in Pids
        BY CurFacts
    <2> QED
        BY <1>1, <1>3, <1>4, <1>5, <2>1 DEF IInv, ChildKnown, HandlerKnows, Working, WithChild
<1>10. StoppedKnown'
    <2>1. pc # "idle" => cur \in Pids
        BY CurFacts
    <2>2. pc \in Working => cur \in traced
        BY DEF IInv, HandlerKnows
    <2>3. CASE pc # "idle" /\ p = cur /\ p \in traced
        BY <1>1, <1>4, <1>5, <2>1, <2>3 DEF StoppedKnown
    <2>4. CASE ~(pc # "idle" /\ p = cur /\ p \in traced)
        BY <1>1, <1>3, <1>4, <1>5, <2>1, <2>2, <2>4 DEF IInv, StoppedKnown, Working, WithChild
    <2> QED
        BY <2>3, <2>4
<1> QED
    BY <1>6, <1>7, <1>8, <1>9, <1>10 DEF IInv

(* A call that created nobody the handler traces reaches its exit stop.     *)
LEMMA ReturnsIInv ==
    ASSUME IInv, NEW p \in Pids, proc[p] \in {"syscall", "released", "skipped"},
           proc' = [proc EXCEPT ![p] = "exit"],
           NEW r, ret' = [ret EXCEPT ![p] = r], r \in Int, r > 0 => r \in Pids,
           UNCHANGED <<procs, pc, cur, attached, outcome, call, newborn, traced, lost, faulted>>
    PROVE  IInv'
<1>1. p = cur /\ pc \in {"await", "reject"}
    BY DEF IInv, HandlerKnows, InCall
<1>2. proc \in [Pids -> Alive \cup {"free", "zombie"}] /\ ret \in [Pids -> Int]
    BY DEF IInv, Types, TypeOK
<1>3. \A q \in Pids : proc'[q] = IF q = p THEN "exit" ELSE proc[q]
    BY <1>2
<1>4. \A q \in Pids : ret'[q] = IF q = p THEN r ELSE ret[q]
    BY <1>2
<1>5. Types'
    BY <1>2 DEF IInv, Types, TypeOK, Alive
<1>6. TracedExact' /\ EntriesTraced' /\ RunsOnlyTracked'
    BY <1>3 DEF IInv, TracedExact, EntriesTraced, RunsOnlyTracked, Types, TypeOK
<1>7. HandlerKnows'
    BY <1>1, <1>3 DEF IInv, HandlerKnows, Working, WithChild, InCall
<1>8. ChildKnown'
    BY <1>1, <1>3, <1>4 DEF IInv, ChildKnown, WithChild
<1>9. StoppedKnown'
    BY <1>1, <1>3 DEF IInv, StoppedKnown, WithChild
<1> QED
    BY <1>5, <1>6, <1>7, <1>8, <1>9 DEF IInv

(* The body of the call: a traced child, an untraced one, or none.          *)
LEMMA DoCallIInv ==
    ASSUME IInv, NEW p \in Pids, do_call(p)
    PROVE  IInv'
<1>1. /\ proc[p] = "syscall"
      /\ UNCHANGED <<procs, pc, cur, attached, outcome, call, lost, faulted>>
    BY DEF do_call, supVars
<1>2. /\ p = cur /\ pc = "await" /\ attached = NoPid /\ cur # NoPid /\ p \in traced
      /\ cur \in procs /\ \A q \in Pids : proc[q] \in InCall => q = p
    BY <1>1 DEF IInv, HandlerKnows, ChildKnown, InCall, Working
<1>8. \A q \in Pids : ret[q] > 0 => ret[q] \in Pids
    BY DEF IInv, ChildKnown
<1>3. /\ proc \in [Pids -> Alive \cup {"free", "zombie"}] /\ ret \in [Pids -> Int]
      /\ newborn \in [Pids -> Pids \cup {NoPid}] /\ traced \subseteq Pids
    BY DEF IInv, Types, TypeOK
<1>4. ASSUME NEW c \in Pids, proc[c] = "free",
             proc' = [proc EXCEPT ![p] = "event", ![c] = "attach"],
             newborn' = [newborn EXCEPT ![p] = c], traced' = traced \cup {c},
             UNCHANGED ret
      PROVE  IInv'
    <2>1. c # p /\ traced' = traced \cup {c} /\ UNCHANGED ret
        BY <1>1, <1>4
    <2>2. \A q \in Pids : proc'[q] = IF q = p THEN "event" ELSE IF q = c THEN "attach" ELSE proc[q]
        BY <1>3, <1>4, <2>1
    <2>3. \A q \in Pids : newborn'[q] = IF q = p THEN c ELSE newborn[q]
        BY <1>3, <1>4
    <2>4. Types'
        BY <1>1, <1>3, <1>4 DEF IInv, Types, TypeOK, Alive
    <2>5. TracedExact' /\ EntriesTraced' /\ RunsOnlyTracked'
        BY <1>1, <1>2, <1>3, <1>4, <2>2 DEF IInv, TracedExact, EntriesTraced, RunsOnlyTracked
    <2>6. HandlerKnows'
        BY <1>1, <1>2, <2>1, <2>2 DEF HandlerKnows, Working, WithChild, InCall
    <2>7. ChildKnown'
        BY <1>1, <1>2, <1>8, <2>1, <2>2, <2>3 DEF ChildKnown, WithChild, InCall
    <2>8. StoppedKnown'
        BY <1>1, <1>2, <2>1, <2>2, <2>3, PidsAssumption DEF IInv, StoppedKnown, WithChild
    <2> QED
        BY <2>4, <2>5, <2>6, <2>7, <2>8 DEF IInv
<1>5. ASSUME NEW c \in Pids, proc[c] = "free",
             proc' = [proc EXCEPT ![p] = "exit", ![c] = "run"],
             ret' = [ret EXCEPT ![p] = c], UNCHANGED <<newborn, traced>>
      PROVE  IInv'
    <2>1. c # p /\ c \notin traced /\ UNCHANGED <<newborn, traced>>
        BY <1>1, <1>5 DEF IInv, TracedExact
    <2>9. c \in Int
        BY PidsInt
    <2>2. \A q \in Pids : proc'[q] = IF q = p THEN "exit" ELSE IF q = c THEN "run" ELSE proc[q]
        BY <1>3, <1>5, <2>1
    <2>3. \A q \in Pids : ret'[q] = IF q = p THEN c ELSE ret[q]
        BY <1>3, <1>5
    <2>4. Types'
        BY <1>1, <1>3, <1>5, <2>9 DEF IInv, Types, TypeOK, Alive
    <2>5. TracedExact' /\ EntriesTraced' /\ RunsOnlyTracked'
        BY <1>1, <1>2, <1>3, <1>5, <2>1, <2>2 DEF IInv, TracedExact, EntriesTraced, RunsOnlyTracked
    <2>6. HandlerKnows'
        BY <1>1, <1>2, <2>1, <2>2 DEF HandlerKnows, Working, WithChild, InCall
    <2>7. ChildKnown'
        BY <1>1, <1>2, <1>8, <2>1, <2>2, <2>3 DEF ChildKnown, WithChild, InCall
    <2>8. StoppedKnown'
        BY <1>1, <1>2, <2>1, <2>2, PidsAssumption DEF IInv, StoppedKnown, WithChild
    <2> QED
        BY <2>4, <2>5, <2>6, <2>7, <2>8 DEF IInv
<1>6. CASE /\ Become(p, "exit") /\ ret' = [ret EXCEPT ![p] = -EAGAIN]
           /\ UNCHANGED <<newborn, traced>>
    <2>1. -EAGAIN \in Int /\ ~(-EAGAIN > 0)
        BY DEF EAGAIN
    <2> QED
        BY <1>1, <1>6, <2>1, ReturnsIInv DEF Become
<1>7. CASE /\ Become(p, "exit") /\ ret' = [ret EXCEPT ![p] = -ERESTARTNOINTR]
           /\ UNCHANGED <<newborn, traced>>
    <2>1. -ERESTARTNOINTR \in Int /\ ~(-ERESTARTNOINTR > 0)
        BY DEF ERESTARTNOINTR
    <2> QED
        BY <1>1, <1>7, <2>1, ReturnsIInv DEF Become
<1> QED
    BY <1>4, <1>5, <1>6, <1>7 DEF do_call

(* After its fork event the call returns the child.                         *)
LEMMA ReturnChildIInv ==
    ASSUME IInv, NEW p \in Pids, return_child(p)
    PROVE  IInv'
<1>1. /\ proc[p] = "released" /\ Become(p, "exit") /\ ret' = [ret EXCEPT ![p] = newborn[p]]
      /\ UNCHANGED <<procs, pc, cur, attached, outcome, call, newborn, traced, lost, faulted>>
    BY DEF return_child, supVars
<1>2. newborn[p] \in Pids
    BY <1>1 DEF IInv, ChildKnown
<1>3. newborn[p] \in Int
    BY <1>2, PidsInt
<1> QED
    BY <1>1, <1>2, <1>3, ReturnsIInv DEF Become

(* A skipped call returns what it had.                                      *)
LEMMA SkipCallIInv ==
    ASSUME IInv, NEW p \in Pids, skip_call(p)
    PROVE  IInv'
<1>1. /\ proc[p] = "skipped" /\ Become(p, "exit")
      /\ UNCHANGED <<procs, pc, cur, attached, outcome, call, ret, newborn, traced, lost, faulted>>
    BY DEF skip_call, supVars
<1>2. /\ ret' = [ret EXCEPT ![p] = ret[p]] /\ ret[p] \in Int /\ (ret[p] > 0 => ret[p] \in Pids)
    BY <1>1 DEF IInv, Types, ChildKnown
<1> QED
    BY <1>1, <1>2, ReturnsIInv DEF Become
----------------------------------------------------------------------------
(* The invariant is inductive: it holds in every reachable state.           *)
THEOREM Invariance == Spec => []IInv
<1>1. ASSUME IInv, [Next]_vars
      PROVE  IInv'
    <2>1. CASE Handler
        BY <1>1, <2>1, PollIInv, DecideIInv, RejectIInv, AwaitIInv, AwaitChildIInv, RegisterIInv,
           ResumeForkIInv
        DEF Handler
    <2>2. CASE \E p \in Pids : start(p) \/ reap_exited(p) \/ program(p) \/ dies(p) \/ Kernel(p)
        BY <1>1, <2>2, StartIInv, ReapExitedIInv, ProgramIInv, DiesIInv, DoCallIInv,
           ReturnChildIInv, SkipCallIInv
        DEF Kernel
    <2>3. CASE UNCHANGED vars
        <3>1. UNCHANGED <<procs, pc, cur, attached, outcome, proc, call, ret, newborn, traced,
                          lost, faulted>>
            BY <2>3 DEF vars, supVars, kernelVars
        <3>2. Types' /\ TracedExact' /\ EntriesTraced'
            BY <1>1, <3>1 DEF IInv, Types, TypeOK, TracedExact, EntriesTraced
        <3>3. HandlerKnows' /\ ChildKnown' /\ StoppedKnown' /\ RunsOnlyTracked'
            BY <1>1, <3>1 DEF IInv, HandlerKnows, ChildKnown, StoppedKnown, RunsOnlyTracked
        <3> QED
            BY <3>2, <3>3 DEF IInv
    <2> QED
        BY <1>1, <2>1, <2>2, <2>3 DEF Next
<1> QED
    BY <1>1, InitIInv, PTL DEF Spec

(* handle_process_creation_stop registers a child before it resumes it: no  *)
(* traced process runs code of the program without an entry.                *)
THEOREM RegisteredBeforeRunning == Spec => []RunsOnlyTracked
<1>1. IInv => RunsOnlyTracked
    BY DEF IInv
<1> QED
    BY <1>1, Invariance, PTL

(* reap_exited and the waits of the handler: no exit status is consumed     *)
(* without the entry being removed or the caller being told.                *)
THEOREM NoDeathUnnoticed == Spec => []StaleOnlyIfReported
<1>1. IInv => StaleOnlyIfReported
    BY DEF IInv, Types, TypeOK, TracedExact, EntriesTraced, StaleOnlyIfReported, Exists, Alive
<1> QED
    BY <1>1, Invariance, PTL

(* A call of handle_process_creation that returns without an error has let  *)
(* both the process and its child go, whatever was killed meanwhile and     *)
(* whatever stops reap_exited consumed before.                              *)
THEOREM BothGoOn == Spec => []NobodyLeftStopped
<1>1. ASSUME IInv, pc = "idle", ~faulted
      PROVE  \A p \in Pids : proc[p] \notin
                {"stopped", "syscall", "skipped", "event", "released", "exit", "attach"}
    <2>1. \A p \in Pids : proc[p] \notin InCall
        BY <1>1, NoneInCall
    <2>2. \A p \in Pids : proc[p] \notin {"stopped", "attach"}
        BY <1>1 DEF IInv, StoppedKnown, WithChild
    <2> QED
        BY <2>1, <2>2 DEF InCall
<1>2. IInv => NobodyLeftStopped
    BY <1>1 DEF NobodyLeftStopped
<1> QED
    BY <1>2, Invariance, PTL
=============================================================================
