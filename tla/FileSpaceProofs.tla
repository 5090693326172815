-------------------------- MODULE FileSpaceProofs --------------------------
(***************************************************************************)
(* Proofs about FileSpace.tla, for any number of processes, descriptors    *)
(* and mock files, any base of the mock range, any number of calls and     *)
(* signals.                                                                *)
(***************************************************************************)
EXTENDS FileSpace, WellFoundedInduction, TLAPS

Files == [Fds -> Int]

Ops == {"none", "open", "close", "use", "fork", "vfork", "untraced"}

Request == [proc : Procs, op : Ops, fd : Fds, want : Int, answer : Int,
            live : BOOLEAN, snapshot : Files, child : Procs]

CallType == [op : Ops, fd : Fds,
             at : {"none", "pending", "received", "continued", "stopped", "halted", "held"}]

Places == {"idle", "dispatch", "respond_real", "respond_mock", "respond", "errno",
           "creation", "born"}

Types ==
    /\ kind \in Kinds
    /\ files \in [Procs -> Files] /\ kfd \in [Procs -> Files]
    /\ procs \subseteq Procs /\ alive \subseteq Procs
    /\ pc \in Places
    /\ req \in Request
    /\ call \in [Procs -> CallType]

(* A request that is live is the call its process is in.                    *)
RequestTrue ==
    /\ req.live => pc # "idle" /\ req.proc \in alive
    /\ req.live /\ pc \notin {"creation", "born"} =>
          /\ call[req.proc].at = "received"
          /\ call[req.proc].op = req.op /\ call[req.proc].fd = req.fd
    /\ req.live /\ pc \in {"creation", "born"} => call[req.proc].at = "held"
    /\ req.live /\ pc = "creation" => req.proc \in procs /\ req.snapshot = files[req.proc]

(* A newborn child is stopped, and the copied file space fits the copied    *)
(* descriptors.                                                             *)
ChildTrue ==
    pc = "born" /\ req.child \in alive =>
        /\ call[req.child].at = "halted"
        /\ kind = "mapped" /\ req.child \notin stale => \A fd \in Fds :
              /\ req.snapshot[fd] # NoFile => kfd[req.child][fd] = req.snapshot[fd]
              /\ kfd[req.child][fd] \in Nat => req.snapshot[fd] = kfd[req.child][fd]

(* The file the handler is about to install, or has installed.              *)
InstallTrue ==
    /\ pc = "respond_real" => req.want = Real
    /\ pc = "respond_mock" => req.want \in Nat
    /\ pc = "respond" /\ req.live => req.answer \in Fds /\ kfd[req.proc][req.answer] = req.want

DeadQuiet == \A p \in Procs \ alive : call[p].at = "none"

Closing(p, fd) == call[p].at = "continued" /\ call[p].op = "close" /\ call[p].fd = fd

(* The record goes before the descriptor does.                              *)
ClosingForgotten ==
    kind = "mapped" => \A p \in Procs : \A fd \in Fds : Closing(p, fd) => files[p][fd] = NoFile

(* A record is a descriptor that is open.                                   *)
Recorded ==
    kind = "mapped" => \A p \in (alive \cap procs) \ stale : \A fd \in Fds :
        files[p][fd] # NoFile => kfd[p][fd] = files[p][fd]

(* A mock file has its record, or its number, except while it is closed.    *)
MockPlaced ==
    \A p \in alive : \A fd \in Fds : kfd[p][fd] \in Nat =>
        IF kind = "mapped"
        THEN p \in procs \ stale => files[p][fd] = kfd[p][fd] \/ Closing(p, fd)
        ELSE fd = MOCK_FD_BASE + kfd[p][fd]

(* The inductive invariant.                                                 *)
IInv ==
    /\ Types /\ RequestTrue /\ InstallTrue /\ ChildTrue /\ DeadQuiet
    /\ ClosingForgotten /\ Recorded /\ MockPlaced
    /\ AnswersTrue
----------------------------------------------------------------------------
(* A set of numbers that is not empty has a least one.                      *)
LEMMA LeastNumber ==
    ASSUME NEW T, T \subseteq Nat, T # {}
    PROVE  \E n \in T : \A m \in T : n <= m
<1> DEFINE Less == OpToRel(<, Nat)
<1>1. IsWellFoundedOn(Less, Nat)
    BY NatLessThanWellFounded
<1>2. \A m, n \in Nat : <<m, n>> \in Less <=> m < n
    BY DEF OpToRel
<1> HIDE DEF Less
<1>3. PICK n \in T : \A m \in T : ~(<<m, n>> \in Less)
    BY <1>1, WFMin
<1>4. ASSUME NEW m \in T PROVE n <= m
    <2>1. m \in Nat /\ n \in Nat
        OBVIOUS
    <2>2. ~(<<m, n>> \in Less)
        BY <1>3
    <2>3. ~(m < n)
        BY <1>2, <2>1, <2>2
    <2> QED
        BY <2>1, <2>3
<1> QED
    BY <1>4

(* Constants *)

(* Descriptors are numbers, and there is one.                               *)
LEMMA FdsFacts == 0 \in Fds /\ Fds \subseteq Nat
BY FileSpaceAssumption DEF Fds

(* A file space is of one of two kinds; mock files have numbers.            *)
LEMMA KindFacts ==
    ASSUME IInv
    PROVE  kind \in {"range", "mapped"} /\ Mocks[kind] \subseteq Nat
BY FileSpaceAssumption DEF IInv, Types

(* An empty table of descriptors.                                           *)
LEMMA NothingFacts == Nothing \in Files /\ \A fd \in Fds : Nothing[fd] = NoFile
BY DEF Nothing, Files, NoFile

(* A process that makes no intercepted call.                                *)
LEMMA NoCallFacts == NoCall \in CallType /\ NoCall.at = "none"
BY FdsFacts DEF NoCall, CallType, Ops

(* A handler that works on no request.                                      *)
LEMMA NoReqFacts == NoReq \in Request /\ NoReq.live = FALSE
<1>1. [fd \in Fds |-> NoFile] \in Files /\ NoFile \in Int /\ 0 \in Int
    BY DEF Files, NoFile
<1> QED
    BY <1>1, FdsFacts, FileSpaceAssumption DEF NoReq, Request, Ops

(* What the invariant says of the tables.                                   *)
LEMMA TableFacts ==
    ASSUME IInv
    PROVE  /\ files \in [Procs -> Files] /\ kfd \in [Procs -> Files] /\ call \in [Procs -> CallType]
           /\ req \in Request /\ procs \subseteq Procs /\ alive \subseteq Procs
           /\ req.proc \in Procs /\ req.child \in Procs /\ misled = {}
BY DEF IInv, Types, Request, AnswersTrue
----------------------------------------------------------------------------
(* At the start one process has a standard stream and no mock file.         *)
LEMMA InitIInv == Init => IInv
<1> SUFFICES ASSUME Init PROVE IInv
    OBVIOUS
<1>1. /\ kind \in Kinds /\ files = [p \in Procs |-> Nothing] /\ procs = {FirstProc}
      /\ pc = "idle" /\ req = NoReq /\ alive = {FirstProc} /\ stale = {}
      /\ kfd = [p \in Procs |-> IF p = FirstProc THEN [Nothing EXCEPT ![0] = Real] ELSE Nothing]
      /\ call = [p \in Procs |-> NoCall] /\ misled = {} /\ FirstProc \in Procs
    BY FileSpaceAssumption DEF Init
<1>2. [Nothing EXCEPT ![0] = Real] \in Files
    BY NothingFacts, FdsFacts DEF Files, Real
<1>3. \A fd \in Fds : [Nothing EXCEPT ![0] = Real][fd] \notin Nat
    BY NothingFacts, FdsFacts DEF Files, Real, NoFile
<1>4. Types
    BY <1>1, <1>2, NothingFacts, NoReqFacts, NoCallFacts DEF Types, Places
<1>5. RequestTrue /\ InstallTrue /\ ChildTrue /\ DeadQuiet /\ AnswersTrue
    BY <1>1, NoReqFacts, NoCallFacts DEF RequestTrue, InstallTrue, ChildTrue, DeadQuiet, AnswersTrue
<1>6. ClosingForgotten /\ Recorded
    BY <1>1, NothingFacts DEF ClosingForgotten, Recorded
<1>7. MockPlaced
    <2>1. \A fd \in Fds : kfd[FirstProc][fd] \notin Nat
        BY <1>1, <1>3
    <2> QED
        BY <1>1, <2>1 DEF MockPlaced
<1> QED
    BY <1>4, <1>5, <1>6, <1>7 DEF IInv
----------------------------------------------------------------------------
(* The program *)

(* A process makes an intercepted call.                                     *)
LEMMA NewCallIInv ==
    ASSUME IInv, NEW p \in Procs, Lives(p), NEW c \in CallType, c.at \in {"pending", "stopped"},
           call' = [call EXCEPT ![p] = c],
           UNCHANGED <<kind, files, procs, pc, req, alive, stale, kfd, misled>>
    PROVE  IInv'
<1>1. call \in [Procs -> CallType] /\ p \in alive /\ call[p].at = "none" /\ req.proc \in Procs
    BY TableFacts, NoCallFacts DEF Lives
<1>2. \A q \in Procs : call'[q] = IF q = p THEN c ELSE call[q]
    BY <1>1
<1>3. \A q \in Procs, fd \in Fds : Closing(q, fd)' <=> Closing(q, fd)
    BY <1>1, <1>2 DEF Closing
<1>4. Types'
    BY <1>1 DEF IInv, Types
<1>5. RequestTrue'
    BY <1>1, <1>2 DEF IInv, RequestTrue
<1>6. InstallTrue' /\ ChildTrue' /\ DeadQuiet'
    BY <1>1, <1>2, TableFacts DEF IInv, InstallTrue, ChildTrue, DeadQuiet
<1>7. ClosingForgotten' /\ Recorded' /\ MockPlaced'
    BY <1>3, TableFacts DEF IInv, ClosingForgotten, Recorded, MockPlaced
<1> QED
    BY <1>4, <1>5, <1>6, <1>7 DEF IInv, AnswersTrue

(* A call is withdrawn by a signal.                                         *)
LEMMA InterruptIInv ==
    ASSUME IInv, NEW p \in Procs, interrupt(p)
    PROVE  IInv'
<1>1. /\ call[p].at \in {"none", "pending", "received"} /\ p \in alive /\ Withdrawn(p)
      /\ UNCHANGED <<kind, files, procs, pc, alive, stale, kfd, misled>>
    BY DEF interrupt, procVars
<1>2. /\ call \in [Procs -> CallType] /\ call[p] \in CallType /\ req \in Request
      /\ req.proc \in Procs /\ req.child \in Procs
    BY TableFacts
<1>3. PICK c \in CallType : /\ c.at \in {"none", "pending", "halted"}
                           /\ call' = [call EXCEPT ![p] = c]
    <2> DEFINE again == [call[p] EXCEPT !.at = IF @ = "none" THEN "none" ELSE "pending"]
    <2>1. again \in CallType /\ again.at \in {"none", "pending"}
        BY <1>2 DEF CallType
    <2> HIDE DEF again
    <2>2. PICK c \in {NoCall, again} :
             call' = [call EXCEPT ![p] = IF p \in untraced THEN c ELSE Halted(c)]
        BY DEF interrupt, again
    <2>3. c \in CallType /\ c.at \in {"none", "pending"}
        BY <2>1, NoCallFacts
    <2>4. Halted(c) \in CallType /\ Halted(c).at = "halted"
        BY <2>3 DEF Halted, CallType
    <2> QED
        BY <2>2, <2>3, <2>4
<1>4. \A q \in Procs : call'[q] = IF q = p THEN c ELSE call[q]
    BY <1>2, <1>3
<1>5. /\ req' \in Request /\ req'.proc = req.proc /\ req'.op = req.op /\ req'.fd = req.fd
      /\ req'.want = req.want /\ req'.answer = req.answer /\ req'.snapshot = req.snapshot
      /\ req'.child = req.child
      /\ req'.live => req.live /\ req.proc # p
    BY <1>1, <1>2 DEF Withdrawn, Request
<1>6. \A q \in Procs, fd \in Fds : Closing(q, fd)' <=> Closing(q, fd)
    BY <1>1, <1>3, <1>4 DEF Closing
<1>7. Types'
    BY <1>1, <1>2, <1>3, <1>5 DEF IInv, Types
<1>8. RequestTrue'
    BY <1>1, <1>2, <1>4, <1>5 DEF IInv, RequestTrue
<1>9. InstallTrue'
    BY <1>1, <1>5 DEF IInv, InstallTrue
<1>10. ChildTrue'
    BY <1>1, <1>2, <1>4, <1>5 DEF IInv, ChildTrue
<1>11. DeadQuiet'
    BY <1>1, <1>4 DEF IInv, DeadQuiet
<1>12. ClosingForgotten' /\ Recorded' /\ MockPlaced'
    BY <1>1, <1>6, TableFacts DEF IInv, ClosingForgotten, Recorded, MockPlaced
<1> QED
    BY <1>1, <1>7, <1>8, <1>9, <1>10, <1>11, <1>12 DEF IInv, AnswersTrue

(* die: the descriptors go, and the request is no longer valid.             *)
LEMMA DieIInv ==
    ASSUME IInv, NEW p \in Procs, die(p)
    PROVE  IInv'
<1>1. /\ alive' = alive \ {p} /\ stale' = stale \ {p} /\ kfd' = [kfd EXCEPT ![p] = Nothing]
      /\ call' = [call EXCEPT ![p] = NoCall] /\ Withdrawn(p)
      /\ UNCHANGED <<kind, files, procs, pc, misled>>
    BY DEF die
<1>2. /\ call \in [Procs -> CallType] /\ kfd \in [Procs -> Files] /\ req \in Request
      /\ req.proc \in Procs /\ req.child \in Procs /\ alive \subseteq Procs
    BY TableFacts
<1>3. \A q \in Procs : call'[q] = IF q = p THEN NoCall ELSE call[q]
    BY <1>1, <1>2
<1>4. \A q \in Procs : q # p => kfd'[q] = kfd[q]
    BY <1>1, <1>2
<1>5. /\ req' \in Request /\ req'.proc = req.proc /\ req'.op = req.op /\ req'.fd = req.fd
      /\ req'.want = req.want /\ req'.answer = req.answer /\ req'.snapshot = req.snapshot
      /\ req'.child = req.child
      /\ req'.live => req.live /\ req.proc # p
    BY <1>1, <1>2 DEF Withdrawn, Request
<1>6. \A q \in Procs, fd \in Fds : Closing(q, fd)' <=> q # p /\ Closing(q, fd)
    BY <1>3, NoCallFacts DEF Closing
<1>7. Types'
    BY <1>1, <1>2, <1>5, NothingFacts, NoCallFacts DEF IInv, Types
<1>8. RequestTrue'
    BY <1>1, <1>2, <1>3, <1>5 DEF IInv, RequestTrue
<1>9. InstallTrue'
    BY <1>1, <1>2, <1>4, <1>5 DEF IInv, InstallTrue
<1>10. ChildTrue'
    BY <1>1, <1>2, <1>3, <1>4, <1>5 DEF IInv, ChildTrue
<1>11. DeadQuiet'
    BY <1>1, <1>3, NoCallFacts DEF IInv, DeadQuiet
<1>12. ClosingForgotten' /\ Recorded' /\ MockPlaced'
    BY <1>1, <1>2, <1>4, <1>6 DEF IInv, ClosingForgotten, Recorded, MockPlaced
<1> QED
    BY <1>1, <1>7, <1>8, <1>9, <1>10, <1>11, <1>12 DEF IInv, AnswersTrue

(* A descriptor goes, and no record of it is left.                          *)
LEMMA DescriptorGone ==
    ASSUME IInv, NEW p \in Procs, NEW fd \in Fds,
           kind = "mapped" => files[p][fd] = NoFile,
           kfd' = [kfd EXCEPT ![p][fd] = NoFile], UNCHANGED <<kind, files, procs, alive, stale>>,
           \A q \in Procs, g \in Fds :
               Closing(q, g) => Closing(q, g)' \/ (q = p /\ g = fd),
           \A q \in Procs, g \in Fds : Closing(q, g)' => Closing(q, g)
    PROVE  /\ kfd' \in [Procs -> Files]
           /\ \A q \in Procs, g \in Fds :
                 kfd'[q][g] = IF q = p /\ g = fd THEN NoFile ELSE kfd[q][g]
           /\ ClosingForgotten' /\ Recorded' /\ MockPlaced'
<1>1. kfd \in [Procs -> Files] /\ alive \subseteq Procs
    BY TableFacts
<1>2. \A q \in Procs, g \in Fds : kfd'[q][g] = IF q = p /\ g = fd THEN NoFile ELSE kfd[q][g]
    BY <1>1 DEF Files
<1>3. kfd' \in [Procs -> Files]
    BY <1>1 DEF Files, NoFile
<1>4. ClosingForgotten'
    BY DEF IInv, ClosingForgotten
<1>5. Recorded'
    BY <1>1, <1>2 DEF IInv, Recorded
<1>6. MockPlaced'
    <2>1. NoFile \notin Nat
        BY DEF NoFile
    <2> QED
        BY <1>1, <1>2, <2>1 DEF IInv, MockPlaced
<1> QED
    BY <1>2, <1>3, <1>4, <1>5, <1>6

(* close of a descriptor the filter lets pass, which is no mock.            *)
LEMMA CloseAllowedIInv ==
    ASSUME IInv, NEW p \in Procs, NEW fd \in Fds, Lives(p), Allowed(fd),
           kfd' = [kfd EXCEPT ![p][fd] = NoFile],
           UNCHANGED <<kind, files, procs, pc, req, alive, stale, call, misled>>
    PROVE  IInv'
<1>1. kind = "range" /\ p \in alive /\ call[p].at = "none" /\ req.proc \in Procs
    BY NoCallFacts, TableFacts DEF Allowed, Lives
<1>2. \A q \in Procs, g \in Fds : Closing(q, g)' <=> Closing(q, g)
    BY DEF Closing
<1>3. /\ kfd' \in [Procs -> Files]
      /\ \A q \in Procs, g \in Fds : kfd'[q][g] = IF q = p /\ g = fd THEN NoFile ELSE kfd[q][g]
      /\ ClosingForgotten' /\ Recorded' /\ MockPlaced'
    BY <1>1, <1>2, DescriptorGone
<1>4. Types' /\ RequestTrue' /\ DeadQuiet'
    BY <1>3 DEF IInv, Types, RequestTrue, DeadQuiet
<1>5. InstallTrue'
    BY <1>1, <1>3 DEF IInv, InstallTrue, RequestTrue
<1>6. ChildTrue'
    BY <1>1, <1>3, TableFacts DEF IInv, ChildTrue
<1> QED
    BY <1>3, <1>4, <1>5, <1>6 DEF IInv, AnswersTrue

(* The kernel carries out a continued call.                                 *)
LEMMA FinishIInv ==
    ASSUME IInv, NEW p \in Procs, finish(p)
    PROVE  IInv'
<1>1. /\ call[p].at = "continued" /\ call' = [call EXCEPT ![p] = NoCall]
      /\ UNCHANGED <<kind, files, procs, pc, req, alive, stale, misled>>
    BY DEF finish, Over, supVars, procVars
<1>2. call \in [Procs -> CallType] /\ req.proc \in Procs /\ call[p].fd \in Fds
      /\ kfd \in [Procs -> Files] /\ alive \subseteq Procs
    BY TableFacts DEF CallType
<1>3. \A q \in Procs : call'[q] = IF q = p THEN NoCall ELSE call[q]
    BY <1>1, <1>2
<1>4. \A q \in Procs, fd \in Fds : Closing(q, fd)' <=> q # p /\ Closing(q, fd)
    BY <1>3, NoCallFacts DEF Closing
<1>5. /\ kfd' \in [Procs -> Files]
      /\ \A q \in Procs, g \in Fds : q # p => kfd'[q][g] = kfd[q][g]
      /\ ClosingForgotten' /\ Recorded' /\ MockPlaced'
    <2>1. CASE call[p].op = "close"
        <3>0. PICK fd \in Fds : fd = call[p].fd
            BY <1>2
        <3>1. kfd' = [kfd EXCEPT ![p][fd] = NoFile]
            BY <2>1, <3>0 DEF finish
        <3>2. kind = "mapped" => files[p][fd] = NoFile
            BY <1>1, <2>1, <3>0 DEF IInv, ClosingForgotten, Closing
        <3>3. \A q \in Procs, g \in Fds : Closing(q, g) => Closing(q, g)' \/ (q = p /\ g = fd)
            BY <1>4, <3>0 DEF Closing
        <3>4. \A q \in Procs, g \in Fds : Closing(q, g)' => Closing(q, g)
            BY <1>4
        <3>5. /\ kfd' \in [Procs -> Files]
              /\ \A q \in Procs, g \in Fds :
                    kfd'[q][g] = IF q = p /\ g = fd THEN NoFile ELSE kfd[q][g]
              /\ ClosingForgotten' /\ Recorded' /\ MockPlaced'
            BY <1>1, <3>1, <3>2, <3>3, <3>4, DescriptorGone
        <3> QED
            BY <3>5
    <2>2. CASE call[p].op # "close"
        <3>1. kfd' = kfd
            BY <2>2 DEF finish
        <3>2. \A q \in Procs, g \in Fds : Closing(q, g)' <=> Closing(q, g)
            BY <1>4, <2>2 DEF Closing
        <3> QED
            BY <1>1, <1>2, <3>1, <3>2 DEF IInv, ClosingForgotten, Recorded, MockPlaced
    <2> QED
        BY <2>1, <2>2
<1>6. Types'
    BY <1>1, <1>2, <1>5, NoCallFacts DEF IInv, Types
<1>7. RequestTrue' /\ DeadQuiet'
    BY <1>1, <1>2, <1>3, NoCallFacts DEF IInv, RequestTrue, DeadQuiet
<1>8. InstallTrue'
    BY <1>1, <1>2, <1>5 DEF IInv, InstallTrue, RequestTrue
<1>9. ChildTrue'
    BY <1>1, <1>2, <1>3, <1>5, TableFacts DEF IInv, ChildTrue
<1> QED
    BY <1>1, <1>5, <1>6, <1>7, <1>8, <1>9 DEF IInv, AnswersTrue
----------------------------------------------------------------------------
(* The tracker *)

(* A step of the handler that changes no table.                             *)
LEMMA TablesKept ==
    ASSUME IInv, UNCHANGED <<kind, files, procs, alive, stale, kfd, misled>>,
           req' \in Request, call' \in [Procs -> CallType], pc' \in Places,
           \A q \in Procs, fd \in Fds : Closing(q, fd)' <=> Closing(q, fd),
           RequestTrue', InstallTrue', ChildTrue', DeadQuiet'
    PROVE  IInv'
<1>1. Types'
    BY DEF IInv, Types
<1>2. ClosingForgotten' /\ Recorded' /\ MockPlaced'
    BY TableFacts DEF IInv, ClosingForgotten, Recorded, MockPlaced
<1> QED
    BY <1>1, <1>2 DEF IInv, AnswersTrue

(* A handler that is idle has no request to keep.                           *)
LEMMA IdleRequest ==
    ASSUME Idle
    PROVE  /\ RequestTrue' /\ InstallTrue' /\ ChildTrue'
           /\ req' \in Request /\ pc' = "idle" /\ pc' \in Places
BY NoReqFacts DEF Idle, RequestTrue, InstallTrue, ChildTrue, Places

(* The notification is gone: the handler gives up.                          *)
LEMMA GiveUpIInv ==
    ASSUME IInv, Idle, UNCHANGED <<kind, files, procs, kernelVars, misled>>
    PROVE  IInv'
<1>1. UNCHANGED <<kind, files, procs, alive, stale, kfd, call, misled>>
    BY DEF kernelVars, procVars
<1>2. \A q \in Procs, fd \in Fds : Closing(q, fd)' <=> Closing(q, fd)
    BY <1>1 DEF Closing
<1>3. DeadQuiet'
    BY <1>1 DEF IInv, DeadQuiet
<1> QED
    BY <1>1, <1>2, <1>3, IdleRequest, TableFacts, TablesKept

(* A notification is received.                                              *)
LEMMA RecvIInv ==
    ASSUME IInv, NEW p \in Procs, recv(p)
    PROVE  IInv'
<1>1. /\ call[p].at = "pending" /\ pc = "idle" /\ pc' = "dispatch"
      /\ call' = [call EXCEPT ![p].at = "received"]
      /\ req' = [NoReq EXCEPT !.proc = p, !.op = call[p].op, !.fd = call[p].fd, !.live = TRUE]
      /\ UNCHANGED <<kind, files, procs, alive, stale, kfd, misled>>
    BY DEF recv, procVars
<1>2. /\ call \in [Procs -> CallType] /\ call[p] \in CallType /\ alive \subseteq Procs
      /\ call[p].op \in Ops /\ call[p].fd \in Fds
    BY TableFacts DEF CallType
<1>3. p \in alive
    BY <1>1 DEF IInv, DeadQuiet
<1>4. /\ req' \in Request /\ req'.proc = p /\ req'.op = call[p].op /\ req'.fd = call[p].fd
      /\ req'.live = TRUE
    BY <1>1, <1>2, NoReqFacts DEF Request
<1>5. PICK c \in CallType : /\ c.at = "received" /\ c.op = call[p].op /\ c.fd = call[p].fd
                           /\ call' = [call EXCEPT ![p] = c]
    <2>1. call' = [call EXCEPT ![p] = [call[p] EXCEPT !.at = "received"]]
        BY <1>1
    <2>2. [call[p] EXCEPT !.at = "received"] \in CallType
        BY <1>2 DEF CallType
    <2>3. /\ [call[p] EXCEPT !.at = "received"].at = "received"
          /\ [call[p] EXCEPT !.at = "received"].op = call[p].op
          /\ [call[p] EXCEPT !.at = "received"].fd = call[p].fd
        BY <1>2 DEF CallType
    <2> QED
        BY <2>1, <2>2, <2>3
<1>6. call' \in [Procs -> CallType] /\ \A q \in Procs : call'[q] = IF q = p THEN c ELSE call[q]
    BY <1>2, <1>5
<1>7. \A q \in Procs, fd \in Fds : Closing(q, fd)' <=> Closing(q, fd)
    BY <1>1, <1>5, <1>6 DEF Closing
<1>8. RequestTrue' /\ InstallTrue' /\ ChildTrue' /\ pc' \in Places
    BY <1>1, <1>3, <1>4, <1>5, <1>6 DEF RequestTrue, InstallTrue, ChildTrue, Places
<1>9. DeadQuiet'
    BY <1>1, <1>3, <1>6 DEF IInv, DeadQuiet
<1> QED
    BY <1>1, <1>4, <1>6, <1>7, <1>8, <1>9, TablesKept

(* An answer that ends an open with a number is the number of the file.     *)
LEMMA SendResponseIInv ==
    ASSUME IInv, pc \notin {"creation", "born"}, NEW value \in Int, send_response(value),
           req.live /\ req.op = "open" /\ value >= 0 =>
               value \in Fds /\ kfd[req.proc][value] = req.want
    PROVE  IInv'
<1>1. Idle /\ UNCHANGED <<kind, files, procs, alive, stale, kfd>>
    BY DEF send_response, procVars
<1>2. /\ call \in [Procs -> CallType] /\ req.proc \in Procs /\ alive \subseteq Procs
      /\ NoCall \in CallType /\ NoCall.at = "none"
    BY TableFacts, NoCallFacts
<1>3. misled' = misled
    BY DEF send_response
<1>4. CASE req.live
    <2>1. call' = [call EXCEPT ![req.proc] = NoCall] /\ call[req.proc].at = "received"
        BY <1>4 DEF send_response, Over, IInv, RequestTrue
    <2>2. /\ call' \in [Procs -> CallType]
          /\ \A q \in Procs : call'[q] = IF q = req.proc THEN NoCall ELSE call[q]
        BY <1>2, <2>1
    <2>3. \A q \in Procs, fd \in Fds : Closing(q, fd)' <=> Closing(q, fd)
        BY <1>2, <2>1, <2>2 DEF Closing
    <2>4. DeadQuiet'
        BY <1>1, <1>2, <2>2 DEF IInv, DeadQuiet
    <2> QED
        BY <1>1, <1>3, <2>2, <2>3, <2>4, IdleRequest, TablesKept
<1>5. CASE ~req.live
    <2>1. call' = call
        BY <1>5 DEF send_response
    <2>2. \A q \in Procs, fd \in Fds : Closing(q, fd)' <=> Closing(q, fd)
        BY <2>1 DEF Closing
    <2>3. DeadQuiet'
        BY <1>1, <2>1 DEF IInv, DeadQuiet
    <2> QED
        BY <1>1, <1>2, <1>3, <2>1, <2>2, <2>3, IdleRequest, TablesKept
<1> QED
    BY <1>4, <1>5

(* An errno is never zero, nor taken for a descriptor.                      *)
LEMMA RespondErrnoIInv ==
    ASSUME IInv, pc \notin {"creation", "born"}, NEW e \in Int, respond_errno(e)
    PROVE  IInv'
<1>1. PICK value \in Int : value = -normalize(e) /\ value < 0
    BY DEF normalize, EIO
<1>2. send_response(value) /\ ~(value >= 0)
    BY <1>1 DEF respond_errno
<1> QED
    BY <1>2, SendResponseIInv
----------------------------------------------------------------------------
(* The file spaces *)

(* The lowest free descriptor is free.                                      *)
LEMMA LowestFree ==
    ASSUME NEW p, Free(p) # {}
    PROVE  Lowest(p) \in Free(p) /\ Lowest(p) \in Fds
<1>1. Free(p) \subseteq Fds /\ Free(p) \subseteq Nat
    BY FdsFacts DEF Free
<1>2. \E fd \in Free(p) : \A g \in Free(p) : fd <= g
    BY <1>1, LeastNumber
<1> QED
    BY <1>1, <1>2 DEF Lowest

(* What the request is while the handler responds.                          *)
LEMMA AnswerSet ==
    ASSUME IInv, NEW a \in Int, req' = [req EXCEPT !.answer = a]
    PROVE  /\ req' \in Request /\ req'.answer = a
           /\ req'.proc = req.proc /\ req'.op = req.op /\ req'.fd = req.fd
           /\ req'.want = req.want /\ req'.live = req.live /\ req'.snapshot = req.snapshot
BY TableFacts DEF Request

(* An errno is kept for the caller to answer with.                          *)
LEMMA UnansweredIInv ==
    ASSUME IInv, pc \in {"respond_real", "respond_mock"}, NEW e \in Int, Unanswered(e)
    PROVE  IInv'
<1>1. /\ pc' = "errno" /\ req' = [req EXCEPT !.answer = e]
      /\ UNCHANGED <<kind, files, procs, alive, stale, kfd, call, misled>>
    BY DEF Unanswered, kernelVars, procVars
<1>2. /\ req' \in Request /\ req'.proc = req.proc /\ req'.op = req.op /\ req'.fd = req.fd
      /\ req'.live = req.live
    BY <1>1, AnswerSet
<1>3. \A q \in Procs, fd \in Fds : Closing(q, fd)' <=> Closing(q, fd)
    BY <1>1 DEF Closing
<1>4. RequestTrue' /\ InstallTrue' /\ ChildTrue' /\ DeadQuiet' /\ pc' \in Places
    BY <1>1, <1>2 DEF IInv, RequestTrue, InstallTrue, ChildTrue, DeadQuiet, Places
<1> QED
    BY <1>1, <1>2, <1>3, <1>4, TableFacts, TablesKept

(* A file is installed, at its own number in a range and with a record in a *)
(* map; the answer is that number, or an errno.                             *)
LEMMA InstallIInv ==
    ASSUME IInv, pc \in {"respond_real", "respond_mock"}, req.live,
           NEW fd \in Fds, NEW a \in Int,
           kfd' = [kfd EXCEPT ![req.proc][fd] = req.want],
           req' = [req EXCEPT !.answer = a],
           pc' = "errno" \/ (pc' = "respond" /\ a = fd),
           files' = IF kind = "mapped" THEN [files EXCEPT ![req.proc][fd] = req.want] ELSE files,
           kind = "range" /\ req.want \in Nat => fd = MOCK_FD_BASE + req.want,
           UNCHANGED <<kind, procs, alive, stale, call, misled>>
    PROVE  IInv'
<1>1. /\ files \in [Procs -> Files] /\ kfd \in [Procs -> Files] /\ alive \subseteq Procs
      /\ req.proc \in Procs /\ req.want \in Int /\ kind \in {"range", "mapped"}
    BY TableFacts, KindFacts DEF Request
<1>2. /\ kfd' \in [Procs -> Files]
      /\ \A q \in Procs, g \in Fds :
            kfd'[q][g] = IF q = req.proc /\ g = fd THEN req.want ELSE kfd[q][g]
    BY <1>1 DEF Files
<1>3. /\ files' \in [Procs -> Files]
      /\ \A q \in Procs, g \in Fds :
            files'[q][g] = IF kind = "mapped" /\ q = req.proc /\ g = fd
                           THEN req.want ELSE files[q][g]
    BY <1>1 DEF Files
<1>4. /\ req' \in Request /\ req'.answer = a
      /\ req'.proc = req.proc /\ req'.op = req.op /\ req'.fd = req.fd
      /\ req'.want = req.want /\ req'.live = req.live
    BY AnswerSet
<1>5. call[req.proc].at = "received"
    BY DEF IInv, RequestTrue
<1>6. \A q \in Procs, g \in Fds : Closing(q, g)' <=> Closing(q, g)
    BY DEF Closing
<1>7. Types'
    BY <1>2, <1>3, <1>4 DEF IInv, Types, Places
<1>8. RequestTrue' /\ ChildTrue' /\ DeadQuiet'
    BY <1>4 DEF IInv, RequestTrue, ChildTrue, DeadQuiet
<1>9. InstallTrue'
    BY <1>1, <1>2, <1>4 DEF InstallTrue
<1>10. ClosingForgotten'
    BY <1>3, <1>5, <1>6 DEF IInv, ClosingForgotten, Closing
<1>11. Recorded'
    BY <1>1, <1>2, <1>3 DEF IInv, Recorded
<1>12. MockPlaced'
    BY <1>1, <1>2, <1>3, <1>6 DEF IInv, MockPlaced
<1> QED
    BY <1>7, <1>8, <1>9, <1>10, <1>11, <1>12 DEF IInv, AnswersTrue

(* RangeFileSpace::respond_real.                                            *)
LEMMA RespondRealRangeIInv ==
    ASSUME IInv, respond_real_range
    PROVE  IInv'
<1>1. pc = "respond_real" /\ kind = "range" /\ req.want \notin Nat /\ EMFILE \in Int
    BY DEF respond_real_range, IInv, InstallTrue, Real, EMFILE
<1>2. CASE ~req.live
    BY <1>2, GiveUpIInv DEF respond_real_range
<1>3. CASE req.live /\ Free(req.proc) = {}
    BY <1>1, <1>3, UnansweredIInv DEF respond_real_range
<1>4. CASE req.live /\ Free(req.proc) # {}
    <2>1. PICK fd \in Fds : fd = Lowest(req.proc)
        BY <1>4, LowestFree
    <2>2. PICK a \in Int :
             /\ kfd' = [kfd EXCEPT ![req.proc][fd] = req.want]
             /\ req' = [req EXCEPT !.answer = a]
             /\ pc' = "errno" \/ (pc' = "respond" /\ a = fd)
        <3>1. fd \in Int
            BY FdsFacts
        <3> QED
            BY <1>1, <1>4, <2>1, <3>1 DEF respond_real_range, Installed
    <2>3. UNCHANGED <<kind, files, procs, alive, stale, call, misled>>
        BY <1>4 DEF respond_real_range, procVars
    <2>4. files' = IF kind = "mapped" THEN [files EXCEPT ![req.proc][fd] = req.want] ELSE files
        BY <1>1, <2>3
    <2> QED
        BY <1>1, <1>4, <2>2, <2>3, <2>4, InstallIInv
<1> QED
    BY <1>2, <1>3, <1>4

(* RangeFileSpace::respond_mock.                                            *)
LEMMA RespondMockRangeIInv ==
    ASSUME IInv, respond_mock_range
    PROVE  IInv'
<1>1. /\ pc = "respond_mock" /\ kind = "range" /\ req.want \in Nat
      /\ EMFILE \in Int /\ EBADF \in Int
    BY DEF respond_mock_range, IInv, InstallTrue, EMFILE, EBADF
<1>2. CASE mock_fd(req.want) = NoFile
    BY <1>1, <1>2, UnansweredIInv DEF respond_mock_range
<1>3. CASE mock_fd(req.want) # NoFile /\ ~req.live
    BY <1>3, GiveUpIInv DEF respond_mock_range
<1>4. CASE mock_fd(req.want) # NoFile /\ req.live /\ mock_fd(req.want) \notin Fds
    BY <1>1, <1>4, UnansweredIInv DEF respond_mock_range
<1>5. CASE mock_fd(req.want) # NoFile /\ req.live /\ mock_fd(req.want) \in Fds
    <2>1. PICK fd \in Fds : fd = mock_fd(req.want)
        BY <1>5
    <2>2. /\ kfd' = [kfd EXCEPT ![req.proc][fd] = req.want]
          /\ req' = [req EXCEPT !.answer = fd] /\ pc' = "respond"
          /\ UNCHANGED <<kind, files, procs, alive, stale, call, misled>>
        BY <1>5, <2>1 DEF respond_mock_range, Installed, procVars
    <2>3. fd = MOCK_FD_BASE + req.want /\ fd \in Int
        BY <1>5, <2>1, FdsFacts DEF mock_fd
    <2>4. files' = IF kind = "mapped" THEN [files EXCEPT ![req.proc][fd] = req.want] ELSE files
        BY <1>1, <2>2
    <2> QED
        BY <1>1, <1>5, <2>2, <2>3, <2>4, InstallIInv
<1> QED
    BY <1>2, <1>3, <1>4, <1>5

(* respond_real and respond_mock of MappedFileSpace.                        *)
LEMMA RespondMappedIInv ==
    ASSUME IInv, respond_mapped
    PROVE  IInv'
<1>1. pc \in {"respond_real", "respond_mock"} /\ kind = "mapped" /\ EMFILE \in Int
    BY DEF respond_mapped, EMFILE
<1>2. CASE ~req.live
    BY <1>2, GiveUpIInv DEF respond_mapped
<1>3. CASE req.live /\ Free(req.proc) = {}
    BY <1>1, <1>3, UnansweredIInv DEF respond_mapped
<1>4. CASE req.live /\ Free(req.proc) # {}
    <2>1. PICK fd \in Fds : fd = Lowest(req.proc)
        BY <1>4, LowestFree
    <2>2. /\ kfd' = [kfd EXCEPT ![req.proc][fd] = req.want]
          /\ req' = [req EXCEPT !.answer = fd] /\ pc' = "respond"
          /\ files' = [files EXCEPT ![req.proc][fd] = req.want]
          /\ UNCHANGED <<kind, procs, alive, stale, call, misled>>
        BY <1>4, <2>1 DEF respond_mapped, Installed, procVars
    <2>3. files' = IF kind = "mapped" THEN [files EXCEPT ![req.proc][fd] = req.want] ELSE files
        BY <1>1, <2>2
    <2>4. fd \in Int
        BY FdsFacts
    <2> QED
        BY <1>1, <1>4, <2>2, <2>3, <2>4, InstallIInv
<1> QED
    BY <1>2, <1>3, <1>4

(* The answer to a call, with the descriptor installed before or an errno.  *)
LEMMA RespondIInv ==
    ASSUME IInv, respond \/ errno
    PROVE  IInv'
<1>1. req.answer \in Int
    BY TableFacts DEF Request
<1>2. CASE respond
    <2>1. PICK value \in Int : value = req.answer
        BY <1>1
    <2>2. pc = "respond" /\ send_response(value)
        BY <1>2, <2>1 DEF respond
    <2>3. req.live => value \in Fds /\ kfd[req.proc][value] = req.want
        BY <2>1, <2>2 DEF IInv, InstallTrue
    <2> QED
        BY <2>2, <2>3, SendResponseIInv
<1>3. CASE errno
    <2>1. PICK e \in Int : e = req.answer
        BY <1>1
    <2>2. pc = "errno" /\ respond_errno(e)
        BY <1>3, <2>1 DEF errno
    <2> QED
        BY <2>2, RespondErrnoIInv
<1> QED
    BY <1>2, <1>3

(* The kernel is told to carry the call out; of a close, the record went    *)
(* with the same step.                                                      *)
LEMMA ContinueIInv ==
    ASSUME IInv, pc = "dispatch", continue_syscall,
           files' = IF req.live /\ req.op = "close" THEN remove_file(req.proc, req.fd) ELSE files
    PROVE  IInv'
<1>1. /\ Idle /\ UNCHANGED <<kind, procs, alive, stale, kfd, misled>>
      /\ call' = IF req.live THEN [call EXCEPT ![req.proc].at = "continued"] ELSE call
    BY DEF continue_syscall, procVars
<1>2. /\ files \in [Procs -> Files] /\ call \in [Procs -> CallType] /\ alive \subseteq Procs
      /\ req.proc \in Procs /\ req.fd \in Fds
    BY TableFacts DEF Request
<1>3. CASE ~req.live
    <2>1. UNCHANGED <<files, call>>
        BY <1>1, <1>3
    <2> QED
        BY <1>1, <2>1, GiveUpIInv DEF kernelVars, procVars, continue_syscall
<1>4. CASE req.live
    <2>1. /\ call[req.proc].at = "received" /\ req.proc \in alive
          /\ call[req.proc].op = req.op /\ call[req.proc].fd = req.fd
        BY <1>4 DEF IInv, RequestTrue
    <2>2. PICK c \in CallType : /\ c.at = "continued" /\ c.op = req.op /\ c.fd = req.fd
                               /\ call' = [call EXCEPT ![req.proc] = c]
        <3>1. call' = [call EXCEPT ![req.proc] = [call[req.proc] EXCEPT !.at = "continued"]]
            BY <1>1, <1>4
        <3>2. call[req.proc] \in CallType
            BY <1>2
        <3>3. /\ [call[req.proc] EXCEPT !.at = "continued"] \in CallType
              /\ [call[req.proc] EXCEPT !.at = "continued"].at = "continued"
              /\ [call[req.proc] EXCEPT !.at = "continued"].op = call[req.proc].op
              /\ [call[req.proc] EXCEPT !.at = "continued"].fd = call[req.proc].fd
            BY <3>2 DEF CallType
        <3> QED
            BY <2>1, <3>1, <3>3
    <2>3. /\ call' \in [Procs -> CallType]
          /\ \A q \in Procs : call'[q] = IF q = req.proc THEN c ELSE call[q]
        BY <1>2, <2>2
    <2>4. \A q \in Procs, fd \in Fds :
             Closing(q, fd)' <=>
                Closing(q, fd) \/ (q = req.proc /\ req.op = "close" /\ fd = req.fd)
        BY <2>1, <2>2, <2>3 DEF Closing
    <2>5. /\ files' \in [Procs -> Files]
          /\ \A q \in Procs, fd \in Fds :
                files'[q][fd] = IF kind = "mapped" /\ q = req.proc /\ req.op = "close" /\ fd = req.fd
                                THEN NoFile ELSE files[q][fd]
        BY <1>2, <1>4 DEF remove_file, Files, NoFile
    <2>6. Types'
        BY <1>1, <2>3, <2>5, IdleRequest DEF IInv, Types
    <2>7. DeadQuiet'
        BY <1>1, <2>1, <2>3 DEF IInv, DeadQuiet
    <2>8. ClosingForgotten'
        BY <1>1, <2>4, <2>5 DEF IInv, ClosingForgotten
    <2>9. Recorded'
        BY <1>1, <1>2, <2>5 DEF IInv, Recorded
    <2>10. MockPlaced'
        BY <1>1, <1>2, <2>4, <2>5 DEF IInv, MockPlaced
    <2> QED
        BY <1>1, <2>6, <2>7, <2>8, <2>9, <2>10, IdleRequest DEF IInv, AnswersTrue
<1> QED
    BY <1>3, <1>4

(* The caller decides what to do with an open.                              *)
LEMMA DispatchOpenIInv ==
    ASSUME IInv, dispatch_open
    PROVE  IInv'
<1>1. pc = "dispatch" /\ Mocks[kind] \subseteq Nat /\ Errnos \subseteq Int
    BY KindFacts, FileSpaceAssumption DEF dispatch_open
<1>2. CASE \E e \in Errnos : respond_errno(e)
    BY <1>1, <1>2, RespondErrnoIInv
<1>3. ASSUME NEW w \in Int, req' = [req EXCEPT !.want = w],
             \/ pc' = "respond_real" /\ w = Real
             \/ pc' = "respond_mock" /\ w \in Nat,
             UNCHANGED <<kind, files, procs, kernelVars, misled>>
      PROVE  IInv'
    <2>1. UNCHANGED <<kind, files, procs, alive, stale, kfd, call, misled>>
        BY <1>3 DEF kernelVars, procVars
    <2>2. /\ req' \in Request /\ req'.want = w
          /\ req'.proc = req.proc /\ req'.op = req.op /\ req'.fd = req.fd /\ req'.live = req.live
        BY <1>3, TableFacts DEF Request
    <2>3. \A q \in Procs, fd \in Fds : Closing(q, fd)' <=> Closing(q, fd)
        BY <2>1 DEF Closing
    <2>4. RequestTrue' /\ InstallTrue' /\ ChildTrue' /\ DeadQuiet' /\ pc' \in Places
        BY <1>1, <1>3, <2>1, <2>2 DEF IInv, RequestTrue, InstallTrue, ChildTrue, DeadQuiet, Places
    <2> QED
        BY <1>3, <2>1, <2>2, <2>3, <2>4, TableFacts, TablesKept
<1>4. Real \in Int
    BY DEF Real
<1> QED
    BY <1>1, <1>2, <1>3, <1>4 DEF dispatch_open

(* A close is continued; a use is continued or answered; a process without  *)
(* an entry gets an errno.                                                  *)
LEMMA DispatchIInv ==
    ASSUME IInv, dispatch_close \/ dispatch_use \/ dispatch_unknown
    PROVE  IInv'
<1>1. CASE dispatch_close
    BY <1>1, ContinueIInv DEF dispatch_close
<1>2. CASE dispatch_use
    <2>1. pc = "dispatch" /\ req.op = "use" /\ EBADF \in Int
        BY <1>2 DEF dispatch_use, EBADF
    <2>2. CASE continue_syscall /\ UNCHANGED files
        BY <2>1, <2>2, ContinueIInv
    <2>3. CASE respond_errno(EBADF)
        BY <2>1, <2>3, RespondErrnoIInv
    <2>4. CASE send_response(0)
        <3>1. PICK value \in Int : value = 0
            OBVIOUS
        <3> QED
            BY <2>1, <2>4, <3>1, SendResponseIInv
    <2> QED
        BY <1>2, <2>2, <2>3, <2>4 DEF dispatch_use
<1>3. CASE dispatch_unknown
    BY <1>3, RespondErrnoIInv DEF dispatch_unknown, EBADF
<1> QED
    BY <1>1, <1>2, <1>3
----------------------------------------------------------------------------
(* Process creation *)

(* A stop of p is reported, or p goes on from one: the tables stay.         *)
LEMMA StopIInv ==
    ASSUME IInv, NEW p \in Procs, NEW c \in CallType,
           call[p].at \in {"stopped", "halted", "held"}, c.at # "continued",
           call' = [call EXCEPT ![p] = c],
           UNCHANGED <<kind, files, procs, alive, stale, kfd, misled>>,
           req' \in Request, pc' \in Places, RequestTrue', InstallTrue', ChildTrue'
    PROVE  IInv'
<1>1. call \in [Procs -> CallType] /\ alive \subseteq Procs
    BY TableFacts
<1>2. call' \in [Procs -> CallType] /\ \A q \in Procs : call'[q] = IF q = p THEN c ELSE call[q]
    BY <1>1
<1>3. \A q \in Procs, fd \in Fds : Closing(q, fd)' <=> Closing(q, fd)
    BY <1>2 DEF Closing
<1>4. DeadQuiet'
    BY <1>2 DEF IInv, DeadQuiet
<1> QED
    BY <1>2, <1>3, <1>4, TablesKept

(* A call with its place changed.                                           *)
LEMMA PlaceChanged ==
    ASSUME IInv, NEW p \in Procs, NEW at \in {"none", "pending", "stopped", "halted", "held"}
    PROVE  [call[p] EXCEPT !.at = at] \in CallType /\ [call[p] EXCEPT !.at = at].at = at
BY TableFacts DEF CallType

(* The poll of a process.  The file space of one that is about to fork is   *)
(* copied; an exit status that is consumed changes no table.                *)
LEMMA TryCreationIInv ==
    ASSUME IInv, NEW p \in Procs, try_handle_process_creation(p)
    PROVE  IInv'
<1>1. pc = "idle" /\ p \in procs /\ UNCHANGED <<kind, files, procs, alive, stale, kfd, misled>>
    BY DEF try_handle_process_creation
<1>2. /\ files[p] \in Files /\ call \in [Procs -> CallType] /\ call[p] \in CallType
      /\ call[p].op \in Ops /\ alive \subseteq Procs /\ req \in Request /\ ~req.live
    BY <1>1, TableFacts DEF CallType, IInv, RequestTrue
<1>3. CASE /\ call[p].at = "stopped" /\ pc' = "creation"
           /\ call' = [call EXCEPT ![p].at = "held"]
           /\ req' = [NoReq EXCEPT !.proc = p, !.op = call[p].op, !.live = TRUE,
                                   !.snapshot = files[p], !.child = p]
    <2>1. PICK c \in CallType : c.at = "held" /\ call' = [call EXCEPT ![p] = c]
        <3>1. call' = [call EXCEPT ![p] = [call[p] EXCEPT !.at = "held"]]
            BY <1>3
        <3> QED
            BY <3>1, PlaceChanged
    <2>2. req' \in Request /\ req'.proc = p /\ req'.snapshot = files[p] /\ req'.live = TRUE
        BY <1>2, <1>3, NoReqFacts DEF Request
    <2>3. p \in alive
        BY <1>3 DEF IInv, DeadQuiet
    <2>4. call'[p] = c
        BY <1>2, <2>1
    <2>5. RequestTrue' /\ InstallTrue' /\ ChildTrue' /\ pc' \in Places
        BY <1>1, <1>3, <2>1, <2>2, <2>3, <2>4 DEF RequestTrue, InstallTrue, ChildTrue, Places
    <2> QED
        BY <1>1, <1>3, <2>1, <2>2, <2>5, StopIInv
<1>4. CASE call[p].at = "halted" /\ call' = [call EXCEPT ![p] = Resumed(p)] /\ UNCHANGED <<pc, req>>
    <2>1. PICK c \in CallType : c.at \in {"none", "pending", "stopped"} /\ call' = [call EXCEPT ![p] = c]
        BY <1>4, PlaceChanged DEF Resumed
    <2>2. RequestTrue' /\ InstallTrue' /\ ChildTrue' /\ pc' \in Places
        BY <1>1, <1>2, <1>4 DEF RequestTrue, InstallTrue, ChildTrue, Places
    <2> QED
        BY <1>1, <1>2, <1>4, <2>1, <2>2, StopIInv
<1>5. CASE UNCHANGED <<pc, req, call>>
    BY <1>1, <1>5 DEF IInv, Types, RequestTrue, InstallTrue, ChildTrue, DeadQuiet, Closing,
                      ClosingForgotten, Recorded, MockPlaced, AnswersTrue
<1> QED
    BY <1>3, <1>4, <1>5 DEF try_handle_process_creation

(* The handler returns, and of the processes at most one that was stopped   *)
(* is in another place.                                                     *)
LEMMA ReturnIInv ==
    ASSUME IInv, Idle, UNCHANGED <<kind, files, procs, alive, stale, kfd, misled>>,
           \/ UNCHANGED call
           \/ \E p \in Procs, c \in CallType :
                 /\ call[p].at \in {"stopped", "halted", "held"} /\ c.at # "continued"
                 /\ call' = [call EXCEPT ![p] = c]
    PROVE  IInv'
<1>1. CASE UNCHANGED call
    <2>1. \A q \in Procs, fd \in Fds : Closing(q, fd)' <=> Closing(q, fd)
        BY <1>1 DEF Closing
    <2>2. DeadQuiet'
        BY <1>1 DEF IInv, DeadQuiet
    <2> QED
        BY <1>1, <2>1, <2>2, IdleRequest, TableFacts, TablesKept
<1>2. CASE \E p \in Procs, c \in CallType :
              /\ call[p].at \in {"stopped", "halted", "held"} /\ c.at # "continued"
              /\ call' = [call EXCEPT ![p] = c]
    BY <1>2, IdleRequest, StopIInv
<1> QED
    BY <1>1, <1>2

(* The call is refused or fails, or the caller is left in its stop.         *)
LEMMA RejectIInv ==
    ASSUME IInv, reject_process_creation
    PROVE  IInv'
<1>1. /\ pc = "creation" /\ req.live /\ Idle
      /\ UNCHANGED <<kind, files, procs, alive, stale, kfd, misled>>
    BY DEF reject_process_creation, procVars
<1>2. req.proc \in Procs /\ call[req.proc].at = "held"
    BY <1>1, TableFacts DEF IInv, RequestTrue
<1>3. CASE Over(req.proc)
    BY <1>1, <1>2, <1>3, NoCallFacts, ReturnIInv DEF Over
<1>4. CASE call' = [call EXCEPT ![req.proc].at = "halted"]
    <2>1. call' = [call EXCEPT ![req.proc] = [call[req.proc] EXCEPT !.at = "halted"]]
        BY <1>4
    <2>2. PICK c \in CallType : c = [call[req.proc] EXCEPT !.at = "halted"] /\ c.at = "halted"
        BY <1>2, PlaceChanged
    <2> QED
        BY <1>1, <1>2, <2>1, <2>2, ReturnIInv
<1>5. CASE UNCHANGED call
    BY <1>1, <1>5, ReturnIInv
<1> QED
    BY <1>3, <1>4, <1>5 DEF reject_process_creation

(* A child gets the descriptors of its parent.  The copied records fit      *)
(* them, because the parent is stopped all the while; an entry that is      *)
(* there already was made for another process.                              *)
LEMMA ForkIInv ==
    ASSUME IInv, continue_to_fork
    PROVE  IInv'
<1>1. /\ pc = "creation" /\ req.live /\ UNCHANGED <<kind, files, procs, misled>>
    BY DEF continue_to_fork
<1>2. /\ files \in [Procs -> Files] /\ kfd \in [Procs -> Files] /\ call \in [Procs -> CallType]
      /\ procs \subseteq Procs /\ alive \subseteq Procs /\ req \in Request /\ req.proc \in Procs
    BY TableFacts
<1>3. PICK c \in Procs \ (alive \cup zombies) :
         /\ alive' = alive \cup {c}
         /\ kfd' = [kfd EXCEPT ![c] = kfd[req.proc]]
         /\ stale' = IF kind = "mapped" /\ (c \in procs \/ req.proc \in stale)
                     THEN stale \cup {c} ELSE stale
         /\ \/ Idle /\ UNCHANGED call
            \/ /\ call' = [call EXCEPT ![c] = Halted(NoCall)]
               /\ pc' = "born" /\ req' = [req EXCEPT !.child = c]
    BY DEF continue_to_fork
<1>4. /\ req.proc \in alive /\ req.proc # c /\ call[req.proc].at = "held"
      /\ req.snapshot = files[req.proc] /\ call[c].at = "none"
    BY <1>1, <1>3 DEF IInv, RequestTrue, DeadQuiet
<1>5. Halted(NoCall) \in CallType /\ Halted(NoCall).at = "halted"
    BY NoCallFacts DEF Halted, CallType
<1>6. /\ kfd' \in [Procs -> Files] /\ call' \in [Procs -> CallType]
      /\ \A q \in Procs : kfd'[q] = IF q = c THEN kfd[req.proc] ELSE kfd[q]
      /\ \A q \in Procs : q # c => call'[q] = call[q]
      /\ call'[c].at \in {"none", "halted"}
    BY <1>2, <1>3, <1>4, <1>5
<1>7. \A q \in Procs, fd \in Fds : Closing(q, fd)' <=> Closing(q, fd)
    BY <1>4, <1>6 DEF Closing
<1>8. \A fd \in Fds : ~Closing(c, fd) /\ ~Closing(req.proc, fd)
    BY <1>4 DEF Closing
<1>9. kind = "mapped" /\ c \notin stale' => c \notin procs /\ req.proc \notin stale
    BY <1>3
<1>10. DeadQuiet'
    BY <1>2, <1>3, <1>6 DEF IInv, DeadQuiet
<1>11. ClosingForgotten'
    BY <1>1, <1>7 DEF IInv, ClosingForgotten
<1>12. Recorded'
    BY <1>1, <1>2, <1>3, <1>6, <1>9 DEF IInv, Recorded
<1>13. MockPlaced'
    <2> SUFFICES ASSUME NEW q \in alive', NEW fd \in Fds, kfd'[q][fd] \in Nat
                 PROVE  IF kind = "mapped"
                        THEN q \in procs \ stale' => files[q][fd] = kfd'[q][fd] \/ Closing(q, fd)
                        ELSE fd = MOCK_FD_BASE + kfd'[q][fd]
        BY <1>1, <1>2, <1>3, <1>7 DEF MockPlaced
    <2>1. CASE q = c
        BY <1>3, <1>4, <1>6, <1>9, <2>1 DEF IInv, MockPlaced
    <2>2. CASE q # c
        BY <1>2, <1>3, <1>6, <2>2 DEF IInv, MockPlaced
    <2> QED
        BY <2>1, <2>2
<1>14. CASE Idle
    <2>1. Types'
        BY <1>1, <1>2, <1>3, <1>6, <1>14, IdleRequest DEF IInv, Types
    <2> QED
        BY <1>1, <1>10, <1>11, <1>12, <1>13, <1>14, <2>1, IdleRequest DEF IInv, AnswersTrue
<1>15. CASE /\ call' = [call EXCEPT ![c] = Halted(NoCall)]
            /\ pc' = "born" /\ req' = [req EXCEPT !.child = c]
    <2>1. /\ req' \in Request /\ req'.proc = req.proc /\ req'.live /\ req'.child = c
          /\ req'.snapshot = req.snapshot
        BY <1>1, <1>2, <1>15 DEF Request
    <2>2. call'[c].at = "halted" /\ call'[req.proc].at = "held"
        BY <1>2, <1>4, <1>5, <1>15
    <2>3. Types'
        BY <1>1, <1>2, <1>3, <1>6, <1>15, <2>1 DEF IInv, Types, Places
    <2>4. RequestTrue' /\ InstallTrue'
        BY <1>3, <1>4, <1>15, <2>1, <2>2 DEF RequestTrue, InstallTrue
    <2>5. ASSUME kind = "mapped", c \notin stale', NEW fd \in Fds
          PROVE  /\ req.snapshot[fd] # NoFile => kfd'[c][fd] = req.snapshot[fd]
                 /\ kfd'[c][fd] \in Nat => req.snapshot[fd] = kfd'[c][fd]
        <3>1. req.proc \in procs
            BY <1>1 DEF IInv, RequestTrue
        <3> QED
            BY <1>4, <1>6, <1>8, <1>9, <2>5, <3>1 DEF IInv, Recorded, MockPlaced
    <2>6. ChildTrue'
        BY <1>1, <1>15, <2>1, <2>2, <2>5 DEF ChildTrue
    <2> QED
        BY <1>1, <1>10, <1>11, <1>12, <1>13, <2>3, <2>4, <2>6 DEF IInv, AnswersTrue
<1> QED
    BY <1>3, <1>14, <1>15

(* The child gets the copied file space, unless there is an entry already.  *)
LEMMA RegisterIInv ==
    ASSUME IInv, register_process
    PROVE  IInv'
<1>1. /\ pc = "born" /\ req.live /\ Idle /\ procs' = procs \cup {req.child}
      /\ files' = IF req.child \in procs THEN files ELSE [files EXCEPT ![req.child] = req.snapshot]
      /\ call' = [call EXCEPT ![req.proc] = NoCall, ![req.child] = NoCall]
      /\ UNCHANGED <<kind, alive, stale, kfd, misled>>
    BY DEF register_process, ChildFiles, procVars
<1>2. /\ files \in [Procs -> Files] /\ call \in [Procs -> CallType] /\ kfd \in [Procs -> Files]
      /\ procs \subseteq Procs /\ alive \subseteq Procs
      /\ req.proc \in Procs /\ req.child \in Procs /\ req.snapshot \in Files
    BY TableFacts DEF Request
<1>3. /\ call[req.proc].at = "held" /\ call[req.child].at \in {"halted", "none"}
    BY <1>1, <1>2 DEF IInv, RequestTrue, ChildTrue, DeadQuiet
<1>4. /\ files' \in [Procs -> Files] /\ call' \in [Procs -> CallType]
      /\ \A q \in Procs : files'[q] = IF q = req.child /\ q \notin procs THEN req.snapshot ELSE files[q]
      /\ \A q \in Procs : call'[q] = IF q \in {req.proc, req.child} THEN NoCall ELSE call[q]
    BY <1>1, <1>2, NoCallFacts
<1>5. \A q \in Procs, fd \in Fds : Closing(q, fd)' <=> Closing(q, fd)
    BY <1>2, <1>3, <1>4, NoCallFacts DEF Closing
<1>6. \A fd \in Fds : ~Closing(req.child, fd)
    BY <1>3 DEF Closing
<1>7. Types'
    BY <1>1, <1>2, <1>4, IdleRequest DEF IInv, Types
<1>8. DeadQuiet'
    BY <1>1, <1>4, NoCallFacts DEF IInv, DeadQuiet
<1>9. ClosingForgotten'
    BY <1>1, <1>4, <1>5, <1>6 DEF IInv, ClosingForgotten
<1>10. Recorded'
    BY <1>1, <1>2, <1>4 DEF IInv, Recorded, ChildTrue
<1>11. MockPlaced'
    BY <1>1, <1>2, <1>4, <1>5 DEF IInv, MockPlaced, ChildTrue
<1> QED
    BY <1>1, <1>7, <1>8, <1>9, <1>10, <1>11, IdleRequest DEF IInv, AnswersTrue

(* handle_process_creation_stop, to each of its ends.                       *)
LEMMA CreationIInv ==
    ASSUME IInv, handle_process_creation_stop
    PROVE  IInv'
<1>1. CASE reject_process_creation
    BY <1>1, RejectIInv
<1>2. CASE continue_to_fork
    BY <1>2, ForkIInv
<1>3. CASE register_process
    BY <1>3, RegisterIInv
<1>4. CASE child_lost
    BY <1>4, ReturnIInv DEF child_lost
<1>5. CASE caller_lost
    <2>1. Idle /\ UNCHANGED <<kind, files, procs, alive, stale, kfd, misled>>
        BY <1>5 DEF caller_lost
    <2>2. CASE UNCHANGED call
        BY <2>1, <2>2, ReturnIInv
    <2>3. CASE /\ pc = "born" /\ req.child \in alive
               /\ call' = [call EXCEPT ![req.child].at = "held"]
        <3>1. call[req.child].at = "halted" /\ req.child \in Procs
            BY <2>3, TableFacts DEF IInv, ChildTrue
        <3>2. call' = [call EXCEPT ![req.child] = [call[req.child] EXCEPT !.at = "held"]]
            BY <2>3
        <3>3. PICK c \in CallType : c = [call[req.child] EXCEPT !.at = "held"] /\ c.at = "held"
            BY <3>1, PlaceChanged
        <3> QED
            BY <2>1, <3>1, <3>2, <3>3, ReturnIInv
    <2> QED
        BY <1>5, <2>2, <2>3 DEF caller_lost
<1> QED
    BY <1>1, <1>2, <1>3, <1>4, <1>5 DEF handle_process_creation_stop

(* A process is forgotten, dead or in a stop.                               *)
LEMMA ReapIInv ==
    ASSUME IInv, NEW p \in Procs, reap_exited(p)
    PROVE  IInv'
<1>1. /\ pc = "idle" /\ procs' = procs \ {p} /\ files' = [files EXCEPT ![p] = Nothing]
      /\ UNCHANGED <<kind, pc, req, alive, stale, kfd, misled>>
    BY DEF reap_exited
<1>2. /\ files \in [Procs -> Files] /\ call \in [Procs -> CallType]
      /\ alive \subseteq Procs /\ procs \subseteq Procs /\ ~req.live
    BY <1>1, TableFacts DEF IInv, RequestTrue
<1>3. /\ files' \in [Procs -> Files]
      /\ \A q \in Procs : files'[q] = IF q = p THEN Nothing ELSE files[q]
    BY <1>1, <1>2, NothingFacts
<1>4. /\ call' \in [Procs -> CallType]
      /\ \A q \in Procs, fd \in Fds : Closing(q, fd)' <=> Closing(q, fd)
      /\ DeadQuiet'
    <2>1. CASE UNCHANGED call
        BY <1>1, <1>2, <2>1 DEF IInv, DeadQuiet, Closing
    <2>2. CASE call[p].at \in {"stopped", "halted"} /\ call' = [call EXCEPT ![p].at = "held"]
        <3>1. call' = [call EXCEPT ![p] = [call[p] EXCEPT !.at = "held"]]
            BY <2>2
        <3>2. PICK c \in CallType : c = [call[p] EXCEPT !.at = "held"] /\ c.at = "held"
            BY PlaceChanged
        <3>3. call' \in [Procs -> CallType] /\ \A q \in Procs : call'[q] = IF q = p THEN c ELSE call[q]
            BY <1>2, <3>1, <3>2
        <3> QED
            BY <1>1, <2>2, <3>2, <3>3 DEF IInv, DeadQuiet, Closing
    <2> QED
        BY <2>1, <2>2 DEF reap_exited
<1>5. Types'
    BY <1>1, <1>2, <1>3, <1>4 DEF IInv, Types
<1>6. RequestTrue' /\ InstallTrue' /\ ChildTrue'
    BY <1>1, <1>2 DEF RequestTrue, InstallTrue, ChildTrue
<1>7. ClosingForgotten' /\ Recorded' /\ MockPlaced'
    BY <1>1, <1>2, <1>3, <1>4, NothingFacts DEF IInv, ClosingForgotten, Recorded, MockPlaced
<1> QED
    BY <1>1, <1>4, <1>5, <1>6, <1>7 DEF IInv, AnswersTrue
----------------------------------------------------------------------------
(* Invariance *)

(* The program's own steps.                                                 *)
LEMMA ProgramIInv ==
    ASSUME IInv, NEW p \in Procs, Program(p)
    PROVE  IInv'
<1>1. ASSUME NEW op \in Ops, NEW fd \in Fds,
             NEW at \in {"pending", "stopped"}, Lives(p),
             call' = [call EXCEPT ![p] = [op |-> op, fd |-> fd, at |-> at]],
             UNCHANGED <<supVars, procVars, kfd, misled>>
      PROVE  IInv'
    <2>0. /\ [op |-> op, fd |-> fd, at |-> at] \in CallType
          /\ [op |-> op, fd |-> fd, at |-> at].at = at
        BY DEF CallType
    <2>1. PICK c \in CallType : c = [op |-> op, fd |-> fd, at |-> at] /\ c.at = at
        BY <2>0
    <2> QED
        BY <1>1, <2>1, NewCallIInv DEF supVars, procVars
<1>2. CASE open(p)
    BY <1>1, <1>2, FdsFacts DEF open, Ops
<1>3. CASE fork(p)
    BY <1>1, <1>3, FdsFacts, FileSpaceAssumption DEF fork, Ops
<1>4. CASE interrupt(p)
    BY <1>4, InterruptIInv
<1>5. CASE die(p)
    BY <1>5, DieIInv
<1>6. ASSUME NEW fd \in Fds, close(p, fd) PROVE IInv'
    <2>1. CASE Allowed(fd)
        BY <1>6, <2>1, CloseAllowedIInv DEF close, supVars, procVars
    <2>2. CASE ~Allowed(fd)
        BY <1>1, <1>6, <2>2 DEF close, Ops
    <2> QED
        BY <2>1, <2>2
<1>7. ASSUME NEW fd \in Fds, use(p, fd) PROVE IInv'
    BY <1>1, <1>7 DEF use, Ops
<1> QED
    BY <1>2, <1>3, <1>4, <1>5, <1>6, <1>7 DEF Program

(* The invariant is inductive.                                              *)
THEOREM Invariance == Spec => []IInv
<1>1. Init => IInv
    BY InitIInv
<1>2. IInv /\ [Next]_vars => IInv'
    <2> SUFFICES ASSUME IInv, [Next]_vars PROVE IInv'
        OBVIOUS
    <2>1. CASE UNCHANGED vars
        BY <2>1 DEF vars, supVars, kernelVars, procVars, IInv, Types, RequestTrue, InstallTrue,
                    ChildTrue, DeadQuiet, Closing, ClosingForgotten, Recorded, MockPlaced, AnswersTrue
    <2>2. CASE Handle
        BY <2>2, RespondRealRangeIInv, RespondMockRangeIInv, RespondMappedIInv, RespondIInv,
           DispatchOpenIInv, DispatchIInv DEF Handle
    <2>3. CASE handle_process_creation_stop
        BY <2>3, CreationIInv
    <2>4. ASSUME NEW p \in Procs, Program(p) PROVE IInv'
        BY <2>4, ProgramIInv
    <2>5. ASSUME NEW p \in Procs, Served(p) PROVE IInv'
        BY <2>5, FinishIInv, RecvIInv, TryCreationIInv DEF Served
    <2>6. ASSUME NEW p \in Procs, reap_exited(p) PROVE IInv'
        BY <2>6, ReapIInv
    <2> QED
        BY <2>1, <2>2, <2>3, <2>4, <2>5, <2>6 DEF Next
<1> QED
    BY <1>1, <1>2, PTL DEF Spec

(* A mock file in the program's hands is known as that mock, and no call on *)
(* it bypasses the supervisor, for both file spaces.                        *)
THEOREM MocksStayKnown == Spec => []MocksKnown
<1>1. IInv => MocksKnown
    <2> SUFFICES ASSUME IInv, NEW p \in Procs, Settled(p), p \notin stale,
                        NEW fd \in Fds, kfd[p][fd] \in Nat
                 PROVE  lookup_fd(p, fd) = kfd[p][fd] /\ ~Allowed(fd)
        BY DEF MocksKnown
    <2>1. p \in alive \cap procs /\ ~Closing(p, fd)
        BY NoCallFacts DEF Settled, Closing
    <2>2. CASE kind = "mapped"
        BY <2>1, <2>2 DEF IInv, MockPlaced, lookup_fd, Allowed
    <2>3. CASE kind = "range"
        <3>1. fd = MOCK_FD_BASE + kfd[p][fd] /\ MOCK_FD_BASE \in Nat
            BY <2>1, <2>3, FileSpaceAssumption DEF IInv, MockPlaced
        <3>2. ~(fd < MOCK_FD_BASE) /\ fd - MOCK_FD_BASE = kfd[p][fd] /\ kfd[p][fd] # NoFile
            BY <3>1 DEF NoFile
        <3> QED
            BY <2>3, <3>2 DEF lookup_fd, decode_mock, Allowed
    <2> QED
        BY <2>2, <2>3, KindFacts
<1> QED
    BY <1>1, Invariance, PTL

(* A record of MappedFileSpace denotes the file that is open at its number. *)
THEOREM RecordsStayTrue == Spec => []RecordsTrue
<1>1. IInv => RecordsTrue
    BY DEF IInv, Recorded, RecordsTrue, Settled
<1> QED
    BY <1>1, Invariance, PTL

(* No process is told of a descriptor it does not have.                     *)
THEOREM NobodyMisled == Spec => []AnswersTrue
<1>1. IInv => AnswersTrue
    BY DEF IInv
<1> QED
    BY <1>1, Invariance, PTL
=============================================================================
