------------------------ MODULE SeccompPolicyProofs ------------------------
(***************************************************************************)
(* Proofs about SeccompPolicy.tla, for every width of descriptors and      *)
(* arguments, every base of the mock range and every set of names that the *)
(* build's libseccomp may not know.                                        *)
(***************************************************************************)
EXTENDS SeccompPolicy, SequenceTheorems, TLAPS

(* The names that every policy allows outright.                             *)
AlwaysAllowed ==
    ToSet(PROCESS_EXIT) \cup ToSet(PROCESS_EXECUTION) \cup ToSet(LOCAL_SIGNAL_STATE)
    \cup ToSet(LOCAL_MEMORY) \cup ToSet(THREAD_RUNTIME)
    \cup ToSet(NONDETERMINISTIC_ENVIRONMENT)

(* The names that some policy allows outright.                              *)
Allowed ==
    AlwaysAllowed \cup ToSet(PROCESS_INFORMATION) \cup ToSet(PROCESS_CHANGE)
    \cup ToSet(PROCESS_CONFIGURATION)

(* The names that policy p may allow outright.                              *)
MayAllow(p, n) == n \in AlwaysAllowed \/ (n \in Allowed /\ FileBehaviorOnly(p))

(* The names that the range policies decide by argument zero.               *)
ByArgument == ToSet(FD_FILE_OPERATIONS) \cup ToSet(FD_SOCKET_OPERATIONS)

Hows == {"allow", "mmap", "arg0", "trace"}

Names == Allowed \cup ByArgument \cup CreationCalls \cup {"mmap"}

(* A group of export_filter(p) and the names that may be in it.             *)
IsGroup(p, g) ==
    \/ g.how = "allow" /\ \A n \in ToSet(g.names) : MayAllow(p, n)
    \/ g.how = "mmap" /\ ToSet(g.names) = {"mmap"}
    \/ g.how = "arg0" /\ ToSet(g.names) \subseteq ByArgument
    \/ g.how = "trace" /\ ToSet(g.names) = CreationCalls
    \/ g.how = "notify"

(* What a rule of a filter for policy p may say of the name n.              *)
RuleTrue(p, n, r) ==
    \/ r = "allow" /\ MayAllow(p, n)
    \/ r = "mmap" /\ n = "mmap"
    \/ r = "arg0" /\ n \in ByArgument /\ p.fd # "mapped"
    \/ r = "trace" /\ n \in CreationCalls

RulesTrue(p, f) == /\ f \in [DOMAIN f -> Hows]
                   /\ \A n \in DOMAIN f : RuleTrue(p, n, f[n])

(* The place of the traced group.                                           *)
TracePlace(p) == IF FileBehaviorOnly(p) THEN 12 ELSE 9

(* The rules that are there when the groups before k are done.              *)
Present(p, k, f) ==
    /\ k > 1 => {"exit", "exit_group"} \subseteq DOMAIN f
    /\ k > 2 => "execve" \in DOMAIN f
    /\ k > TracePlace(p) => CreationCalls \subseteq DOMAIN f

FilterTrue(p, f) == RulesTrue(p, f) /\ StartupCalls \cup CreationCalls \subseteq DOMAIN f

(* The inductive invariant.                                                 *)
IInv ==
    /\ missing \subseteq Newer
    /\ next \in 1..5 /\ step \in Nat \ {0}
    /\ next <= 4 => RulesTrue(POLICIES[next], rules) /\ Present(POLICIES[next], step, rules)
    /\ filters \in Seq(UNION {[D -> Hows] : D \in SUBSET Names})
    /\ Len(filters) = next - 1
    /\ \A i \in 1..Len(filters) : FilterTrue(POLICIES[i], filters[i])
----------------------------------------------------------------------------
(* The tables *)

(* The traced group has the calls that process_creation_flags understands.  *)
LEMMA TracedNames == ToSet(PROCESS_TOPOLOGY) = CreationCalls
BY DEF ToSet, PROCESS_TOPOLOGY, CreationCalls

(* The first two groups have the calls of the startup.                      *)
LEMMA StartupNames ==
    /\ ToSet(PROCESS_EXIT) = {"exit", "exit_group"}
    /\ ToSet(PROCESS_EXECUTION) = {"execve"}
BY DEF ToSet, PROCESS_EXIT, PROCESS_EXECUTION

(* The names of the other groups that are allowed outright.                 *)
LEMMA AllowedNames ==
    /\ ToSet(LOCAL_SIGNAL_STATE) =
          {"rt_sigaction", "rt_sigprocmask", "rt_sigreturn", "sigaltstack",
           "restart_syscall"}
    /\ ToSet(LOCAL_MEMORY) =
          {"brk", "munmap", "mprotect", "mremap", "madvise"}
    /\ ToSet(THREAD_RUNTIME) =
          {"arch_prctl", "set_tid_address", "set_robust_list", "get_robust_list", "rseq",
           "futex", "futex_waitv", "sched_yield"}
    /\ ToSet(NONDETERMINISTIC_ENVIRONMENT) =
          {"clock_gettime", "clock_getres", "gettimeofday", "time", "times", "nanosleep",
           "clock_nanosleep", "getrandom", "uname", "sysinfo", "getrlimit", "getrusage"}
    /\ ToSet(PROCESS_INFORMATION) =
          {"getpid", "getppid", "gettid", "getuid", "geteuid", "getgid", "getegid",
           "getresuid", "getresgid", "getgroups", "getpgrp", "getpgid", "getsid"}
    /\ ToSet(PROCESS_CHANGE) =
          {"kill", "tkill", "tgkill", "rt_sigqueueinfo", "rt_tgsigqueueinfo",
           "pidfd_send_signal", "setpgid", "setsid", "setpriority", "sched_setaffinity",
           "sched_setscheduler", "sched_setparam", "sched_setattr"}
    /\ ToSet(PROCESS_CONFIGURATION) =
          {"prctl", "personality"}
<1>1. ToSet(LOCAL_SIGNAL_STATE) =
          {"rt_sigaction", "rt_sigprocmask", "rt_sigreturn", "sigaltstack",
           "restart_syscall"}
    BY DEF ToSet, LOCAL_SIGNAL_STATE
<1>2. ToSet(LOCAL_MEMORY) =
          {"brk", "munmap", "mprotect", "mremap", "madvise"}
    BY DEF ToSet, LOCAL_MEMORY
<1>3. ToSet(THREAD_RUNTIME) =
          {"arch_prctl", "set_tid_address", "set_robust_list", "get_robust_list", "rseq",
           "futex", "futex_waitv", "sched_yield"}
    BY DEF ToSet, THREAD_RUNTIME
<1>4. ToSet(NONDETERMINISTIC_ENVIRONMENT) =
          {"clock_gettime", "clock_getres", "gettimeofday", "time", "times", "nanosleep",
           "clock_nanosleep", "getrandom", "uname", "sysinfo", "getrlimit", "getrusage"}
    BY DEF ToSet, NONDETERMINISTIC_ENVIRONMENT
<1>5. ToSet(PROCESS_INFORMATION) =
          {"getpid", "getppid", "gettid", "getuid", "geteuid", "getgid", "getegid",
           "getresuid", "getresgid", "getgroups", "getpgrp", "getpgid", "getsid"}
    BY DEF ToSet, PROCESS_INFORMATION
<1>6. ToSet(PROCESS_CHANGE) =
          {"kill", "tkill", "tgkill", "rt_sigqueueinfo", "rt_tgsigqueueinfo",
           "pidfd_send_signal", "setpgid", "setsid", "setpriority", "sched_setaffinity",
           "sched_setscheduler", "sched_setparam", "sched_setattr"}
    BY DEF ToSet, PROCESS_CHANGE
<1>7. ToSet(PROCESS_CONFIGURATION) =
          {"prctl", "personality"}
    BY DEF ToSet, PROCESS_CONFIGURATION
<1> QED
    BY <1>1, <1>2, <1>3, <1>4, <1>5, <1>6, <1>7

(* No call on a descriptor is always allowed, traced or mmap, and only one  *)
(* is allowed by some policy.                                               *)
LEMMA FileCallsApart ==
    \A n \in FileCalls : /\ n \notin AlwaysAllowed /\ n \notin CreationCalls /\ n # "mmap"
                         /\ n \in Allowed => n = SignalByDescriptor
<1> DEFINE F == {"read", "write", "readv", "writev", "pread64", "pwrite64", "preadv",
                 "pwritev", "preadv2", "pwritev2", "lseek", "fsync", "fdatasync",
                 "ftruncate", "close"}
           S == {"sendto", "recvfrom", "sendmsg", "recvmsg", "sendmmsg", "recvmmsg",
                 "shutdown", "getsockname", "getpeername", "getsockopt", "setsockopt"}
<1>1. ToSet(FD_FILE_OPERATIONS) = F
    BY DEF ToSet, FD_FILE_OPERATIONS
<1>2. ToSet(FD_SOCKET_OPERATIONS) = S
    BY DEF ToSet, FD_SOCKET_OPERATIONS
<1> DEFINE C == FileCalls
<1>3. \A n \in C : n \notin ToSet(PROCESS_EXIT) /\ n \notin ToSet(PROCESS_EXECUTION)
    BY <1>1, <1>2, StartupNames DEF FileCalls
<1>4. \A n \in C : n \notin ToSet(LOCAL_SIGNAL_STATE) /\ n \notin ToSet(LOCAL_MEMORY)
    BY <1>1, <1>2, AllowedNames DEF FileCalls
<1>5. \A n \in C : n \notin ToSet(THREAD_RUNTIME)
    BY <1>1, <1>2, AllowedNames DEF FileCalls
<1>6. \A n \in C : n \notin ToSet(NONDETERMINISTIC_ENVIRONMENT)
    BY <1>1, <1>2, AllowedNames DEF FileCalls
<1>7. \A n \in C : n \notin ToSet(PROCESS_INFORMATION)
    BY <1>1, <1>2, AllowedNames DEF FileCalls
<1>8. \A n \in C : n \in ToSet(PROCESS_CHANGE) => n = SignalByDescriptor
    BY <1>1, <1>2, AllowedNames DEF FileCalls, SignalByDescriptor
<1>9. \A n \in C : n \notin ToSet(PROCESS_CONFIGURATION)
    BY <1>1, <1>2, AllowedNames DEF FileCalls
<1>10. \A n \in C : n \notin CreationCalls /\ n # "mmap"
    BY <1>1, <1>2 DEF FileCalls, CreationCalls
<1> QED
    BY <1>3, <1>4, <1>5, <1>6, <1>7, <1>8, <1>9, <1>10 DEF Allowed, AlwaysAllowed

(* A call of the startup is neither decided by its argument nor traced.     *)
LEMMA StartupApart ==
    \A n \in StartupCalls : n \notin ByArgument /\ n \notin CreationCalls /\ n # "mmap"
BY DEF StartupCalls, ByArgument, CreationCalls, ToSet, FD_FILE_OPERATIONS,
       FD_SOCKET_OPERATIONS

(* A process creation is neither allowed outright nor decided by its        *)
(* argument.                                                                *)
LEMMA CreationApart ==
    \A n \in CreationCalls : n \notin ByArgument /\ n \notin Allowed /\ n # "mmap"
<1>1. \A n \in CreationCalls : n \notin ByArgument /\ n # "mmap"
    BY DEF ByArgument, CreationCalls, ToSet, FD_FILE_OPERATIONS, FD_SOCKET_OPERATIONS
<1>2. \A n \in CreationCalls : n \notin ToSet(PROCESS_EXIT) /\ n \notin ToSet(PROCESS_EXECUTION)
    BY StartupNames DEF CreationCalls
<1>3. \A n \in CreationCalls : n \notin ToSet(LOCAL_SIGNAL_STATE) /\ n \notin ToSet(LOCAL_MEMORY)
    BY AllowedNames DEF CreationCalls
<1>4. \A n \in CreationCalls : n \notin ToSet(THREAD_RUNTIME)
    BY AllowedNames DEF CreationCalls
<1>5. \A n \in CreationCalls : n \notin ToSet(NONDETERMINISTIC_ENVIRONMENT)
    BY AllowedNames DEF CreationCalls
<1>6. \A n \in CreationCalls : n \notin ToSet(PROCESS_INFORMATION)
    BY AllowedNames DEF CreationCalls
<1>7. \A n \in CreationCalls : n \notin ToSet(PROCESS_CHANGE) /\ n \notin ToSet(PROCESS_CONFIGURATION)
    BY AllowedNames DEF CreationCalls
<1> QED
    BY <1>1, <1>2, <1>3, <1>4, <1>5, <1>6, <1>7 DEF Allowed, AlwaysAllowed

(* The groups of export_filter, the places of the first two and of the      *)
(* traced one.                                                              *)
LEMMA Groups ==
    ASSUME NEW p
    PROVE  /\ Len(export_filter(p)) \in Nat /\ Len(export_filter(p)) > TracePlace(p)
           /\ TracePlace(p) > 2
           /\ \A k \in 1..Len(export_filter(p)) : IsGroup(p, export_filter(p)[k])
           /\ export_filter(p)[1] = Group("allow", PROCESS_EXIT)
           /\ export_filter(p)[2] = Group("allow", PROCESS_EXECUTION)
           /\ export_filter(p)[TracePlace(p)] = Group("trace", PROCESS_TOPOLOGY)
<1> DEFINE A == << Group("allow", PROCESS_EXIT), Group("allow", PROCESS_EXECUTION),
                   Group("allow", LOCAL_SIGNAL_STATE), Group("allow", LOCAL_MEMORY),
                   Group("allow", THREAD_RUNTIME), Group("allow", NONDETERMINISTIC_ENVIRONMENT) >>
           B == IF FileBehaviorOnly(p) THEN FileOnlyGroups ELSE <<>>
           C == << Group("mmap", <<"mmap">>), Group("arg0", FD_FILE_OPERATIONS),
                   Group("trace", PROCESS_TOPOLOGY), Group("arg0", FD_SOCKET_OPERATIONS),
                   Group("notify", FILESYSTEM_PATH_OPERATIONS), Group("notify", FD_TOPOLOGY),
                   Group("notify", NETWORK_TOPOLOGY), Group("notify", SUPERVISED_EXECUTION),
                   Group("notify", GENERAL_CASE_OPERATIONS), Group("notify", POLL_AND_READINESS),
                   Group("notify", SPECIAL_FD_OPERATIONS), Group("notify", UNSUPPORTED_ASYNC_IO) >>
           E == export_filter(p)
           F == IF FileBehaviorOnly(p) THEN {FileOnlyGroups[k] : k \in 1..3} ELSE {}
           G == UNION {{A[k] : k \in 1..6}, F, {C[k] : k \in 1..12}}
<1>1. E = A \o B \o C
    BY DEF export_filter
<1>2. /\ A \in Seq(G) /\ Len(A) = 6 /\ C \in Seq(G) /\ Len(C) = 12
      /\ A[1] = Group("allow", PROCESS_EXIT) /\ A[2] = Group("allow", PROCESS_EXECUTION)
      /\ C[3] = Group("trace", PROCESS_TOPOLOGY)
    OBVIOUS
<1>3. B \in Seq(G) /\ Len(B) = IF FileBehaviorOnly(p) THEN 3 ELSE 0
    <2>1. /\ FileBehaviorOnly(p) => FileOnlyGroups \in Seq(G)
          /\ Len(FileOnlyGroups) = 3
        BY DEF FileOnlyGroups
    <2>2. <<>> \in Seq(G) /\ Len(<<>>) = 0
        OBVIOUS
    <2>3. CASE FileBehaviorOnly(p)
        <3>1. B = FileOnlyGroups
            BY <2>3
        <3> HIDE DEF A, B, C, F, G
        <3> QED
            BY <2>1, <2>3, <3>1
    <2>4. CASE ~FileBehaviorOnly(p)
        <3>1. B = <<>>
            BY <2>4
        <3> HIDE DEF A, B, C, F, G
        <3> QED
            BY <2>2, <2>4, <3>1
    <2> QED
        BY <2>3, <2>4
<1>4. \A k \in 1..6 : IsGroup(p, A[k])
    <2>1. \A k \in 1..6 : A[k].how = "allow"
        BY DEF Group
    <2>2. \A k \in 1..6 : ToSet(A[k].names) \subseteq AlwaysAllowed
        BY DEF Group, AlwaysAllowed
    <2> HIDE DEF A
    <2> QED
        BY <2>1, <2>2 DEF IsGroup, MayAllow
<1>5. FileBehaviorOnly(p) => \A k \in 1..3 : IsGroup(p, FileOnlyGroups[k])
    BY DEF IsGroup, Group, MayAllow, Allowed, FileOnlyGroups
<1>6. \A k \in 1..12 : IsGroup(p, C[k])
    <2>1. ToSet(<<"mmap">>) = {"mmap"}
        BY DEF ToSet
    <2> QED
        BY <2>1, TracedNames DEF IsGroup, Group, ByArgument
<1>7. \A g \in G : IsGroup(p, g)
    BY <1>4, <1>5, <1>6
<1> HIDE DEF A, B, C, F, G, E
<1>8. /\ A \o B \in Seq(G) /\ Len(A \o B) = 6 + Len(B)
      /\ (A \o B)[1] = A[1] /\ (A \o B)[2] = A[2]
    <2>1. Len(B) \in Nat
        BY <1>3
    <2>2. 1 \in 1..(Len(A) + Len(B)) /\ 2 \in 1..(Len(A) + Len(B))
        BY <1>2, <2>1
    <2>3. /\ A \o B \in Seq(G) /\ Len(A \o B) = Len(A) + Len(B)
          /\ \A k \in 1..(Len(A) + Len(B)) :
                (A \o B)[k] = IF k <= Len(A) THEN A[k] ELSE B[k - Len(A)]
        BY <1>2, <1>3, ConcatProperties
    <2> QED
        BY <1>2, <2>2, <2>3
<1>9. /\ E \in Seq(G) /\ Len(E) = 18 + Len(B)
      /\ E[1] = A[1] /\ E[2] = A[2] /\ E[9 + Len(B)] = C[3]
    <2> DEFINE D == A \o B
    <2>1. Len(B) \in Nat /\ D \in Seq(G) /\ Len(D) = 6 + Len(B) /\ E = D \o C
        BY <1>1, <1>3, <1>8
    <2>2. D[1] = A[1] /\ D[2] = A[2]
        BY <1>8
    <2> HIDE DEF D
    <2>3. /\ E \in Seq(G) /\ Len(E) = Len(D) + Len(C)
          /\ \A k \in 1..(Len(D) + Len(C)) : E[k] = IF k <= Len(D) THEN D[k] ELSE C[k - Len(D)]
        BY <1>2, <2>1, ConcatProperties
    <2>4. E[1] = D[1] /\ E[2] = D[2]
        BY <1>2, <2>1, <2>3
    <2>5. 9 + Len(B) \in 1..(Len(D) + Len(C)) /\ ~(9 + Len(B) <= Len(D)) /\ 9 + Len(B) - Len(D) = 3
        BY <1>2, <2>1
    <2>6. E[9 + Len(B)] = C[3]
        BY <2>3, <2>5
    <2> QED
        BY <1>2, <2>1, <2>2, <2>3, <2>4, <2>6
<1>10. \A k \in 1..Len(E) : IsGroup(p, E[k])
    BY <1>7, <1>9
<1>11. TracePlace(p) = 9 + Len(B)
    BY <1>3 DEF TracePlace
<1> QED
    BY <1>2, <1>3, <1>9, <1>10, <1>11 DEF E
----------------------------------------------------------------------------
(* Building *)

(* No rules are true rules, and nothing need be there before the first      *)
(* group.                                                                   *)
LEMMA NoRulesTrue ==
    ASSUME NEW p
    PROVE  RulesTrue(p, NoRules) /\ Present(p, 1, NoRules)
<1>1. DOMAIN NoRules = {} /\ NoRules \in [DOMAIN NoRules -> Hows]
    BY DEF NoRules
<1>2. ~(1 > TracePlace(p))
    BY DEF TracePlace
<1> QED
    BY <1>1, <1>2 DEF RulesTrue, Present

(* The rules of a group are true, and there is one for every name that the  *)
(* build's libseccomp knows, unless the group only registers its names.     *)
LEMMA GroupRules ==
    ASSUME NEW p, NEW g, IsGroup(p, g)
    PROVE  /\ RulesTrue(p, RulesOf(p, g))
           /\ g.how \in {"allow", "trace"} => DOMAIN RulesOf(p, g) = ToSet(g.names) \ missing
<1>1. RulesTrue(p, NoRules)
    BY NoRulesTrue
<1>2. CASE g.how = "notify"
    BY <1>1, <1>2 DEF RulesOf
<1>3. CASE g.how = "arg0" /\ ToSet(g.names) \subseteq ByArgument
    <2>1. RulesOf(p, g) = add_fd_arg0_rules(p, g.names)
        BY <1>3 DEF RulesOf
    <2>2. CASE p.fd = "mapped"
        BY <1>1, <1>3, <2>1, <2>2 DEF add_fd_arg0_rules
    <2>3. CASE p.fd # "mapped"
        <3>1. RulesOf(p, g) = [n \in resolve_optional(g.names) |-> "arg0"]
            BY <2>1, <2>3 DEF add_fd_arg0_rules
        <3>2. resolve_optional(g.names) \subseteq ByArgument
            BY <1>3 DEF resolve_optional
        <3> QED
            BY <1>3, <2>3, <3>1, <3>2 DEF RulesTrue, RuleTrue, Hows
    <2> QED
        BY <2>2, <2>3
<1>4. CASE g.how \in {"allow", "mmap", "trace"}
    <2>1. RulesOf(p, g) = [n \in ToSet(g.names) \ missing |-> g.how]
        BY <1>4 DEF RulesOf, resolve_optional
    <2>2. \A n \in ToSet(g.names) : RuleTrue(p, n, g.how)
        BY <1>4 DEF IsGroup, RuleTrue
    <2> QED
        BY <1>4, <2>1, <2>2 DEF RulesTrue, Hows
<1> QED
    BY <1>2, <1>3, <1>4 DEF IsGroup

(* Adding true rules to true rules.                                         *)
LEMMA AddedRules ==
    ASSUME NEW p, NEW new, RulesTrue(p, rules), RulesTrue(p, new)
    PROVE  RulesTrue(p, Added(new)) /\ DOMAIN Added(new) = DOMAIN rules \cup DOMAIN new
<1>1. DOMAIN Added(new) = DOMAIN rules \cup DOMAIN new
    BY DEF Added
<1>2. \A n \in DOMAIN Added(new) :
         /\ n \in DOMAIN rules => Added(new)[n] = rules[n]
         /\ n \notin DOMAIN rules => n \in DOMAIN new /\ Added(new)[n] = new[n]
    BY DEF Added
<1>3. \A n \in DOMAIN Added(new) : Added(new)[n] \in Hows /\ RuleTrue(p, n, Added(new)[n])
    BY <1>1, <1>2 DEF RulesTrue
<1>4. Added(new) = [n \in DOMAIN Added(new) |-> Added(new)[n]]
    BY DEF Added
<1>5. Added(new) \in [DOMAIN Added(new) -> Hows]
    BY <1>3, <1>4
<1> QED
    BY <1>1, <1>3, <1>5 DEF RulesTrue

(* One group.                                                               *)
LEMMA AddGroupIInv ==
    ASSUME IInv, add_group
    PROVE  IInv'
<1> DEFINE p == POLICIES[next]
           g == export_filter(p)[step]
<1>1. /\ next <= Len(POLICIES) /\ step <= Len(export_filter(p))
      /\ UNCHANGED <<missing, next, filters>>
    BY DEF add_group
<1>2. /\ missing \subseteq Newer /\ next \in 1..5 /\ step \in Nat \ {0}
      /\ filters \in Seq(UNION {[D -> Hows] : D \in SUBSET Names})
      /\ Len(filters) = next - 1
      /\ \A i \in 1..Len(filters) : FilterTrue(POLICIES[i], filters[i])
    BY DEF IInv
<1>3. next <= 4
    BY <1>1, <1>2 DEF POLICIES
<1>4. RulesTrue(p, rules) /\ Present(p, step, rules)
    BY <1>3 DEF IInv
<1>5. \/ rules' = Added(RulesOf(p, g)) /\ step' = step + 1
      \/ UNCHANGED <<rules, step>>
    BY DEF add_group
<1> HIDE DEF p
<1>6. /\ Len(export_filter(p)) \in Nat /\ IsGroup(p, g)
      /\ step = 1 => g = Group("allow", PROCESS_EXIT)
      /\ step = 2 => g = Group("allow", PROCESS_EXECUTION)
      /\ step = TracePlace(p) => g = Group("trace", PROCESS_TOPOLOGY)
      /\ TracePlace(p) \in Nat
    <2>1. TracePlace(p) \in Nat
        BY DEF TracePlace
    <2>2. Len(export_filter(p)) \in Nat
        BY Groups
    <2>3. step \in 1..Len(export_filter(p))
        BY <1>1, <1>2, <2>2
    <2> QED
        BY <2>1, <2>2, <2>3, Groups
<1> HIDE DEF g
<1>7. RulesTrue(p, rules') /\ Present(p, step', rules')
    <2>1. CASE UNCHANGED <<rules, step>>
        BY <1>4, <2>1
    <2>2. CASE rules' = Added(RulesOf(p, g)) /\ step' = step + 1
        <3>1. /\ RulesTrue(p, RulesOf(p, g))
              /\ g.how \in {"allow", "trace"} => DOMAIN RulesOf(p, g) = ToSet(g.names) \ missing
            BY <1>6, GroupRules
        <3>2. RulesTrue(p, rules') /\ DOMAIN rules' = DOMAIN rules \cup DOMAIN RulesOf(p, g)
            BY <1>4, <2>2, <3>1, AddedRules
        <3>3. missing \cap (StartupCalls \cup CreationCalls) = {}
            BY <1>2, NewerAssumption
        <3>4. step = 1 => {"exit", "exit_group"} \subseteq DOMAIN rules'
            BY <1>6, <3>1, <3>2, <3>3, StartupNames DEF Group, StartupCalls
        <3>5. step = 2 => "execve" \in DOMAIN rules'
            BY <1>6, <3>1, <3>2, <3>3, StartupNames DEF Group, StartupCalls
        <3>6. step = TracePlace(p) => CreationCalls \subseteq DOMAIN rules'
            BY <1>6, <3>1, <3>2, <3>3, TracedNames DEF Group
        <3>7. step > 1 => {"exit", "exit_group"} \subseteq DOMAIN rules'
            BY <1>4, <3>2 DEF Present
        <3>8. step > 2 => "execve" \in DOMAIN rules'
            BY <1>4, <3>2 DEF Present
        <3>9. step > TracePlace(p) => CreationCalls \subseteq DOMAIN rules'
            BY <1>4, <3>2 DEF Present
        <3>10. /\ step' > 1 => step = 1 \/ step > 1
               /\ step' > 2 => step = 2 \/ step > 2
               /\ step' > TracePlace(p) => step = TracePlace(p) \/ step > TracePlace(p)
            BY <1>2, <1>6, <2>2
        <3> QED
            BY <3>2, <3>4, <3>5, <3>6, <3>7, <3>8, <3>9, <3>10 DEF Present
    <2> QED
        BY <1>5, <2>1, <2>2
<1>8. step' \in Nat \ {0}
    BY <1>2, <1>5
<1>9. POLICIES[next'] = p
    BY <1>1 DEF p
<1> QED
    BY <1>1, <1>2, <1>7, <1>8, <1>9 DEF IInv

(* A filter that is exported has gone through all groups.                   *)
LEMMA ExportIInv ==
    ASSUME IInv, export_bpf
    PROVE  IInv'
<1> DEFINE p == POLICIES[next]
           R == UNION {[D -> Hows] : D \in SUBSET Names}
<1>1. /\ next <= Len(POLICIES) /\ step > Len(export_filter(p))
      /\ filters' = Append(filters, rules)
      /\ next' = next + 1 /\ step' = 1 /\ rules' = NoRules
      /\ UNCHANGED missing
    BY DEF export_bpf
<1>2. /\ missing \subseteq Newer /\ next \in 1..5 /\ step \in Nat \ {0}
      /\ filters \in Seq(R) /\ Len(filters) = next - 1
      /\ \A i \in 1..Len(filters) : FilterTrue(POLICIES[i], filters[i])
    BY DEF IInv
<1>3. next <= 4
    BY <1>1, <1>2 DEF POLICIES
<1>4. RulesTrue(p, rules) /\ Present(p, step, rules)
    BY <1>3 DEF IInv
<1>5. FilterTrue(p, rules)
    <2>1. step > TracePlace(p) /\ step > 2 /\ step > 1
        <3>1. Len(export_filter(p)) \in Nat /\ Len(export_filter(p)) > TracePlace(p) /\ TracePlace(p) > 2
            BY Groups
        <3>2. TracePlace(p) \in Nat
            BY DEF TracePlace
        <3> HIDE DEF p
        <3> QED
            BY <1>1, <1>2, <3>1, <3>2
    <2> HIDE DEF p
    <2> QED
        BY <1>4, <2>1 DEF Present, FilterTrue, StartupCalls
<1>6. rules \in R
    <2>1. DOMAIN rules \in SUBSET Names /\ rules \in [DOMAIN rules -> Hows]
        BY <1>4 DEF RulesTrue, RuleTrue, MayAllow, Allowed, Names
    <2> QED
        BY <2>1
<1> HIDE DEF R
<1>7. /\ filters' \in Seq(R) /\ Len(filters') = next
      /\ \A i \in 1..(next - 1) : filters'[i] = filters[i]
      /\ filters'[next] = rules
    BY <1>1, <1>2, <1>6
<1>8. \A i \in 1..Len(filters') : FilterTrue(POLICIES[i], filters'[i])
    <2> SUFFICES ASSUME NEW i \in 1..next PROVE FilterTrue(POLICIES[i], filters'[i])
        BY <1>7
    <2>1. CASE i = next
        BY <1>5, <1>7, <2>1
    <2>2. CASE i \in 1..(next - 1)
        BY <1>2, <1>7, <2>2
    <2> QED
        BY <1>2, <2>1, <2>2
<1>9. RulesTrue(POLICIES[next'], rules') /\ Present(POLICIES[next'], step', rules')
    BY <1>1, NoRulesTrue
<1>10. next' \in 1..5 /\ step' \in Nat \ {0} /\ Len(filters') = next' - 1
    BY <1>1, <1>2, <1>3, <1>7
<1> QED
    BY <1>1, <1>2, <1>7, <1>8, <1>9, <1>10 DEF IInv, R

(* The invariant holds while the build script runs.                         *)
LEMMA Invariance == Spec => []IInv
<1>1. Init => IInv
    <2> SUFFICES ASSUME Init PROVE IInv
        OBVIOUS
    <2>1. /\ missing \subseteq Newer /\ next = 1 /\ step = 1
          /\ rules = NoRules /\ filters = <<>>
        BY DEF Init
    <2>2. Len(filters) = 0 /\ filters \in Seq(UNION {[D -> Hows] : D \in SUBSET Names})
        BY <2>1
    <2>3. RulesTrue(POLICIES[next], rules) /\ Present(POLICIES[next], step, rules)
        BY <2>1, NoRulesTrue
    <2> QED
        BY <2>1, <2>2, <2>3 DEF IInv
<1>2. IInv /\ [Next]_vars => IInv'
    <2> SUFFICES ASSUME IInv, [Next]_vars PROVE IInv'
        OBVIOUS
    <2>1. CASE UNCHANGED vars
        BY <2>1 DEF vars, IInv
    <2> QED
        BY <2>1, AddGroupIInv, ExportIInv DEF Next
<1> QED
    BY <1>1, <1>2, PTL DEF Spec
----------------------------------------------------------------------------
(* The exported filters *)

(* The rule of an exported filter for a name.                               *)
LEMMA Exported ==
    ASSUME IInv, NEW i \in DOMAIN filters
    PROVE  /\ StartupCalls \cup CreationCalls \subseteq DOMAIN filters[i]
           /\ \A n \in DOMAIN filters[i] : RuleTrue(POLICIES[i], n, filters[i][n])
<1>1. i \in 1..Len(filters)
    BY DEF IInv
<1> QED
    BY <1>1 DEF IInv, FilterTrue, RulesTrue

(* What the answers of a filter to a name are.                              *)
LEMMA AnswersAre ==
    ASSUME NEW f, NEW n, NEW x
    PROVE  x \in Answers(f, n) <=> \E a \in Args : \E b \in BOOLEAN : x = Answer(f, n, a, b)
BY DEF Answers

(* Under every filter a call on a descriptor of the mock range reaches the  *)
(* supervisor, but for pidfd_send_signal in the filters that leave signals  *)
(* alone: an argument below the base is the descriptor itself, whatever     *)
(* bits are above it.                                                       *)
THEOREM MocksReachSupervisor == Spec => []MocksSupervised
<1>1. IInv => MocksSupervised
    <2> SUFFICES ASSUME IInv, NEW i \in DOMAIN filters, NEW n \in FileCalls, NEW a \in Args,
                        NEW b \in BOOLEAN,
                        POLICIES[i].fd = "mapped" \/ Fd(a) >= MOCK_FD_BASE,
                        ~(FileBehaviorOnly(POLICIES[i]) /\ n = SignalByDescriptor)
                 PROVE  Answer(filters[i], n, a, b) = "notify"
        BY DEF MocksSupervised
    <2> DEFINE f == filters[i]
    <2>1. CASE n \notin DOMAIN f
        BY <2>1 DEF Answer
    <2>2. CASE n \in DOMAIN f
        <3>1. f[n] = "arg0" /\ POLICIES[i].fd # "mapped"
            BY <2>2, Exported, FileCallsApart DEF RuleTrue, MayAllow
        <3>2. ~BelowBase(a)
            <4> SUFFICES ASSUME a < MOCK_FD_BASE PROVE FALSE
                BY DEF BelowBase
            <4>1. a \in Nat /\ IntMax + 1 \in Nat /\ a < IntMax + 1 /\ MOCK_FD_BASE \in Nat
                BY SeccompAssumption DEF Args
            <4>2. a % (IntMax + 1) = a
                BY <4>1
            <4>3. a >= MOCK_FD_BASE
                BY <3>1, <4>2 DEF Fd
            <4> QED
                BY <4>1, <4>3
        <3> QED
            BY <2>2, <3>1, <3>2 DEF Answer
    <2> QED
        BY <2>1, <2>2
<1> QED
    BY <1>1, Invariance, PTL

(* Under every filter the calls of the startup pass without an answer.      *)
THEOREM StartupPasses == Spec => []StartupUnattended
<1>1. IInv => StartupUnattended
    <2> SUFFICES ASSUME IInv, NEW i \in DOMAIN filters, NEW n \in StartupCalls
                 PROVE  Answers(filters[i], n) = {"allow"}
        BY DEF StartupUnattended
    <2> DEFINE f == filters[i]
    <2>1. n \in DOMAIN f /\ f[n] = "allow"
        BY Exported, StartupApart DEF RuleTrue
    <2>2. \A a \in Args : \A b \in BOOLEAN : Answer(f, n, a, b) = "allow"
        BY <2>1 DEF Answer
    <2>3. 0 \in Args
        BY SeccompAssumption DEF Args
    <2> HIDE DEF f
    <2>4. \A x : x \in Answers(f, n) => x = "allow"
        BY <2>2, AnswersAre
    <2>5. "allow" \in Answers(f, n)
        <3>1. Answer(f, n, 0, TRUE) = "allow" /\ TRUE \in BOOLEAN
            BY <2>2, <2>3
        <3> QED
            BY <2>3, <3>1, AnswersAre, Zenon
    <2>6. Answers(f, n) = {"allow"}
        BY <2>4, <2>5
    <2> QED
        BY <2>6 DEF f
<1> QED
    BY <1>1, Invariance, PTL

(* Under every filter exactly the process creations stop under ptrace.      *)
THEOREM CreationsTraced == Spec => []TracedUnderstood
<1>1. IInv => TracedUnderstood
    <2> SUFFICES ASSUME IInv, NEW i \in DOMAIN filters,
                        NEW n \in DOMAIN filters[i] \cup CreationCalls
                 PROVE  "trace" \in Answers(filters[i], n) <=> n \in CreationCalls
        BY DEF TracedUnderstood
    <2> DEFINE f == filters[i]
    <2>1. n \in DOMAIN f /\ RuleTrue(POLICIES[i], n, f[n])
        BY Exported
    <2>2. 0 \in Args
        BY SeccompAssumption DEF Args
    <2> HIDE DEF f
    <2>3. ASSUME n \in CreationCalls PROVE "trace" \in Answers(f, n)
        <3>1. f[n] = "trace"
            BY <2>1, <2>3, CreationApart DEF RuleTrue, MayAllow, Allowed
        <3>2. Answer(f, n, 0, TRUE) = "trace" /\ TRUE \in BOOLEAN
            BY <2>1, <3>1 DEF Answer
        <3> QED
            BY <2>2, <3>2, AnswersAre, Zenon
    <2>4. ASSUME n \notin CreationCalls PROVE "trace" \notin Answers(f, n)
        <3>1. f[n] \in {"allow", "mmap", "arg0"}
            BY <2>1, <2>4 DEF RuleTrue
        <3>2. \A a \in Args : \A b \in BOOLEAN : Answer(f, n, a, b) # "trace"
            BY <2>1, <3>1 DEF Answer
        <3> QED
            BY <3>2, AnswersAre
    <2> QED
        BY <2>3, <2>4 DEF f
<1> QED
    BY <1>1, Invariance, PTL
=============================================================================
