--------------------------- MODULE SeccompPolicy ---------------------------
(***************************************************************************)
(* The four seccomp filters the build script compiles (src/build.rs), and  *)
(* what each of them answers to a system call.                             *)
(*                                                                         *)
(* A filter is built group by group; a name in two groups fails the build, *)
(* a name the build's libseccomp does not know gets no rule.  An argument  *)
(* is an unsigned long of LongMax values; the kernel takes a descriptor as *)
(* its low IntMax + 1 values, as the supervisor does.                      *)
(***************************************************************************)
EXTENDS Integers, Sequences, SequencesExt

CONSTANTS MOCK_FD_BASE,      \* first descriptor of the mock range
          IntMax, LongMax,   \* largest unsigned int and unsigned long
          Newer              \* names the build's libseccomp may not know

ASSUME SeccompAssumption ==
    /\ MOCK_FD_BASE \in 1..IntMax
    /\ IntMax \in Nat /\ LongMax \in Nat /\ IntMax < LongMax

(* POLICIES, in the order main builds them.                                *)
POLICIES == << [fd |-> "range",  scope |-> "file_only"],
               [fd |-> "range",  scope |-> "strict"],
               [fd |-> "mapped", scope |-> "file_only"],
               [fd |-> "mapped", scope |-> "strict"] >>

VARIABLES missing,   \* the names this libseccomp does not know
          next,      \* index in POLICIES of the filter being built
          step,      \* the group it is at
          explicit,  \* HashSet of the names registered so far
          rules,     \* the rule of each name that has one
          filters,   \* the filters exported so far
          failed     \* main returned an error

vars == <<missing, next, step, explicit, rules, filters, failed>>

NoRules == [n \in {} |-> 0]

Init ==
    /\ missing \in SUBSET Newer
    /\ next = 1 /\ step = 1
    /\ explicit = {} /\ rules = NoRules
    /\ filters = <<>> /\ failed = FALSE
----------------------------------------------------------------------------
(* Allowed in every policy *)

(* Variant: the call of _exit is left out.                                  *)
PROCESS_EXITOne == <<"exit">>

PROCESS_EXIT == <<"exit", "exit_group">>

PROCESS_EXECUTION == <<"execve">>

LOCAL_SIGNAL_STATE ==
    <<"rt_sigaction", "rt_sigprocmask", "rt_sigreturn", "sigaltstack",
      "restart_syscall">>

LOCAL_MEMORY == <<"brk", "munmap", "mprotect", "mremap", "madvise">>

THREAD_RUNTIME ==
    <<"arch_prctl", "set_tid_address", "set_robust_list", "get_robust_list",
      "rseq", "futex", "futex_waitv", "sched_yield">>

NONDETERMINISTIC_ENVIRONMENT ==
    <<"clock_gettime", "clock_getres", "gettimeofday", "time", "times",
      "nanosleep", "clock_nanosleep", "getrandom", "uname", "sysinfo",
      "getrlimit", "getrusage">>

(* Allowed only when supervising file behavior *)

PROCESS_INFORMATION ==
    <<"getpid", "getppid", "gettid", "getuid", "geteuid", "getgid", "getegid",
      "getresuid", "getresgid", "getgroups", "getpgrp", "getpgid", "getsid">>

PROCESS_CHANGE ==
    <<"kill", "tkill", "tgkill", "rt_sigqueueinfo", "rt_tgsigqueueinfo",
      "pidfd_send_signal", "setpgid", "setsid", "setpriority",
      "sched_setaffinity", "sched_setscheduler", "sched_setparam",
      "sched_setattr">>

PROCESS_CONFIGURATION == <<"prctl", "personality">>

(* Always notified *)

FILESYSTEM_PATH_OPERATIONS ==
    <<"open", "openat", "openat2", "creat", "unlink", "unlinkat", "rename",
      "renameat", "renameat2", "mkdir", "mkdirat", "rmdir", "chdir", "fchdir",
      "getcwd", "link", "linkat", "symlink", "symlinkat", "readlink",
      "readlinkat", "stat", "lstat", "newfstatat", "statx", "access",
      "faccessat", "faccessat2", "chmod", "fchmodat", "chown", "lchown",
      "fchownat", "truncate", "utime", "utimes", "utimensat">>

FD_TOPOLOGY ==
    <<"dup", "dup2", "dup3", "fcntl", "pipe", "pipe2", "close_range",
      "eventfd", "eventfd2", "signalfd", "signalfd4", "timerfd_create",
      "inotify_init", "inotify_init1", "memfd_create", "userfaultfd",
      "pidfd_open", "pidfd_getfd">>

NETWORK_TOPOLOGY ==
    <<"socket", "socketpair", "accept", "accept4", "connect", "bind", "listen">>

SUPERVISED_EXECUTION == <<"execveat">>

(* Variant: prctl is decoded by command, too.                               *)
GENERAL_CASE_OPERATIONSTwice == <<"ioctl", "prlimit64", "prctl">>

GENERAL_CASE_OPERATIONS == <<"ioctl", "prlimit64">>

POLL_AND_READINESS ==
    <<"poll", "ppoll", "select", "pselect6", "epoll_create", "epoll_create1",
      "epoll_ctl", "epoll_wait", "epoll_pwait", "epoll_pwait2">>

SPECIAL_FD_OPERATIONS ==
    <<"sendfile", "splice", "tee", "vmsplice", "copy_file_range",
      "inotify_add_watch", "inotify_rm_watch", "timerfd_settime",
      "timerfd_gettime", "fstat", "fstatfs", "getdents", "getdents64">>

UNSUPPORTED_ASYNC_IO ==
    <<"io_uring_setup", "io_uring_enter", "io_uring_register", "io_setup",
      "io_destroy", "io_submit", "io_cancel", "io_getevents", "io_pgetevents">>

(* Traced *)

(* Variant: vfork is left to the default.                                   *)
PROCESS_TOPOLOGYNoVfork == <<"fork", "clone", "clone3">>

PROCESS_TOPOLOGY == <<"fork", "vfork", "clone", "clone3">>

(* By the descriptor in argument zero *)

FD_FILE_OPERATIONS ==
    <<"read", "write", "readv", "writev", "pread64", "pwrite64", "preadv",
      "pwritev", "preadv2", "pwritev2", "lseek", "fsync", "fdatasync",
      "ftruncate", "close">>

FD_SOCKET_OPERATIONS ==
    <<"sendto", "recvfrom", "sendmsg", "recvmsg", "sendmmsg", "recvmmsg",
      "shutdown", "getsockname", "getpeername", "getsockopt", "setsockopt">>

----------------------------------------------------------------------------
(* Building a filter *)

Group(how, names) == [how |-> how, names |-> names]

FileOnlyGroups == << Group("allow", PROCESS_INFORMATION), Group("allow", PROCESS_CHANGE),
                     Group("allow", PROCESS_CONFIGURATION) >>

FileBehaviorOnly(p) == p.scope = "file_only"

(* The calls export_filter makes, in order.                                 *)
export_filter(p) ==
    << Group("allow", PROCESS_EXIT), Group("allow", PROCESS_EXECUTION),
       Group("allow", LOCAL_SIGNAL_STATE), Group("allow", LOCAL_MEMORY),
       Group("allow", THREAD_RUNTIME), Group("allow", NONDETERMINISTIC_ENVIRONMENT) >>
    \o (IF FileBehaviorOnly(p) THEN FileOnlyGroups ELSE <<>>)
    \o << Group("mmap", <<"mmap">>), Group("arg0", FD_FILE_OPERATIONS),
          Group("trace", PROCESS_TOPOLOGY), Group("arg0", FD_SOCKET_OPERATIONS),
          Group("notify", FILESYSTEM_PATH_OPERATIONS), Group("notify", FD_TOPOLOGY),
          Group("notify", NETWORK_TOPOLOGY), Group("notify", SUPERVISED_EXECUTION),
          Group("notify", GENERAL_CASE_OPERATIONS), Group("notify", POLL_AND_READINESS),
          Group("notify", SPECIAL_FD_OPERATIONS), Group("notify", UNSUPPORTED_ASYNC_IO) >>

(* register: HashSet::insert returned true for every name.                  *)
register(names) == IsInjective(names) /\ ToSet(names) \cap explicit = {}

(* The names of a group that get a rule.                                    *)
resolve_optional(names) == ToSet(names) \ missing

(* add_fd_arg0_rules: AlwaysNotify only registers the names.                *)
add_fd_arg0_rules(p, names) ==
    IF p.fd = "mapped" THEN NoRules ELSE [n \in resolve_optional(names) |-> "arg0"]

(* The rules a group adds; a name is mapped to its condition or action.     *)
RulesOf(p, group) ==
    CASE group.how = "notify" -> NoRules
      [] group.how = "arg0"   -> add_fd_arg0_rules(p, group.names)
      [] OTHER                -> [n \in resolve_optional(group.names) |-> group.how]

(* add_rule for each of them; no name has two rules.                        *)
Added(new) ==
    [n \in DOMAIN rules \cup DOMAIN new |-> IF n \in DOMAIN rules THEN rules[n] ELSE new[n]]

(* One add_group, add_mmap_rules, add_fd_arg0_rules or register_group.      *)
add_group ==
    /\ ~failed /\ next <= Len(POLICIES)
    /\ step <= Len(export_filter(POLICIES[next]))
    /\ LET p     == POLICIES[next]
           group == export_filter(p)[step]
       IN  IF register(group.names) /\ (group.how = "mmap" => "mmap" \notin missing)
           THEN /\ explicit' = explicit \cup ToSet(group.names)
                /\ rules' = Added(RulesOf(p, group))
                /\ step' = step + 1
                /\ UNCHANGED failed
           ELSE failed' = TRUE /\ UNCHANGED <<explicit, rules, step>>
    /\ UNCHANGED <<missing, next, filters>>

(* export_bpf, and on to the next policy.                                   *)
export_bpf ==
    /\ ~failed /\ next <= Len(POLICIES)
    /\ step > Len(export_filter(POLICIES[next]))
    /\ filters' = Append(filters, rules)
    /\ next' = next + 1 /\ step' = 1
    /\ explicit' = {} /\ rules' = NoRules
    /\ UNCHANGED <<missing, failed>>

Next == add_group \/ export_bpf

Spec == Init /\ [][Next]_vars /\ WF_vars(Next)
----------------------------------------------------------------------------
(* What an exported filter answers *)

(* Variant: the first mock descriptor is taken for a real one.              *)
BelowBaseOrAt(arg0) == arg0 <= MOCK_FD_BASE

BelowBase(arg0) == arg0 < MOCK_FD_BASE

(* The action for a call: the default is USER_NOTIF.                        *)
Answer(filter, name, arg0, anonymous) ==
    IF name \notin DOMAIN filter THEN "notify"
    ELSE LET r == filter[name]
         IN  CASE r = "arg0" -> IF BelowBase(arg0) THEN "allow" ELSE "notify"
               [] r = "mmap" -> IF anonymous THEN "allow" ELSE "notify"
               [] OTHER      -> r

Args == 0..LongMax

Answers(filter, name) == {Answer(filter, name, a, b) : a \in Args, b \in BOOLEAN}

(* The descriptor the kernel and the supervisor read from an argument.      *)
Fd(arg0) == arg0 % (IntMax + 1)
----------------------------------------------------------------------------
(* The kernel's system calls, beyond the tables above (external) *)

(* Calls whose argument zero is a descriptor, of whatever kind.             *)
FileCalls ==
    ToSet(FD_FILE_OPERATIONS) \cup ToSet(FD_SOCKET_OPERATIONS) \cup
    {"fstat", "fstatfs", "fchdir", "fchmod", "fchown", "flock", "fallocate", "fadvise64",
     "readahead", "sync_file_range", "syncfs", "fgetxattr", "fsetxattr", "flistxattr",
     "fremovexattr", "getdents", "getdents64", "ioctl", "fcntl", "dup", "dup2", "dup3",
     "accept", "accept4", "connect", "bind", "listen", "sendfile", "splice", "tee",
     "vmsplice", "copy_file_range", "epoll_ctl", "epoll_wait", "epoll_pwait", "epoll_pwait2",
     "inotify_add_watch", "inotify_rm_watch", "timerfd_settime", "timerfd_gettime",
     "close_range", "io_uring_enter", "io_uring_register", "finit_module", "quotactl_fd",
     "cachestat", "openat", "openat2", "unlinkat", "renameat", "renameat2", "mkdirat",
     "mknodat", "linkat", "readlinkat", "newfstatat", "statx", "faccessat", "faccessat2",
     "fchmodat", "fchmodat2", "fchownat", "utimensat", "futimesat", "execveat", "signalfd",
     "signalfd4", "pidfd_getfd", "pidfd_send_signal", "process_madvise", "process_mrelease",
     "setns", "fanotify_mark", "open_by_handle_at", "name_to_handle_at", "mq_timedsend",
     "mq_timedreceive", "mq_notify", "mq_getsetattr", "fsconfig", "fsmount", "fspick",
     "move_mount", "open_tree", "mount_setattr", "kexec_file_load", "landlock_add_rule",
     "landlock_restrict_self"}

(* "Known unrelated operations such as sending signals [...] are allowed    *)
(* directly" (src/build.rs:56): the one of them that names its receiver by  *)
(* a descriptor.                                                            *)
SignalByDescriptor == "pidfd_send_signal"

(* The calls target_entry makes once the filter is installed (spawn.rs).    *)
StartupCalls == {"execve", "exit", "exit_group"}

(* The calls process_creation_flags accepts (supervisor.rs); any other stop *)
(* is the fault UnexpectedSyscall.                                          *)
CreationCalls == {"fork", "vfork", "clone", "clone3"}

(* Every libseccomp with user notification knows these.                     *)
ASSUME NewerAssumption == Newer \cap (StartupCalls \cup CreationCalls) = {}
----------------------------------------------------------------------------
(* "appears in more than one semantic group" never happens: all filters are *)
(* built, whatever the build's libseccomp knows.                            *)
AllBuilt == <>(Len(filters) = Len(POLICIES))

(* The call on a descriptor of the mock range, as the kernel reads that     *)
(* number, reaches the supervisor, and in the mapped policies so does the   *)
(* call on any number.  One call is left out, and only by the two filters   *)
(* that do not supervise signals: pidfd_send_signal, which PROCESS_CHANGE   *)
(* allows whatever its descriptor.                                          *)
MocksSupervised ==
    \A i \in DOMAIN filters : \A n \in FileCalls, a \in Args : \A b \in BOOLEAN :
        /\ POLICIES[i].fd = "mapped" \/ Fd(a) >= MOCK_FD_BASE
        /\ ~(FileBehaviorOnly(POLICIES[i]) /\ n = SignalByDescriptor)
        => Answer(filters[i], n, a, b) = "notify"

(* The filter must allow "execve, exit, and exit_group without user         *)
(* notification" (spawn.rs:231): nobody answers while the spawner is        *)
(* suspended in vfork, so a notification there would block the startup.     *)
StartupUnattended ==
    \A i \in DOMAIN filters : \A n \in StartupCalls : Answers(filters[i], n) = {"allow"}

(* Under every filter exactly the calls that process_creation_flags         *)
(* understands stop under ptrace: no process is created behind the          *)
(* supervisor's back, and no stop is a fault.                               *)
TracedUnderstood ==
    \A i \in DOMAIN filters : \A n \in DOMAIN filters[i] \cup CreationCalls :
        "trace" \in Answers(filters[i], n) <=> n \in CreationCalls
=============================================================================
