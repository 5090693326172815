----------------------------- MODULE PageBuffer -----------------------------
(***************************************************************************)
(* PageBuffer (src/src/buffer.rs): scratch memory in whole pages of        *)
(* MAX_PATH bytes, and the copies from a tested process into it with       *)
(* process_vm_readv.  A copy is a loop of system calls; between two of     *)
(* them the tested program may write its memory or unmap it.               *)
(***************************************************************************)
EXTENDS Integers, Sequences

CONSTANTS MAX_PATH,   \* PATH_MAX, also the size of a page
          UsizeMax,   \* the last address
          Bytes,      \* byte values; 0 is NUL
          Unmapped, Uninit,
          Memories,   \* contents of the tested process considered
          Inputs,     \* local byte strings considered
          Lens,       \* explicit lengths considered
          MaxWrites   \* bound: how often the program interferes with copies

Addresses == 0..UsizeMax
NUL == 0

ASSUME SizesAssumption ==
    /\ MAX_PATH \in Nat \ {0} /\ UsizeMax \in Nat /\ MaxWrites \in Nat
    /\ NUL \in Bytes /\ Unmapped \notin Bytes /\ Uninit \notin Bytes
    /\ Inputs \subseteq Seq(Bytes) /\ Lens \subseteq Nat

(* The kernel maps whole pages, and none at the end of the address space.   *)
SamePage(a, b) == a \div MAX_PATH = b \div MAX_PATH

Mapped(m) ==
    /\ \A a, b \in Addresses : SamePage(a, b) => (m[a] = Unmapped <=> m[b] = Unmapped)
    /\ m[UsizeMax] = Unmapped

ASSUME MemoriesAssumption ==
    /\ Memories \subseteq [Addresses -> Bytes \cup {Unmapped}]
    /\ \A m \in Memories : Mapped(m)

ESRCH        == 3
EFAULT       == 14
ENAMETOOLONG == 36

VARIABLES buf,      \* the buffer: pages, len, bytes
          pc,       \* "idle", or the loop that runs: "bytes" or "c_path"
          job,      \* its arguments, and how many bytes it has copied; kept
                    \* with the result of a copy, for the properties
          result,   \* what the last call returned
          memory,   \* the tested process's memory
          writes    \* how often it changed during a copy

vars == <<buf, pc, job, result, memory, writes>>

NoResult == [op |-> "none", kind |-> "none", errno |-> 0]
Result(op, k, e) == [op |-> op, kind |-> k, errno |-> e]

NoJob == [op |-> "none", address |-> 0, len |-> 0, copied |-> 0]

capacity(b) == b.pages * MAX_PATH

(* allocate_pages: bytes that nobody has written yet.                       *)
allocate_pages(n) == [i \in 0..(n * MAX_PATH - 1) |-> Uninit]

new == [pages |-> 1, len |-> 0, bytes |-> allocate_pages(1)]

Init ==
    /\ buf = new
    /\ pc = "idle" /\ job = NoJob
    /\ result = NoResult
    /\ memory \in Memories
    /\ writes = 0
----------------------------------------------------------------------------
(* The buffer *)

(* Bytes past the new length become uninitialized again.                    *)
truncate(b, n) ==
    IF n >= b.len THEN b
    ELSE [b EXCEPT !.len = n,
                   !.bytes = [i \in DOMAIN b.bytes |-> IF i < n THEN b.bytes[i] ELSE Uninit]]

clear(b) == truncate(b, 0)

(* Variant: rounds down to whole pages.                                     *)
div_ceilFloor(n) == n \div MAX_PATH

div_ceil(n) == (n + MAX_PATH - 1) \div MAX_PATH

ensure_capacity(b, n) ==
    IF n <= capacity(b) THEN b
    ELSE [pages |-> div_ceil(n), len |-> b.len,
          bytes |-> [i \in DOMAIN allocate_pages(div_ceil(n)) |->
                        IF i < b.len THEN b.bytes[i] ELSE Uninit]]

(* copy_nonoverlapping of the bytes s to offset at.                         *)
Stored(b, at, s) ==
    [b EXCEPT !.bytes = [i \in DOMAIN b.bytes |->
                            IF i - at + 1 \in DOMAIN s THEN s[i - at + 1] ELSE b.bytes[i]]]

Filled(b, s) == [Stored(b, 0, s) EXCEPT !.len = Len(s)]

(* The end of a call that copies nothing from the process.                  *)
NoCopy == job' = NoJob /\ UNCHANGED <<pc, memory, writes>>

set_path(s) ==
    /\ pc = "idle"
    /\ IF Len(s) > MAX_PATH
       THEN result' = Result("set_path", "too_long", 0) /\ UNCHANGED buf
       ELSE buf' = Filled(clear(buf), s) /\ result' = NoResult
    /\ NoCopy

set_bytes(s) ==
    /\ pc = "idle"
    /\ buf' = Filled(ensure_capacity(clear(buf), Len(s)), s)
    /\ result' = NoResult
    /\ NoCopy

truncate_to(n) ==
    /\ pc = "idle"
    /\ buf' = truncate(buf, n)
    /\ result' = NoResult
    /\ NoCopy

truncate_at_nul ==
    /\ pc = "idle"
    /\ \/ \E n \in 0..(buf.len - 1) :
             /\ buf.bytes[n] = NUL /\ \A i \in 0..(n - 1) : buf.bytes[i] # NUL
             /\ buf' = truncate(buf, n)
       \/ (\A i \in 0..(buf.len - 1) : buf.bytes[i] # NUL) /\ UNCHANGED buf
    /\ result' = NoResult
    /\ NoCopy
----------------------------------------------------------------------------
(* The entries of the three copies *)

Copying(op, loop, address, n) ==
    /\ pc' = loop
    /\ job' = [op |-> op, address |-> address, len |-> n, copied |-> 0]
    /\ result' = NoResult
    /\ UNCHANGED <<memory, writes>>

(* Variant: a path of any length is accepted.                               *)
copy_from_process_path_with_lenAny(address, n) ==
    /\ pc = "idle"
    /\ buf' = clear(buf) /\ Copying("path", "bytes", address, n)

(* An explicitly sized path: only the first page is used.                   *)
copy_from_process_path_with_len(address, n) ==
    /\ pc = "idle"
    /\ IF n > MAX_PATH
       THEN /\ result' = Result("path", "errno", ENAMETOOLONG)
            /\ NoCopy /\ UNCHANGED buf
       ELSE buf' = clear(buf) /\ Copying("path", "bytes", address, n)

copy_from_process_bytes(address, n) ==
    /\ pc = "idle"
    /\ buf' = ensure_capacity(clear(buf), n)
    /\ Copying("bytes", "bytes", address, n)

copy_from_process_c_path(address) ==
    /\ pc = "idle"
    /\ buf' = clear(buf)
    /\ Copying("c_path", "c_path", address, 0)
----------------------------------------------------------------------------
(* The loops *)

(* The kernel (external): all bytes, or fewer, or an error.  A range that   *)
(* is mapped in part may be read up to there or be refused as a whole.      *)
process_vm_readv(address, n) ==
    {k \in 1..n : \A i \in 0..(k - 1) : memory[address + i] # Unmapped}
    \cup {0, -ESRCH}
    \cup {e \in {-EFAULT} : \E i \in 0..(n - 1) : memory[address + i] = Unmapped}

(* One system call: the bytes read, or a negative errno; no bytes at all    *)
(* are an error as well.                                                    *)
read_process_memory_once(address, offset, n) ==
    IF address + offset + n > UsizeMax THEN {-EFAULT}
    ELSE process_vm_readv(address + offset, n)

(* The bytes that arrived are in the buffer behind those copied before.     *)
Arrived(n) ==
    Stored(buf, job.copied, [i \in 1..n |-> memory[job.address + job.copied + i - 1]])

Succeeds(b, n) ==
    /\ pc' = "idle"
    /\ buf' = [b EXCEPT !.len = n]
    /\ result' = Result(job.op, "ok", 0)

FailsWith(k, e) == pc' = "idle" /\ result' = Result(job.op, k, e) /\ UNCHANGED <<buf, job>>

(* Variant: the buffer gets the requested length in spite of the error.     *)
CopyFailsFull(e) ==
    /\ pc' = "idle"
    /\ buf' = [buf EXCEPT !.len = job.len]
    /\ result' = IF e = -EFAULT THEN Result(job.op, "errno", EFAULT) ELSE Result(job.op, "io", 0)
    /\ UNCHANGED job

(* EFAULT is the fault of the arguments, everything else an I/O error.  The *)
(* length is zero since the copy began.                                     *)
CopyFails(e) ==
    IF e = -EFAULT THEN FailsWith("errno", EFAULT) ELSE FailsWith("io", 0)

(* read_process_memory: until the requested length is there.                *)
read_process_memory ==
    /\ pc = "bytes"
    /\ IF job.copied < job.len
       THEN \E r \in read_process_memory_once(job.address, job.copied, job.len - job.copied) :
               IF r > 0
               THEN /\ buf' = Arrived(r)
                    /\ job' = [job EXCEPT !.copied = @ + r]
                    /\ UNCHANGED <<pc, result>>
               ELSE CopyFails(r)
       ELSE Succeeds(buf, job.copied) /\ UNCHANGED job
    /\ UNCHANGED <<memory, writes>>

(* Variant: a chunk runs on into the next page.                             *)
ChunkAcrossPages == MAX_PATH - job.copied

(* A chunk ends at the end of a remote page and of the local one.           *)
Chunk ==
    LET page_remaining == MAX_PATH - ((job.address + job.copied) % MAX_PATH)
    IN  IF page_remaining < MAX_PATH - job.copied THEN page_remaining ELSE MAX_PATH - job.copied

(* The first NUL among the n bytes that just arrived in b, or n.            *)
NulPosition(b, n) ==
    CHOOSE k \in 0..n :
        /\ k < n => b.bytes[job.copied + k] = NUL
        /\ \A i \in 0..(k - 1) : b.bytes[job.copied + i] # NUL

(* read_process_c_path: chunk by chunk to the first NUL.                    *)
read_process_c_path ==
    /\ pc = "c_path"
    /\ IF job.copied >= MAX_PATH THEN FailsWith("errno", ENAMETOOLONG)
       ELSE IF job.address + job.copied > UsizeMax THEN FailsWith("errno", EFAULT)
       ELSE \E r \in read_process_memory_once(job.address, job.copied, Chunk) :
               IF r > 0
               THEN LET b   == Arrived(r)
                        nul == NulPosition(b, r)
                    IN  IF nul < r THEN Succeeds(b, job.copied + nul) /\ UNCHANGED job
                        ELSE /\ buf' = b
                             /\ job' = [job EXCEPT !.copied = @ + r]
                             /\ UNCHANGED <<pc, result>>
               ELSE CopyFails(r)
    /\ UNCHANGED <<memory, writes>>

(* Another thread of the program, or a process that shares its memory,      *)
(* writes a byte or unmaps a page (external).                               *)
program ==
    /\ pc # "idle" /\ writes < MaxWrites
    /\ writes' = writes + 1
    /\ \E a \in Addresses :
          \/ /\ memory[a] # Unmapped
             /\ \E v \in Bytes \ {memory[a]} : memory' = [memory EXCEPT ![a] = v]
          \/ memory' = [i \in Addresses |->
                IF SamePage(i, a) THEN Unmapped ELSE memory[i]]
    /\ UNCHANGED <<buf, pc, job, result>>

Next ==
    \/ \E s \in Inputs : set_path(s) \/ set_bytes(s)
    \/ \E n \in Lens : truncate_to(n)
    \/ truncate_at_nul
    \/ \E a \in Addresses :
          \/ copy_from_process_c_path(a)
          \/ \E n \in Lens : copy_from_process_path_with_len(a, n) \/ copy_from_process_bytes(a, n)
    \/ read_process_memory \/ read_process_c_path
    \/ program

Spec == Init /\ [][Next]_vars
----------------------------------------------------------------------------
(* The buffer has whole pages, at least one, and its length fits.           *)
TypeOK ==
    /\ buf.pages \in Nat \ {0}
    /\ buf.len \in 0..capacity(buf)
    /\ buf.bytes \in [0..(capacity(buf) - 1) -> Bytes \cup {Uninit}]
    /\ pc \in {"idle", "bytes", "c_path"}
    /\ job.address \in Addresses /\ job.len \in Nat /\ job.copied \in Nat
    /\ memory \in [Addresses -> Bytes \cup {Unmapped}]
    /\ writes \in 0..MaxWrites

(* Dereferencing the buffer (from_raw_parts, buffer.rs:74) never exposes a  *)
(* byte that was not written since it was last given up.                    *)
Initialized == \A i \in 0..(buf.len - 1) : buf.bytes[i] \in Bytes

(* What the kernel is asked to write behind the bytes already copied fits   *)
(* into the pages allocated, and into the first page for a path ("must      *)
(* neither write nor return a length greater than", buffer.rs:201).         *)
ReadsFit ==
    /\ pc = "bytes" => job.len <= (IF job.op = "path" THEN MAX_PATH ELSE capacity(buf))
    /\ pc = "c_path" /\ job.copied < MAX_PATH => job.copied + Chunk <= MAX_PATH
    /\ pc # "idle" => job.copied <= capacity(buf)

(* Whatever the program does and wherever a copy fails, the unsafe code of  *)
(* the buffer neither exposes an unwritten byte nor overruns its pages.     *)
MemorySafe == Initialized /\ ReadsFit

Undisturbed == writes = 0

Readable(a) == a \in Addresses /\ memory[a] # Unmapped

(* The bytes at offsets 0 to n-1 of the job are readable and not NUL.       *)
Plain(n) == \A i \in 0..(n - 1) : Readable(job.address + i) /\ memory[job.address + i] # NUL

(* "The returned slice excludes the NUL" (buffer.rs:167): a path contains   *)
(* no NUL whatever the program does meanwhile.  If the program leaves its   *)
(* memory alone, the path is what is there up to the first NUL, even when   *)
(* the memory behind it cannot be read; it is refused as too long exactly   *)
(* if no NUL is within MAX_PATH, as EFAULT exactly if it cannot be read up  *)
(* to its NUL.                                                              *)
CPathExact ==
    result.op = "c_path" =>
        /\ result.kind = "ok" => buf.len < MAX_PATH /\ \A i \in 0..(buf.len - 1) : buf.bytes[i] # NUL
        /\ Undisturbed /\ result.kind = "ok" =>
              /\ Plain(buf.len)
              /\ Readable(job.address + buf.len) /\ memory[job.address + buf.len] = NUL
              /\ \A i \in 0..(buf.len - 1) : buf.bytes[i] = memory[job.address + i]
        /\ Undisturbed /\ result.kind = "errno" =>
              IF result.errno = ENAMETOOLONG THEN Plain(MAX_PATH)
              ELSE \E n \in 0..(MAX_PATH - 1) : Plain(n) /\ ~Readable(job.address + n)

(* "Copies exactly len bytes" (buffer.rs:179): a copy that succeeds has the *)
(* requested length and is what the memory holds; it is refused as EFAULT   *)
(* only if some byte cannot be read.                                        *)
BytesExact ==
    result.op \in {"bytes", "path"} =>
        /\ result.kind = "ok" => buf.len = job.len
        /\ Undisturbed /\ result.kind = "ok" =>
              \A i \in 0..(buf.len - 1) : buf.bytes[i] = memory[job.address + i]
        /\ Undisturbed /\ result.kind = "errno" /\ result.errno = EFAULT =>
              \E i \in 0..(job.len - 1) : ~Readable(job.address + i)

(* Every copy from a process is exact, or fails for a reason that is true:  *)
(* paths up to their NUL, byte ranges in their full length.                 *)
CopiesExact == CPathExact /\ BytesExact

(* An operation that fails leaves no half-copied data: a copy that had      *)
(* begun leaves the buffer empty, one that was refused leaves it as it was. *)
NothingPartial ==
    [][result' # result /\ result'.kind \in {"errno", "io", "too_long"} =>
          IF pc = "idle" THEN buf' = buf ELSE buf'.len = 0]_vars
=============================================================================
