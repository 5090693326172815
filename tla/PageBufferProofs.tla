-------------------------- MODULE PageBufferProofs --------------------------
(***************************************************************************)
(* Proofs about PageBuffer.tla, for any page size, any size of the address *)
(* space, any contents of the tested process's memory and any number of    *)
(* changes to it.                                                          *)
(***************************************************************************)
EXTENDS PageBuffer, WellFoundedInduction, TLAPS

IsRecord(b) == DOMAIN b = {"pages", "len", "bytes"} /\ b = [f \in DOMAIN b |-> b[f]]

(* A buffer of whole pages whose length fits.                               *)
IsBuffer(b) ==
    /\ IsRecord(b)
    /\ b.pages \in Nat \ {0}
    /\ b.len \in 0..capacity(b)
    /\ b.bytes \in [0..(capacity(b) - 1) -> Bytes \cup {Uninit}]

(* Its first n bytes have been written.                                     *)
Written(b, n) == \A i \in 0..(n - 1) : b.bytes[i] \in Bytes

IsJob(j) ==
    /\ DOMAIN j = {"op", "address", "len", "copied"} /\ j = [f \in DOMAIN j |-> j[f]]
    /\ j.address \in Addresses /\ j.len \in Nat /\ j.copied \in Nat

Types ==
    /\ TypeOK
    /\ IsBuffer(buf) /\ IsJob(job)

(* While a copy runs the buffer is empty, and the bytes that have arrived   *)
(* lie behind its end.                                                      *)
CopyHidden ==
    pc # "idle" => /\ buf.len = 0 /\ result = NoResult
                   /\ job.copied <= capacity(buf) /\ Written(buf, job.copied)

(* How far a loop goes.                                                     *)
LoopBound ==
    /\ pc = "bytes" => /\ job.op \in {"path", "bytes"} /\ job.copied <= job.len
                       /\ job.len <= (IF job.op = "path" THEN MAX_PATH ELSE capacity(buf))
    /\ pc = "c_path" => /\ job.op = "c_path" /\ job.copied <= MAX_PATH
                        /\ \A i \in 0..(job.copied - 1) : buf.bytes[i] # NUL

(* As long as the program leaves its memory alone, what has arrived is what *)
(* is there.                                                                *)
ArrivedTrue ==
    pc # "idle" /\ Undisturbed =>
        \A i \in 0..(job.copied - 1) : /\ job.address + i \in Addresses
                                       /\ memory[job.address + i] = buf.bytes[i]

(* The inductive invariant.                                                 *)
IInv ==
    /\ Types /\ Initialized /\ CopyHidden /\ LoopBound /\ ArrivedTrue /\ Mapped(memory)
    /\ CPathExact /\ BytesExact
----------------------------------------------------------------------------
(* Numbers *)

(* A set of numbers that is not empty has a least one.                      *)
LEMMA LeastNumber ==
    ASSUME NEW T, T \subseteq Nat, T # {}
    PROVE  \E n \in T : \A m \in T : n <= m
<1> DEFINE Less == OpToRel(<, Nat)
<1>1. IsWellFoundedOn(Less, Nat)
    BY NatLessThanWellFounded
<1>2. \A m, n \in Nat : <<m, n>> \in Less <=> m < n
    BY DEF OpToRel
<1> HIDE DEF Less
<1>3. PICK n \in T : \A m \in T : ~(<<m, n>> \in Less)
    BY <1>1, WFMin
<1>4. ASSUME NEW m \in T PROVE n <= m
    <2>1. m \in Nat /\ n \in Nat
        OBVIOUS
    <2>2. ~(<<m, n>> \in Less)
        BY <1>3
    <2>3. ~(m < n)
        BY <1>2, <2>1, <2>2
    <2> QED
        BY <2>1, <2>3
<1> QED
    BY <1>4

(* Adding less than what is left of a page stays on the page.               *)
LEMMA StaysOnPage ==
    ASSUME NEW x \in Nat, NEW i \in Nat, i < MAX_PATH - (x % MAX_PATH)
    PROVE  SamePage(x + i, x)
<1>1. \A m \in Nat \ {0} : i < m - (x % m) => (x + i) \div m = x \div m
    OBVIOUS
<1> QED
    BY <1>1, SizesAssumption DEF SamePage

(* Whole pages, rounded up, are enough.                                     *)
LEMMA PagesEnough ==
    ASSUME NEW n \in Nat
    PROVE  div_ceil(n) \in Nat /\ n <= div_ceil(n) * MAX_PATH
<1>1. \A m \in Nat \ {0} : (n + m - 1) \div m \in Nat /\ n <= ((n + m - 1) \div m) * m
    OBVIOUS
<1> QED
    BY <1>1, SizesAssumption DEF div_ceil

(* At least one page.                                                       *)
LEMMA CapacityFacts ==
    ASSUME NEW b, b.pages \in Nat \ {0}
    PROVE  capacity(b) \in Nat /\ MAX_PATH <= capacity(b) /\ MAX_PATH \in Nat \ {0}
<1>1. \A m, n \in Nat \ {0} : n * m \in Nat /\ m <= n * m
    OBVIOUS
<1> QED
    BY <1>1, SizesAssumption DEF capacity
----------------------------------------------------------------------------
(* The operations on the buffer *)

(* new: one page, nothing in it.                                            *)
LEMMA NewBuffer == IsBuffer(new) /\ Written(new, new.len) /\ new.len = 0
<1>1. /\ new.pages = 1 /\ new.len = 0 /\ new.bytes = [i \in 0..(1 * MAX_PATH - 1) |-> Uninit]
      /\ IsRecord(new)
    BY DEF new, allocate_pages, IsRecord
<1>2. capacity(new) = 1 * MAX_PATH /\ capacity(new) \in Nat
    BY <1>1, CapacityFacts DEF capacity
<1>3. new.bytes \in [0..(capacity(new) - 1) -> Bytes \cup {Uninit}]
    BY <1>1, <1>2
<1> QED
    BY <1>1, <1>2, <1>3 DEF IsBuffer, Written

(* truncate keeps the bytes before the new length and the pages.            *)
LEMMA TruncateBuffer ==
    ASSUME NEW b, IsBuffer(b), Written(b, b.len), NEW n \in Nat
    PROVE  /\ IsBuffer(truncate(b, n)) /\ Written(truncate(b, n), truncate(b, n).len)
           /\ truncate(b, n).pages = b.pages
           /\ truncate(b, n).len = IF n < b.len THEN n ELSE b.len
           /\ \A i \in 0..(truncate(b, n).len - 1) : truncate(b, n).bytes[i] = b.bytes[i]
<1>1. capacity(b) \in Nat /\ b.len \in 0..capacity(b)
    BY CapacityFacts DEF IsBuffer
<1>2. CASE n >= b.len
    BY <1>1, <1>2 DEF truncate
<1>3. CASE n < b.len
    <2> DEFINE t == truncate(b, n)
    <2>1. IsRecord(b) /\ ~(n >= b.len)
        BY <1>1, <1>3 DEF IsBuffer
    <2>2. /\ IsRecord(t) /\ t.pages = b.pages /\ t.len = n
          /\ t.bytes = [i \in DOMAIN b.bytes |-> IF i < n THEN b.bytes[i] ELSE Uninit]
        BY <2>1 DEF truncate, IsRecord
    <2>3. t.bytes = [i \in 0..(capacity(b) - 1) |-> IF i < n THEN b.bytes[i] ELSE Uninit]
        BY <2>2 DEF IsBuffer
    <2> HIDE DEF t
    <2>4. capacity(t) = capacity(b)
        BY <2>2 DEF capacity
    <2>5. t.bytes \in [0..(capacity(t) - 1) -> Bytes \cup {Uninit}]
        BY <2>3, <2>4 DEF IsBuffer
    <2>6. \A i \in 0..(n - 1) : t.bytes[i] = b.bytes[i] /\ b.bytes[i] \in Bytes
        BY <1>1, <1>3, <2>3 DEF Written
    <2>7. IsBuffer(t) /\ Written(t, t.len)
        BY <1>1, <1>3, <2>2, <2>4, <2>5, <2>6 DEF IsBuffer, Written
    <2> QED
        BY <1>3, <2>2, <2>6, <2>7 DEF t
<1> QED
    BY <1>1, <1>2, <1>3

(* clear empties the buffer.                                                *)
LEMMA ClearBuffer ==
    ASSUME NEW b, IsBuffer(b), Written(b, b.len)
    PROVE  /\ IsBuffer(clear(b)) /\ Written(clear(b), clear(b).len)
           /\ clear(b).pages = b.pages /\ clear(b).len = 0 /\ capacity(clear(b)) = capacity(b)
<1>1. b.len \in Nat
    BY CapacityFacts DEF IsBuffer
<1>2. /\ IsBuffer(clear(b)) /\ Written(clear(b), clear(b).len)
      /\ clear(b).pages = b.pages /\ clear(b).len = IF 0 < b.len THEN 0 ELSE b.len
    BY TruncateBuffer DEF clear
<1> QED
    BY <1>1, <1>2 DEF capacity

(* ensure_capacity keeps what is there and makes room.                      *)
LEMMA EnsureCapacity ==
    ASSUME NEW b, IsBuffer(b), Written(b, b.len), NEW n \in Nat
    PROVE  /\ IsBuffer(ensure_capacity(b, n))
           /\ Written(ensure_capacity(b, n), ensure_capacity(b, n).len)
           /\ ensure_capacity(b, n).len = b.len /\ n <= capacity(ensure_capacity(b, n))
<1>1. capacity(b) \in Nat /\ b.len \in 0..capacity(b)
    BY CapacityFacts DEF IsBuffer
<1>2. CASE n <= capacity(b)
    BY <1>2 DEF ensure_capacity
<1>3. CASE n > capacity(b)
    <2> DEFINE e == ensure_capacity(b, n)
    <2>1. ~(n <= capacity(b))
        BY <1>1, <1>3
    <2>2. /\ IsRecord(e) /\ e.pages = div_ceil(n) /\ e.len = b.len
          /\ e.bytes = [i \in 0..(div_ceil(n) * MAX_PATH - 1) |->
                             IF i < b.len THEN b.bytes[i] ELSE Uninit]
        BY <2>1 DEF ensure_capacity, allocate_pages, IsRecord
    <2> HIDE DEF e
    <2>3. /\ div_ceil(n) \in Nat /\ n <= div_ceil(n) * MAX_PATH
          /\ div_ceil(n) * MAX_PATH \in Nat
        BY PagesEnough, SizesAssumption
    <2>4. capacity(e) = div_ceil(n) * MAX_PATH
        BY <2>2 DEF capacity
    <2>5. div_ceil(n) # 0
        BY <1>1, <1>3, <2>3, SizesAssumption
    <2>6. \A i \in 0..(b.len - 1) : e.bytes[i] = b.bytes[i] /\ b.bytes[i] \in Bytes
        BY <1>1, <1>3, <2>2, <2>3 DEF Written
    <2>7. \A i \in 0..(capacity(e) - 1) : i < b.len => b.bytes[i] \in Bytes
        BY <1>1, <2>3, <2>4 DEF Written
    <2>8. e.bytes \in [0..(capacity(e) - 1) -> Bytes \cup {Uninit}]
        BY <2>2, <2>4, <2>7
    <2>9. IsBuffer(e) /\ Written(e, e.len)
        <3>1. e.len \in 0..capacity(e)
            BY <1>1, <1>3, <2>2, <2>3, <2>4
        <3> QED
            BY <2>2, <2>3, <2>5, <2>6, <2>8, <3>1 DEF IsBuffer, Written
    <2> QED
        BY <2>2, <2>3, <2>4, <2>9 DEF e
<1> QED
    BY <1>1, <1>2, <1>3

(* The bytes s at offset at, the others as they were.                       *)
LEMMA StoredBuffer ==
    ASSUME NEW b, IsBuffer(b), NEW at \in Nat, NEW n \in Nat, NEW s,
           DOMAIN s = 1..n, \A i \in 1..n : s[i] \in Bytes
    PROVE  /\ IsBuffer(Stored(b, at, s))
           /\ Stored(b, at, s).len = b.len /\ Stored(b, at, s).pages = b.pages
           /\ \A i \in 0..(capacity(b) - 1) :
                 Stored(b, at, s).bytes[i] =
                     IF at <= i /\ i < at + n THEN s[i - at + 1] ELSE b.bytes[i]
<1> DEFINE t == Stored(b, at, s)
<1>1. capacity(b) \in Nat
    BY CapacityFacts DEF IsBuffer
<1>2. IsRecord(b) /\ DOMAIN b.bytes = 0..(capacity(b) - 1)
    BY DEF IsBuffer
<1>3. /\ IsRecord(t) /\ t.pages = b.pages /\ t.len = b.len
      /\ t.bytes = [i \in 0..(capacity(b) - 1) |->
                         IF i - at + 1 \in DOMAIN s THEN s[i - at + 1] ELSE b.bytes[i]]
    BY <1>2 DEF Stored, IsRecord
<1> HIDE DEF t
<1>4. \A i \in 0..(capacity(b) - 1) : i - at + 1 \in DOMAIN s <=> at <= i /\ i < at + n
    BY <1>1
<1>5. \A i \in 0..(capacity(b) - 1) :
          t.bytes[i] = IF at <= i /\ i < at + n THEN s[i - at + 1] ELSE b.bytes[i]
    BY <1>1, <1>3, <1>4
<1>6. \A i \in 0..(capacity(b) - 1) :
          (IF i - at + 1 \in DOMAIN s THEN s[i - at + 1] ELSE b.bytes[i]) \in Bytes \cup {Uninit}
    BY <1>1 DEF IsBuffer
<1>7. capacity(t) = capacity(b)
    BY <1>3 DEF capacity
<1>8. t.bytes \in [0..(capacity(t) - 1) -> Bytes \cup {Uninit}]
    BY <1>3, <1>6, <1>7
<1>9. IsBuffer(t)
    BY <1>3, <1>7, <1>8 DEF IsBuffer
<1> QED
    BY <1>3, <1>5, <1>9 DEF t

(* The length moves to n bytes that have been written.                      *)
LEMMA Resized ==
    ASSUME NEW b, IsBuffer(b), NEW n \in 0..capacity(b), Written(b, n)
    PROVE  /\ IsBuffer([b EXCEPT !.len = n]) /\ Written([b EXCEPT !.len = n], n)
           /\ [b EXCEPT !.len = n].len = n /\ [b EXCEPT !.len = n].bytes = b.bytes
           /\ [b EXCEPT !.len = n].pages = b.pages
<1> DEFINE r == [b EXCEPT !.len = n]
<1>1. IsRecord(b)
    BY DEF IsBuffer
<1>2. IsRecord(r) /\ r.pages = b.pages /\ r.len = n /\ r.bytes = b.bytes
    BY <1>1 DEF IsRecord
<1> HIDE DEF r
<1>3. IsBuffer(r) /\ Written(r, n)
    BY <1>2 DEF IsBuffer, Written, capacity
<1> QED
    BY <1>2, <1>3 DEF r

(* A local string that fits replaces the contents.                          *)
LEMMA FilledBuffer ==
    ASSUME NEW b, IsBuffer(b), NEW s \in Seq(Bytes), Len(s) <= capacity(b)
    PROVE  IsBuffer(Filled(b, s)) /\ Written(Filled(b, s), Filled(b, s).len)
<1> DEFINE t == Stored(b, 0, s)
<1>1. /\ Len(s) \in Nat /\ DOMAIN s = 1..Len(s) /\ \A i \in 1..Len(s) : s[i] \in Bytes
      /\ capacity(b) \in Nat
    BY CapacityFacts DEF IsBuffer
<1>2. /\ IsBuffer(t) /\ t.pages = b.pages
      /\ \A i \in 0..(capacity(b) - 1) :
            t.bytes[i] = IF 0 <= i /\ i < 0 + Len(s) THEN s[i - 0 + 1] ELSE b.bytes[i]
    BY <1>1, StoredBuffer
<1> HIDE DEF t
<1>3. capacity(t) = capacity(b)
    BY <1>2 DEF capacity
<1>4. Written(t, Len(s))
    BY <1>1, <1>2 DEF Written
<1>5. Filled(b, s) = [t EXCEPT !.len = Len(s)]
    BY DEF Filled, t
<1> QED
    BY <1>1, <1>2, <1>3, <1>4, <1>5, Resized
----------------------------------------------------------------------------
(* The loops *)

(* What one system call tells.                                              *)
LEMMA ReadOnce ==
    ASSUME NEW address \in Nat, NEW offset \in Nat, NEW n \in Nat,
           NEW r \in read_process_memory_once(address, offset, n)
    PROVE  /\ r \in Int
           /\ r > 0 => /\ r \in 1..n /\ address + offset + n <= UsizeMax
                       /\ \A i \in 0..(r - 1) : memory[address + offset + i] # Unmapped
           /\ r = -EFAULT => \/ address + offset + n > UsizeMax
                             \/ \E i \in 0..(n - 1) : memory[address + offset + i] = Unmapped
<1>1. UsizeMax \in Nat
    BY SizesAssumption
<1>2. CASE address + offset + n > UsizeMax
    BY <1>1, <1>2 DEF read_process_memory_once, EFAULT
<1>3. CASE address + offset + n <= UsizeMax
    <2>1. r \in process_vm_readv(address + offset, n)
        BY <1>1, <1>3 DEF read_process_memory_once
    <2> QED
        BY <1>1, <1>3, <2>1, SMTT(30) DEF process_vm_readv, EFAULT, ESRCH
<1> QED
    BY <1>1, <1>2, <1>3

(* The state of a copy, from the invariant.                                 *)
LEMMA CopyFacts ==
    ASSUME IInv, pc # "idle"
    PROVE  /\ IsBuffer(buf) /\ IsJob(job) /\ capacity(buf) \in Nat /\ MAX_PATH \in Nat \ {0}
           /\ MAX_PATH <= capacity(buf)
           /\ job.copied \in Nat /\ job.len \in Nat /\ job.address \in Nat /\ UsizeMax \in Nat
           /\ job.address <= UsizeMax
           /\ buf.len = 0 /\ result = NoResult /\ job.copied <= capacity(buf)
           /\ Written(buf, job.copied)
           /\ memory \in [Addresses -> Bytes \cup {Unmapped}] /\ Mapped(memory)
<1>1. /\ IsBuffer(buf) /\ IsJob(job) /\ memory \in [Addresses -> Bytes \cup {Unmapped}]
      /\ buf.len = 0 /\ result = NoResult /\ job.copied <= capacity(buf)
      /\ Written(buf, job.copied) /\ Mapped(memory)
    BY DEF IInv, Types, TypeOK, CopyHidden
<1>2. capacity(buf) \in Nat /\ MAX_PATH \in Nat \ {0} /\ MAX_PATH <= capacity(buf)
    BY <1>1, CapacityFacts DEF IsBuffer
<1>3. /\ job.copied \in Nat /\ job.len \in Nat /\ job.address \in Nat /\ UsizeMax \in Nat
      /\ job.address <= UsizeMax
    BY <1>1, SizesAssumption DEF IsJob, Addresses
<1> QED
    BY <1>1, <1>2, <1>3

(* n bytes that are there arrive behind those copied before.                *)
LEMMA ArrivedFacts ==
    ASSUME IInv, pc # "idle", NEW n \in Nat, job.copied + n <= capacity(buf),
           job.address + job.copied + n <= UsizeMax,
           \A i \in 0..(n - 1) : memory[job.address + job.copied + i] # Unmapped
    PROVE  /\ IsBuffer(Arrived(n)) /\ Arrived(n).len = 0 /\ capacity(Arrived(n)) = capacity(buf)
           /\ Written(Arrived(n), job.copied + n)
           /\ \A i \in 0..(job.copied - 1) : Arrived(n).bytes[i] = buf.bytes[i]
           /\ \A i \in 0..(n - 1) :
                 Arrived(n).bytes[job.copied + i] = memory[job.address + job.copied + i]
<1>11. PICK s : s = [i \in 1..n |-> memory[job.address + job.copied + i - 1]]
    OBVIOUS
<1>12. PICK b : b = Stored(buf, job.copied, s)
    OBVIOUS
<1>1. /\ IsBuffer(buf) /\ capacity(buf) \in Nat /\ job.copied \in Nat /\ job.address \in Nat
      /\ UsizeMax \in Nat /\ buf.len = 0 /\ Written(buf, job.copied)
      /\ memory \in [Addresses -> Bytes \cup {Unmapped}]
    BY CopyFacts
<1>2. ASSUME NEW i \in 1..n PROVE s[i] \in Bytes
    <2>1. /\ job.address + job.copied + i - 1 \in Addresses
          /\ i - 1 \in 0..(n - 1) /\ job.address + job.copied + (i - 1) = job.address + job.copied + i - 1
        BY <1>1 DEF Addresses
    <2>2. memory[job.address + job.copied + i - 1] # Unmapped
        BY <2>1
    <2> QED
        BY <1>1, <1>11, <2>1, <2>2
<1>3. DOMAIN s = 1..n
    BY <1>11
<1>4. \A i \in 0..(n - 1) : s[i + 1] = memory[job.address + job.copied + i]
    BY <1>1, <1>11
<1>5. /\ IsBuffer(b) /\ b.len = buf.len /\ b.pages = buf.pages
      /\ \A i \in 0..(capacity(buf) - 1) :
            b.bytes[i] = IF job.copied <= i /\ i < job.copied + n THEN s[i - job.copied + 1]
                         ELSE buf.bytes[i]
    <2>1. \A i \in 1..n : s[i] \in Bytes
        BY <1>2
    <2> QED
        <3>1. PICK at \in Nat : at = job.copied
            BY <1>1
        <3>2. b = Stored(buf, at, s) /\ IsBuffer(buf)
            BY <1>1, <1>12, <3>1
        <3>3. /\ IsBuffer(b) /\ b.len = buf.len /\ b.pages = buf.pages
              /\ \A i \in 0..(capacity(buf) - 1) :
                    b.bytes[i] = IF at <= i /\ i < at + n THEN s[i - at + 1] ELSE buf.bytes[i]
            BY <1>3, <2>1, <3>1, <3>2, StoredBuffer, SMTT(30)
        <3> QED
            BY <3>1, <3>3
<1>6. Arrived(n) = b
    BY <1>11, <1>12 DEF Arrived
<1>7. \A i \in 0..(job.copied - 1) : b.bytes[i] = buf.bytes[i] /\ buf.bytes[i] \in Bytes
    BY <1>1, <1>5 DEF Written
<1>8. ASSUME NEW i \in 0..(n - 1)
      PROVE  /\ b.bytes[job.copied + i] = memory[job.address + job.copied + i]
             /\ b.bytes[job.copied + i] \in Bytes
    <2>1. /\ job.copied + i \in 0..(capacity(buf) - 1) /\ job.copied <= job.copied + i
          /\ job.copied + i < job.copied + n /\ (job.copied + i) - job.copied + 1 = i + 1
          /\ i + 1 \in 1..n
        BY <1>1
    <2>2. b.bytes[job.copied + i] = s[i + 1]
        BY <1>5, <2>1
    <2> QED
        BY <1>2, <1>4, <2>1, <2>2
<1>9. Written(b, job.copied + n)
    <2>1. ASSUME NEW i \in 0..((job.copied + n) - 1) PROVE b.bytes[i] \in Bytes
        <3>1. CASE i < job.copied
            BY <1>1, <1>7, <3>1
        <3>2. CASE i >= job.copied
            <4>1. i - job.copied \in 0..(n - 1) /\ job.copied + (i - job.copied) = i
                BY <1>1, <3>2
            <4> QED
                BY <1>8, <4>1
        <3> QED
            BY <1>1, <3>1, <3>2
    <2> QED
        BY <2>1, Zenon DEF Written
<1>10. capacity(b) = capacity(buf)
    BY <1>5 DEF capacity
<1> QED
    BY <1>1, <1>5, <1>6, <1>7, <1>8, <1>9, <1>10

(* The first NUL among the n bytes that arrived, or n if there is none.     *)
LEMMA NulFacts ==
    ASSUME NEW b, NEW n \in Nat
    PROVE  /\ NulPosition(b, n) \in 0..n
           /\ NulPosition(b, n) < n => b.bytes[job.copied + NulPosition(b, n)] = NUL
           /\ \A i \in 0..(NulPosition(b, n) - 1) : b.bytes[job.copied + i] # NUL
<1> DEFINE T == {k \in 0..n : k = n \/ b.bytes[job.copied + k] = NUL}
<1>1. T \subseteq Nat /\ n \in T
    OBVIOUS
<1>2. PICK k \in T : \A m \in T : k <= m
    BY <1>1, LeastNumber
<1>3. k \in 0..n /\ (k < n => b.bytes[job.copied + k] = NUL)
    OBVIOUS
<1>4. \A i \in 0..(k - 1) : b.bytes[job.copied + i] # NUL
    <2> SUFFICES ASSUME NEW i \in 0..(k - 1), b.bytes[job.copied + i] = NUL PROVE FALSE
        OBVIOUS
    <2>1. i \in T
        BY <1>3
    <2>2. k <= i
        BY <1>2, <2>1
    <2> QED
        BY <1>3, <2>2
<1> QED
    BY <1>3, <1>4 DEF NulPosition
----------------------------------------------------------------------------
(* The operations that copy nothing, and the entries of those that do *)

(* An operation is over.                                                    *)
LEMMA IdleIInv ==
    ASSUME IInv, pc' = "idle", IsBuffer(buf'), Written(buf', buf'.len), IsJob(job'),
           UNCHANGED <<memory, writes>>, CPathExact', BytesExact'
    PROVE  IInv'
<1>1. Types'
    BY DEF IInv, Types, TypeOK, IsBuffer, IsJob, capacity
<1>2. Initialized' /\ CopyHidden' /\ LoopBound' /\ ArrivedTrue'
    BY DEF Initialized, Written, CopyHidden, LoopBound, ArrivedTrue
<1>3. Mapped(memory)'
    BY DEF IInv, Mapped
<1> QED
    BY <1>1, <1>2, <1>3 DEF IInv

(* A result of which neither exactness property speaks.                     *)
LEMMA QuietResult ==
    ASSUME NEW k, NEW e, NEW op \in {"none", "set_path", "path"},
           op = "path" => k = "errno" /\ e # EFAULT, result' = Result(op, k, e)
    PROVE  CPathExact' /\ BytesExact'
<1>1. result'.op = op /\ result'.kind = k /\ result'.errno = e
    BY DEF Result
<1> QED
    BY <1>1 DEF CPathExact, BytesExact

(* The job of an idle buffer is well formed.                                *)
LEMMA NoJobIsJob == IsJob(NoJob)
BY SizesAssumption DEF IsJob, NoJob, Addresses

(* The buffer between two operations.                                       *)
LEMMA BufferFacts ==
    ASSUME IInv
    PROVE  IsBuffer(buf) /\ Written(buf, buf.len) /\ capacity(buf) \in Nat /\ buf.len \in Nat
           /\ MAX_PATH <= capacity(buf) /\ MAX_PATH \in Nat
<1>1. IsBuffer(buf) /\ Written(buf, buf.len)
    BY DEF IInv, Types, Initialized, Written
<1> QED
    BY <1>1, CapacityFacts DEF IsBuffer

(* set_path: the whole string is copied, or it is too long.                 *)
LEMMA SetPathIInv ==
    ASSUME IInv, NEW s \in Inputs, set_path(s)
    PROVE  IInv'
<1>1. pc' = "idle" /\ job' = NoJob /\ UNCHANGED <<memory, writes>>
    BY DEF set_path, NoCopy
<1>2. s \in Seq(Bytes) /\ Len(s) \in Nat
    BY SizesAssumption
<1>3. IsBuffer(buf) /\ Written(buf, buf.len) /\ capacity(buf) \in Nat /\ MAX_PATH <= capacity(buf)
      /\ MAX_PATH \in Nat
    BY BufferFacts
<1>4. CASE Len(s) > MAX_PATH
    <2>1. result' = Result("set_path", "too_long", 0) /\ UNCHANGED buf
        BY <1>4 DEF set_path
    <2> QED
        BY <1>1, <1>3, <2>1, NoJobIsJob, QuietResult, IdleIInv
<1>5. CASE ~(Len(s) > MAX_PATH)
    <2>1. result' = Result("none", "none", 0) /\ buf' = Filled(clear(buf), s)
        BY <1>5 DEF set_path, NoResult, Result
    <2>2. IsBuffer(clear(buf)) /\ capacity(clear(buf)) = capacity(buf)
        BY <1>3, ClearBuffer
    <2>3. Len(s) <= capacity(clear(buf))
        BY <1>2, <1>3, <1>5, <2>2
    <2>4. IsBuffer(buf') /\ Written(buf', buf'.len)
        BY <1>2, <2>1, <2>2, <2>3, FilledBuffer
    <2> QED
        BY <1>1, <2>1, <2>4, NoJobIsJob, QuietResult, IdleIInv
<1> QED
    BY <1>4, <1>5

(* set_bytes: the whole slice is copied, into pages enough for it.          *)
LEMMA SetBytesIInv ==
    ASSUME IInv, NEW s \in Inputs, set_bytes(s)
    PROVE  IInv'
<1>1. /\ pc' = "idle" /\ job' = NoJob /\ UNCHANGED <<memory, writes>>
      /\ result' = Result("none", "none", 0)
      /\ buf' = Filled(ensure_capacity(clear(buf), Len(s)), s)
    BY DEF set_bytes, NoCopy, NoResult, Result
<1>2. s \in Seq(Bytes) /\ Len(s) \in Nat
    BY SizesAssumption
<1>3. IsBuffer(clear(buf)) /\ Written(clear(buf), clear(buf).len)
    BY BufferFacts, ClearBuffer
<1>4. /\ IsBuffer(ensure_capacity(clear(buf), Len(s)))
      /\ Len(s) <= capacity(ensure_capacity(clear(buf), Len(s)))
    BY <1>2, <1>3, EnsureCapacity
<1>5. IsBuffer(buf') /\ Written(buf', buf'.len)
    BY <1>1, <1>2, <1>4, FilledBuffer
<1> QED
    BY <1>1, <1>5, NoJobIsJob, QuietResult, IdleIInv

(* truncate, to a length or at the first NUL.                               *)
LEMMA TruncateIInv ==
    ASSUME IInv, pc' = "idle", job' = NoJob, UNCHANGED <<memory, writes>>, result' = NoResult,
           (\E n \in Nat : buf' = truncate(buf, n)) \/ UNCHANGED buf
    PROVE  IInv'
<1>1. IsBuffer(buf) /\ Written(buf, buf.len)
    BY BufferFacts
<1>2. IsBuffer(buf') /\ Written(buf', buf'.len)
    BY <1>1, TruncateBuffer
<1>3. result' = Result("none", "none", 0)
    BY DEF NoResult, Result
<1> QED
    BY <1>2, <1>3, NoJobIsJob, QuietResult, IdleIInv

(* A copy begins: the buffer is empty, and has room for what was asked for. *)
LEMMA CopyingIInv ==
    ASSUME IInv, NEW op, NEW loop, NEW a \in Addresses, NEW n \in Nat, Copying(op, loop, a, n),
           IsBuffer(buf'), buf'.len = 0,
           \/ /\ loop = "bytes" /\ op \in {"path", "bytes"}
              /\ n <= (IF op = "path" THEN MAX_PATH ELSE capacity(buf'))
           \/ loop = "c_path" /\ op = "c_path"
    PROVE  IInv'
<1>1. /\ pc' = loop /\ result' = NoResult /\ UNCHANGED <<memory, writes>>
      /\ job' = [op |-> op, address |-> a, len |-> n, copied |-> 0]
    BY DEF Copying
<1>2. /\ job'.op = op /\ job'.address = a /\ job'.len = n /\ job'.copied = 0
      /\ IsJob(job')
    BY <1>1 DEF IsJob
<1>3. Types'
    BY <1>1, <1>2 DEF IInv, Types, TypeOK, IsBuffer, IsJob, capacity
<1>4. capacity(buf') \in Nat /\ MAX_PATH \in Nat
    BY CapacityFacts DEF IsBuffer
<1>5. Initialized' /\ ArrivedTrue'
    BY <1>2 DEF Initialized, ArrivedTrue
<1>6. CopyHidden'
    BY <1>1, <1>2, <1>4 DEF CopyHidden, Written, capacity, NoResult
<1>7. LoopBound'
    BY <1>1, <1>2, <1>4 DEF LoopBound, capacity
<1>8. Mapped(memory)'
    BY <1>1 DEF IInv, Mapped
<1>9. CPathExact' /\ BytesExact'
    <2>1. result' = Result("none", "none", 0)
        BY <1>1 DEF NoResult, Result
    <2> QED
        BY <2>1, QuietResult
<1> QED
    BY <1>3, <1>5, <1>6, <1>7, <1>8, <1>9 DEF IInv

(* copy_from_process_path_with_len: a length within a page starts it.       *)
LEMMA CopyPathIInv ==
    ASSUME IInv, NEW a \in Addresses, NEW n \in Lens, copy_from_process_path_with_len(a, n)
    PROVE  IInv'
<1>1. n \in Nat /\ MAX_PATH \in Nat
    BY SizesAssumption
<1>2. CASE n > MAX_PATH
    <2>1. /\ result' = Result("path", "errno", ENAMETOOLONG) /\ UNCHANGED buf
          /\ pc' = "idle" /\ job' = NoJob /\ UNCHANGED <<memory, writes>>
        BY <1>2 DEF copy_from_process_path_with_len, NoCopy
    <2>2. CPathExact' /\ BytesExact'
        <3>1. ENAMETOOLONG # EFAULT
            BY DEF ENAMETOOLONG, EFAULT
        <3> QED
            BY <2>1, <3>1, QuietResult
    <2> QED
        BY <2>1, <2>2, BufferFacts, NoJobIsJob, IdleIInv
<1>3. CASE ~(n > MAX_PATH)
    <2>1. buf' = clear(buf) /\ Copying("path", "bytes", a, n)
        BY <1>3 DEF copy_from_process_path_with_len
    <2>2. IsBuffer(buf') /\ buf'.len = 0
        BY <2>1, BufferFacts, ClearBuffer
    <2>3. n <= MAX_PATH
        BY <1>1, <1>3
    <2> QED
        BY <1>1, <2>1, <2>2, <2>3, CopyingIInv
<1> QED
    BY <1>2, <1>3

(* copy_from_process_bytes: enough pages are there for the length.          *)
LEMMA CopyBytesIInv ==
    ASSUME IInv, NEW a \in Addresses, NEW n \in Lens, copy_from_process_bytes(a, n)
    PROVE  IInv'
<1>1. n \in Nat
    BY SizesAssumption
<1>2. buf' = ensure_capacity(clear(buf), n) /\ Copying("bytes", "bytes", a, n)
    BY DEF copy_from_process_bytes
<1>3. IsBuffer(clear(buf)) /\ Written(clear(buf), clear(buf).len) /\ clear(buf).len = 0
    BY BufferFacts, ClearBuffer
<1>4. IsBuffer(buf') /\ buf'.len = 0 /\ n <= capacity(buf')
    BY <1>1, <1>2, <1>3, EnsureCapacity
<1> QED
    BY <1>1, <1>2, <1>4, CopyingIInv

(* copy_from_process_c_path: the copy starts with an empty buffer.          *)
LEMMA CopyCPathIInv ==
    ASSUME IInv, NEW a \in Addresses, copy_from_process_c_path(a)
    PROVE  IInv'
<1>1. buf' = clear(buf) /\ Copying("c_path", "c_path", a, 0)
    BY DEF copy_from_process_c_path
<1>2. IsBuffer(buf') /\ buf'.len = 0
    BY <1>1, BufferFacts, ClearBuffer
<1> QED
    BY <1>1, <1>2, CopyingIInv
----------------------------------------------------------------------------
(* The steps of a copy *)

(* Some bytes arrived and more are to come.                                 *)
LEMMA ArrivesIInv ==
    ASSUME IInv, pc # "idle", NEW r \in Nat, job.copied + r <= capacity(buf),
           job.address + job.copied + r <= UsizeMax,
           \A i \in 0..(r - 1) : memory[job.address + job.copied + i] # Unmapped,
           buf' = Arrived(r), job' = [job EXCEPT !.copied = @ + r],
           UNCHANGED <<pc, result, memory, writes>>,
           pc = "bytes" => job.copied + r <= job.len,
           pc = "c_path" => /\ job.copied + r <= MAX_PATH
                            /\ \A i \in 0..(r - 1) : buf'.bytes[job.copied + i] # NUL
    PROVE  IInv'
<1>1. /\ IsJob(job) /\ capacity(buf) \in Nat /\ job.copied \in Nat /\ job.address \in Nat
      /\ UsizeMax \in Nat /\ result = NoResult
      /\ memory \in [Addresses -> Bytes \cup {Unmapped}]
    BY CopyFacts
<1>2. /\ IsBuffer(buf') /\ buf'.len = 0 /\ capacity(buf') = capacity(buf)
      /\ Written(buf', job.copied + r)
      /\ \A i \in 0..(job.copied - 1) : buf'.bytes[i] = buf.bytes[i]
      /\ \A i \in 0..(r - 1) : buf'.bytes[job.copied + i] = memory[job.address + job.copied + i]
    BY ArrivedFacts
<1>3. /\ job'.op = job.op /\ job'.address = job.address /\ job'.len = job.len
      /\ job'.copied = job.copied + r /\ IsJob(job')
    BY <1>1 DEF IsJob
<1>4. Types'
    BY <1>2, <1>3 DEF IInv, Types, TypeOK, IsBuffer, IsJob, capacity
<1>5. Initialized'
    BY <1>2 DEF Initialized
<1>6. CopyHidden'
    BY <1>1, <1>2, <1>3 DEF CopyHidden, Written, capacity, NoResult
<1>7. ASSUME NEW i \in 0..(job'.copied - 1), i >= job.copied
      PROVE  i - job.copied \in 0..(r - 1) /\ job.copied + (i - job.copied) = i
             /\ job.address + job.copied + (i - job.copied) = job.address + i
    BY <1>1, <1>3, <1>7
<1>8. LoopBound'
    <2>1. pc = "bytes" => /\ job.op \in {"path", "bytes"}
                          /\ job.len <= (IF job.op = "path" THEN MAX_PATH ELSE capacity(buf))
        BY DEF IInv, LoopBound
    <2>2. pc = "c_path" => job.op = "c_path" /\ \A i \in 0..(job.copied - 1) : buf.bytes[i] # NUL
        BY DEF IInv, LoopBound
    <2>3. ASSUME pc = "c_path", NEW i \in 0..(job'.copied - 1) PROVE buf'.bytes[i] # NUL
        <3>1. CASE i < job.copied
            BY <1>1, <1>2, <1>3, <2>2, <2>3, <3>1
        <3>2. CASE i >= job.copied
            BY <1>7, <2>3, <3>2
        <3> QED
            BY <1>1, <1>3, <3>1, <3>2
    <2> QED
        BY <1>2, <1>3, <2>1, <2>2, <2>3 DEF LoopBound, capacity
<1>9. ArrivedTrue'
    <2>1. ASSUME Undisturbed, NEW i \in 0..(job'.copied - 1)
          PROVE  job.address + i \in Addresses /\ memory[job.address + i] = buf'.bytes[i]
        <3>1. CASE i < job.copied
            BY <1>1, <1>2, <1>3, <2>1, <3>1 DEF IInv, ArrivedTrue
        <3>2. CASE i >= job.copied
            <4>1. memory[job.address + i] = buf'.bytes[i]
                BY <1>2, <1>7, <3>2
            <4>2. job.address + i \in Addresses
                BY <1>1, <1>3, <3>2 DEF Addresses
            <4> QED
                BY <4>1, <4>2
        <3> QED
            BY <1>1, <1>3, <3>1, <3>2
    <2> QED
        BY <1>3, <2>1 DEF ArrivedTrue, Undisturbed
<1>10. Mapped(memory)'
    BY DEF IInv, Mapped
<1>11. CPathExact' /\ BytesExact'
    <2>1. result' = Result("none", "none", 0)
        BY <1>1 DEF NoResult, Result
    <2> QED
        BY <2>1, QuietResult
<1> QED
    BY <1>4, <1>5, <1>6, <1>8, <1>9, <1>10, <1>11 DEF IInv

(* A copy fails for a reason that is true.                                  *)
LEMMA FailsIInv ==
    ASSUME IInv, pc # "idle", NEW k \in {"io", "errno"}, NEW e, FailsWith(k, e),
           UNCHANGED <<memory, writes>>,
           k = "errno" /\ e = EFAULT /\ pc = "bytes" /\ Undisturbed =>
               \E i \in 0..(job.len - 1) : ~Readable(job.address + i),
           k = "errno" /\ pc = "c_path" /\ Undisturbed =>
               IF e = ENAMETOOLONG THEN Plain(MAX_PATH)
               ELSE \E n \in 0..(MAX_PATH - 1) : Plain(n) /\ ~Readable(job.address + n)
    PROVE  IInv'
<1>1. pc' = "idle" /\ result' = Result(job.op, k, e) /\ UNCHANGED <<buf, job>>
    BY DEF FailsWith
<1>2. IsBuffer(buf) /\ IsJob(job) /\ Written(buf, buf.len)
    BY CopyFacts, BufferFacts
<1>3. result'.op = job.op /\ result'.kind = k /\ result'.errno = e
    BY <1>1 DEF Result
<1>4. pc \in {"bytes", "c_path"} /\ (pc = "bytes" <=> job.op \in {"path", "bytes"})
      /\ (pc = "c_path" <=> job.op = "c_path")
    BY DEF IInv, Types, TypeOK, LoopBound
<1>5. CPathExact'
    BY <1>1, <1>3, <1>4 DEF CPathExact, Undisturbed, Plain, Readable
<1>6. BytesExact'
    BY <1>1, <1>3, <1>4 DEF BytesExact, Undisturbed, Readable
<1> QED
    BY <1>1, <1>2, <1>5, <1>6, IdleIInv

(* read_process_memory, the loop of the sized copies.                       *)
LEMMA ReadMemoryIInv ==
    ASSUME IInv, read_process_memory
    PROVE  IInv'
<1>1. pc = "bytes" /\ pc # "idle" /\ UNCHANGED <<memory, writes>>
    BY DEF read_process_memory
<1>2. /\ IsBuffer(buf) /\ IsJob(job) /\ capacity(buf) \in Nat /\ MAX_PATH \in Nat
      /\ MAX_PATH <= capacity(buf)
      /\ job.copied \in Nat /\ job.len \in Nat /\ job.address \in Nat /\ UsizeMax \in Nat
      /\ job.copied <= capacity(buf) /\ Written(buf, job.copied) /\ Mapped(memory)
    BY <1>1, CopyFacts
<1>3. /\ job.op \in {"path", "bytes"} /\ job.copied <= job.len
      /\ job.len <= capacity(buf)
    BY <1>1, <1>2 DEF IInv, LoopBound
<1>4. CASE job.copied < job.len
    <2>1. PICK r \in read_process_memory_once(job.address, job.copied, job.len - job.copied) :
             IF r > 0
             THEN /\ buf' = Arrived(r)
                  /\ job' = [job EXCEPT !.copied = @ + r]
                  /\ UNCHANGED <<pc, result>>
             ELSE CopyFails(r)
        BY <1>4 DEF read_process_memory
    <2>2. job.len - job.copied \in Nat
        BY <1>2, <1>4
    <2>3. /\ r \in Int
          /\ r > 0 => /\ r \in 1..(job.len - job.copied)
                      /\ job.address + job.copied + (job.len - job.copied) <= UsizeMax
                      /\ \A i \in 0..(r - 1) : memory[job.address + job.copied + i] # Unmapped
          /\ r = -EFAULT =>
                \/ job.address + job.copied + (job.len - job.copied) > UsizeMax
                \/ \E i \in 0..((job.len - job.copied) - 1) :
                      memory[job.address + job.copied + i] = Unmapped
        BY <1>2, <2>1, <2>2, ReadOnce
    <2>4. CASE r > 0
        <3>1. /\ r \in Nat /\ job.copied + r <= job.len /\ job.copied + r <= capacity(buf)
              /\ job.address + job.copied + r <= UsizeMax
            BY <1>2, <1>3, <2>3, <2>4
        <3>2. /\ buf' = Arrived(r) /\ job' = [job EXCEPT !.copied = @ + r]
              /\ UNCHANGED <<pc, result>>
            BY <2>1, <2>4
        <3> QED
            BY <1>1, <2>3, <2>4, <3>1, <3>2, ArrivesIInv
    <2>5. CASE ~(r > 0)
        <3>1. CopyFails(r)
            BY <2>1, <2>5
        <3>2. CASE r # -EFAULT
            <4>1. FailsWith("io", 0)
                BY <3>1, <3>2 DEF CopyFails
            <4> QED
                BY <1>1, <4>1, FailsIInv
        <3>3. CASE r = -EFAULT
            <4>1. FailsWith("errno", EFAULT)
                BY <3>1, <3>3 DEF CopyFails
            <4>2. \E i \in 0..(job.len - 1) : ~Readable(job.address + i)
                <5>1. CASE job.address + job.copied + (job.len - job.copied) > UsizeMax
                    <6>1. job.len - 1 \in 0..(job.len - 1) /\ job.address + (job.len - 1) >= UsizeMax
                        BY <1>2, <1>4, <5>1
                    <6>2. ~Readable(job.address + (job.len - 1))
                        BY <1>2, <6>1 DEF Readable, Addresses, Mapped
                    <6> QED
                        BY <6>1, <6>2
                <5>2. ASSUME NEW i \in 0..((job.len - job.copied) - 1),
                             memory[job.address + job.copied + i] = Unmapped
                      PROVE  \E j \in 0..(job.len - 1) : ~Readable(job.address + j)
                    <6>1. /\ job.copied + i \in 0..(job.len - 1)
                          /\ job.address + (job.copied + i) = job.address + job.copied + i
                        BY <1>2, <1>4
                    <6> QED
                        BY <5>2, <6>1 DEF Readable
                <5> QED
                    BY <2>3, <3>3, <5>1, <5>2
            <4> QED
                BY <1>1, <4>1, <4>2, FailsIInv
        <3> QED
            BY <3>2, <3>3
    <2> QED
        BY <2>4, <2>5
<1>5. CASE ~(job.copied < job.len)
    <2>1. Succeeds(buf, job.copied) /\ UNCHANGED job
        BY <1>5 DEF read_process_memory
    <2>2. job.copied = job.len /\ job.copied \in 0..capacity(buf)
        BY <1>2, <1>3, <1>5
    <2>3. PICK n \in 0..capacity(buf) : n = job.copied
        BY <2>2
    <2>4. pc' = "idle" /\ buf' = [buf EXCEPT !.len = n] /\ result' = Result(job.op, "ok", 0)
        BY <2>1, <2>3 DEF Succeeds
    <2>5. Written(buf, n)
        BY <1>2, <2>3
    <2>6. IsBuffer(buf') /\ Written(buf', n) /\ buf'.len = n /\ buf'.bytes = buf.bytes
        BY <1>2, <2>3, <2>4, <2>5, Resized
    <2>7. result'.op = job.op /\ result'.kind = "ok"
        BY <2>4 DEF Result
    <2>8. CPathExact'
        BY <1>3, <2>7 DEF CPathExact
    <2>9. BytesExact'
        BY <1>1, <2>1, <2>2, <2>3, <2>6, <2>7 DEF IInv, ArrivedTrue, BytesExact, Undisturbed
    <2> QED
        BY <1>1, <1>2, <2>1, <2>4, <2>6, <2>8, <2>9, IdleIInv
<1> QED
    BY <1>4, <1>5

(* A chunk is not empty, ends within the first local page, and does not     *)
(* leave the remote page it begins on.                                      *)
LEMMA ChunkFacts ==
    ASSUME IInv, pc = "c_path", job.copied < MAX_PATH
    PROVE  /\ Chunk \in Nat \ {0} /\ job.copied + Chunk <= MAX_PATH
           /\ \A i \in 0..(Chunk - 1) :
                 SamePage(job.address + job.copied + i, job.address + job.copied)
<1>1. job.copied \in Nat /\ job.address \in Nat /\ MAX_PATH \in Nat \ {0}
    BY CopyFacts
<1>2. PICK x \in Nat : x = job.address + job.copied
    BY <1>1
<1>3. x % MAX_PATH \in 0..(MAX_PATH - 1)
    <2>1. \A m \in Nat \ {0} : x % m \in 0..(m - 1)
        BY <1>2
    <2> QED
        BY <1>1, <2>1
<1>4. Chunk = IF MAX_PATH - (x % MAX_PATH) < MAX_PATH - job.copied
              THEN MAX_PATH - (x % MAX_PATH) ELSE MAX_PATH - job.copied
    BY <1>2 DEF Chunk
<1>5. /\ Chunk \in Nat \ {0} /\ job.copied + Chunk <= MAX_PATH
      /\ Chunk <= MAX_PATH - (x % MAX_PATH)
    BY <1>1, <1>3, <1>4
<1>6. ASSUME NEW i \in 0..(Chunk - 1) PROVE SamePage(x + i, x)
    <2>1. i \in Nat /\ i < MAX_PATH - (x % MAX_PATH)
        BY <1>1, <1>3, <1>5
    <2> QED
        BY <1>2, <2>1, StaysOnPage
<1> QED
    BY <1>2, <1>5, <1>6

(* read_process_c_path, the loop that looks for the NUL.                    *)
LEMMA ReadCPathIInv ==
    ASSUME IInv, read_process_c_path
    PROVE  IInv'
<1>1. pc = "c_path" /\ pc # "idle" /\ UNCHANGED <<memory, writes>>
    BY DEF read_process_c_path
<1>2. /\ IsBuffer(buf) /\ IsJob(job) /\ capacity(buf) \in Nat /\ MAX_PATH \in Nat
      /\ MAX_PATH <= capacity(buf)
      /\ job.copied \in Nat /\ job.address \in Nat /\ UsizeMax \in Nat
      /\ Written(buf, job.copied) /\ Mapped(memory)
      /\ memory \in [Addresses -> Bytes \cup {Unmapped}]
    BY <1>1, CopyFacts
<1>3. /\ job.op = "c_path" /\ job.copied <= MAX_PATH
      /\ \A i \in 0..(job.copied - 1) : buf.bytes[i] # NUL
    BY <1>1 DEF IInv, LoopBound
<1>4. Undisturbed => Plain(job.copied)
    <2>1. ASSUME Undisturbed, NEW i \in 0..(job.copied - 1)
          PROVE  Readable(job.address + i) /\ memory[job.address + i] # NUL
        <3>1. /\ job.address + i \in Addresses /\ memory[job.address + i] = buf.bytes[i]
              /\ buf.bytes[i] # NUL /\ buf.bytes[i] \in Bytes
            BY <1>1, <1>2, <1>3, <2>1 DEF IInv, ArrivedTrue, Written
        <3> QED
            BY <3>1, SizesAssumption DEF Readable
    <2> QED
        BY <2>1 DEF Plain
<1>5. CASE job.copied >= MAX_PATH
    <2>1. FailsWith("errno", ENAMETOOLONG) /\ job.copied = MAX_PATH
        BY <1>2, <1>3, <1>5 DEF read_process_c_path
    <2> QED
        BY <1>1, <1>4, <2>1, FailsIInv
<1>6. ASSUME job.copied < MAX_PATH, ~Readable(job.address + job.copied),
             FailsWith("errno", EFAULT)
      PROVE  IInv'
    <2>1. job.copied \in 0..(MAX_PATH - 1) /\ EFAULT # ENAMETOOLONG
        BY <1>2, <1>6 DEF EFAULT, ENAMETOOLONG
    <2> QED
        BY <1>1, <1>4, <1>6, <2>1, FailsIInv
<1>7. CASE job.copied < MAX_PATH /\ job.address + job.copied > UsizeMax
    <2>1. FailsWith("errno", EFAULT) /\ ~Readable(job.address + job.copied)
        BY <1>2, <1>7 DEF read_process_c_path, Readable, Addresses
    <2> QED
        BY <1>6, <1>7, <2>1
<1>8. CASE job.copied < MAX_PATH /\ job.address + job.copied <= UsizeMax
    <2>1. /\ Chunk \in Nat \ {0} /\ job.copied + Chunk <= MAX_PATH
          /\ \A i \in 0..(Chunk - 1) :
                SamePage(job.address + job.copied + i, job.address + job.copied)
        BY <1>1, <1>8, ChunkFacts
    <2>2. PICK r \in read_process_memory_once(job.address, job.copied, Chunk) :
             IF r > 0
             THEN IF NulPosition(Arrived(r), r) < r
                  THEN /\ Succeeds(Arrived(r), job.copied + NulPosition(Arrived(r), r))
                       /\ UNCHANGED job
                  ELSE /\ buf' = Arrived(r)
                       /\ job' = [job EXCEPT !.copied = @ + r]
                       /\ UNCHANGED <<pc, result>>
             ELSE CopyFails(r)
        <3>1. ~(job.copied >= MAX_PATH) /\ ~(job.address + job.copied > UsizeMax)
            BY <1>2, <1>8
        <3> QED
            BY <3>1 DEF read_process_c_path
    <2>3. /\ r \in Int
          /\ r > 0 => /\ r \in 1..Chunk /\ job.address + job.copied + Chunk <= UsizeMax
                      /\ \A i \in 0..(r - 1) : memory[job.address + job.copied + i] # Unmapped
          /\ r = -EFAULT =>
                \/ job.address + job.copied + Chunk > UsizeMax
                \/ \E i \in 0..(Chunk - 1) : memory[job.address + job.copied + i] = Unmapped
        BY <1>2, <2>1, <2>2, ReadOnce
    <2>4. CASE r > 0
        <3>1. /\ r \in Nat /\ job.copied + r <= MAX_PATH /\ job.copied + r <= capacity(buf)
              /\ job.address + job.copied + r <= UsizeMax
              /\ \A i \in 0..(r - 1) : memory[job.address + job.copied + i] # Unmapped
            BY <1>2, <2>1, <2>3, <2>4
        <3>2. PICK b : b = Arrived(r)
            OBVIOUS
        <3>3. /\ IsBuffer(b) /\ capacity(b) = capacity(buf) /\ Written(b, job.copied + r)
              /\ \A i \in 0..(job.copied - 1) : b.bytes[i] = buf.bytes[i]
              /\ \A i \in 0..(r - 1) : b.bytes[job.copied + i] = memory[job.address + job.copied + i]
            BY <1>1, <3>1, <3>2, ArrivedFacts
        <3>4. PICK nul \in 0..r : nul = NulPosition(b, r)
            BY <3>1, NulFacts
        <3>5. /\ nul < r => b.bytes[job.copied + nul] = NUL
              /\ \A i \in 0..(nul - 1) : b.bytes[job.copied + i] # NUL
            BY <3>1, <3>4, NulFacts
        <3>6. CASE ~(nul < r)
            <4>1. /\ buf' = Arrived(r) /\ job' = [job EXCEPT !.copied = @ + r]
                  /\ UNCHANGED <<pc, result>> /\ nul = r
                BY <2>2, <2>4, <3>1, <3>2, <3>4, <3>6
            <4>2. \A i \in 0..(r - 1) : buf'.bytes[job.copied + i] # NUL
                BY <3>2, <3>5, <4>1
            <4> QED
                BY <1>1, <3>1, <4>1, <4>2, ArrivesIInv
        <3>7. CASE nul < r
            <4>1. PICK n \in 0..capacity(b) : n = job.copied + nul
                BY <1>2, <3>1, <3>3, <3>4, <3>7
            <4>2. /\ pc' = "idle" /\ buf' = [b EXCEPT !.len = n]
                  /\ result' = Result(job.op, "ok", 0) /\ UNCHANGED job
                BY <2>2, <2>4, <3>2, <3>4, <3>7, <4>1 DEF Succeeds
            <4>3. Written(b, n)
                BY <1>2, <3>1, <3>3, <3>4, <3>7, <4>1 DEF Written
            <4>4. IsBuffer(buf') /\ Written(buf', n) /\ buf'.len = n /\ buf'.bytes = b.bytes
                BY <3>3, <4>1, <4>2, <4>3, Resized
            <4>5. n \in Nat /\ n < MAX_PATH
                BY <1>2, <3>1, <3>4, <3>7, <4>1
            <4>6. ASSUME NEW i \in 0..(n - 1)
                  PROVE  /\ buf'.bytes[i] # NUL
                         /\ Undisturbed => /\ job.address + i \in Addresses
                                           /\ memory[job.address + i] = buf'.bytes[i]
                <5>1. CASE i < job.copied
                    <6>1. i \in 0..(job.copied - 1)
                        BY <1>2, <3>4, <4>1, <5>1
                    <6> QED
                        BY <1>1, <1>3, <3>3, <4>4, <6>1 DEF IInv, ArrivedTrue
                <5>2. CASE i >= job.copied
                    <6>0. i - job.copied \in 0..(nul - 1)
                        BY <1>2, <3>4, <4>1, <4>5, <5>2
                    <6>1. PICK j \in 0..(nul - 1) : j = i - job.copied
                        BY <6>0
                    <6>2. j \in 0..(r - 1) /\ j \in Nat /\ j < r
                        BY <3>1, <3>4, <3>7, <6>1
                    <6>3. i = job.copied + j /\ job.address + i = job.address + job.copied + j
                        BY <1>2, <6>1, <6>2
                    <6>4. job.address + i \in Addresses
                        <7>1. job.address + job.copied + j \in 0..UsizeMax
                            BY <1>2, <3>1, <6>2
                        <7> QED
                            BY <6>3, <7>1 DEF Addresses
                    <6> QED
                        BY <3>3, <3>5, <4>4, <6>1, <6>2, <6>3, <6>4
                <5> QED
                    BY <1>2, <4>5, <5>1, <5>2
            <4>7. job.address + n \in Addresses /\ memory[job.address + n] = NUL
                <5>1. nul \in 0..(r - 1) /\ nul \in Nat
                    BY <3>1, <3>4, <3>7
                <5>2. job.address + n = job.address + job.copied + nul
                    BY <1>2, <4>1, <5>1
                <5>3. job.address + n \in Addresses
                    BY <1>2, <3>1, <3>7, <5>1, <5>2, SMTT(30) DEF Addresses
                <5> QED
                    BY <3>3, <3>5, <3>7, <5>1, <5>2, <5>3
            <4>8. result'.op = "c_path" /\ result'.kind = "ok"
                BY <1>3, <4>2 DEF Result
            <4>9. Undisturbed => /\ Plain(n) /\ Readable(job.address + n)
                                 /\ memory[job.address + n] = NUL
                <5>1. NUL # Unmapped
                    BY SizesAssumption
                <5>2. \A i \in 0..(n - 1) : buf'.bytes[i] \in Bytes /\ buf'.bytes[i] # Unmapped
                    BY <4>4, SizesAssumption DEF Written
                <5> QED
                    BY <4>6, <4>7, <5>1, <5>2 DEF Plain, Readable
            <4>10. CPathExact'
                BY <1>1, <4>2, <4>4, <4>5, <4>6, <4>8, <4>9
                DEF CPathExact, Undisturbed, Plain, Readable
            <4>11. BytesExact'
                BY <4>8 DEF BytesExact
            <4> QED
                BY <1>1, <1>2, <4>2, <4>4, <4>10, <4>11, IdleIInv
        <3> QED
            BY <3>6, <3>7
    <2>5. CASE ~(r > 0) /\ r # -EFAULT
        <3>1. FailsWith("io", 0)
            BY <2>2, <2>5 DEF CopyFails
        <3> QED
            BY <1>1, <3>1, FailsIInv
    <2>6. CASE ~(r > 0) /\ r = -EFAULT
        <3>1. FailsWith("errno", EFAULT)
            BY <2>2, <2>6 DEF CopyFails
        <3>2. job.address + job.copied \in Addresses
            BY <1>2, <1>8 DEF Addresses
        <3>3. ASSUME NEW i \in 0..(Chunk - 1), job.address + job.copied + i \in Addresses,
                     memory[job.address + job.copied + i] = Unmapped
              PROVE  memory[job.address + job.copied] = Unmapped
            BY <1>2, <2>1, <3>2, <3>3 DEF Mapped
        <3>4. memory[job.address + job.copied] = Unmapped
            <4>1. CASE job.address + job.copied + Chunk > UsizeMax
                <5>1. PICK i \in 0..(Chunk - 1) : i = UsizeMax - (job.address + job.copied)
                    BY <1>2, <1>8, <2>1, <4>1
                <5>2. job.address + job.copied + i = UsizeMax /\ UsizeMax \in Addresses
                    BY <1>2, <5>1 DEF Addresses
                <5> QED
                    BY <1>2, <3>3, <5>1, <5>2 DEF Mapped
            <4>2. CASE job.address + job.copied + Chunk <= UsizeMax
                <5>1. PICK i \in 0..(Chunk - 1) : memory[job.address + job.copied + i] = Unmapped
                    BY <1>2, <2>1, <2>3, <2>6, <4>2
                <5>2. job.address + job.copied + i \in Addresses
                    BY <1>2, <2>1, <4>2, <5>1 DEF Addresses
                <5> QED
                    BY <3>3, <5>1, <5>2
            <4> QED
                BY <1>2, <2>1, <4>1, <4>2
        <3> QED
            BY <1>6, <1>8, <3>1, <3>4 DEF Readable
    <2> QED
        BY <2>4, <2>5, <2>6
<1> QED
    BY <1>2, <1>5, <1>7, <1>8

(* The program changes its memory while a copy runs: from now on nothing is *)
(* claimed about the bytes it holds, and it still maps whole pages.         *)
LEMMA ProgramIInv ==
    ASSUME IInv, program
    PROVE  IInv'
<1>1. /\ pc # "idle" /\ writes' = writes + 1 /\ writes < MaxWrites
      /\ UNCHANGED <<buf, pc, job, result>>
    BY DEF program
<1>2. /\ memory \in [Addresses -> Bytes \cup {Unmapped}] /\ writes \in 0..MaxWrites
      /\ MaxWrites \in Nat /\ result = NoResult /\ Mapped(memory) /\ UsizeMax \in Addresses
    BY <1>1, CopyFacts, SizesAssumption DEF IInv, Types, TypeOK, Addresses
<1>3. memory' \in [Addresses -> Bytes \cup {Unmapped}] /\ Mapped(memory')
    <2>1. PICK a \in Addresses :
             \/ /\ memory[a] # Unmapped
                /\ \E v \in Bytes \ {memory[a]} : memory' = [memory EXCEPT ![a] = v]
             \/ memory' = [i \in Addresses |-> IF SamePage(i, a) THEN Unmapped ELSE memory[i]]
        BY DEF program
    <2>2. ASSUME memory[a] # Unmapped, NEW v \in Bytes, memory' = [memory EXCEPT ![a] = v]
          PROVE  memory' \in [Addresses -> Bytes \cup {Unmapped}] /\ Mapped(memory')
        <3>1. \A i \in Addresses : memory'[i] = Unmapped <=> memory[i] = Unmapped
            BY <1>2, <2>1, <2>2, SizesAssumption
        <3> QED
            BY <1>2, <2>1, <2>2, <3>1 DEF Mapped
    <2>3. ASSUME memory' = [i \in Addresses |-> IF SamePage(i, a) THEN Unmapped ELSE memory[i]]
          PROVE  memory' \in [Addresses -> Bytes \cup {Unmapped}] /\ Mapped(memory')
        BY <1>2, <2>1, <2>3 DEF Mapped, SamePage
    <2> QED
        BY <2>1, <2>2, <2>3
<1>4. Types'
    BY <1>1, <1>2, <1>3 DEF IInv, Types, TypeOK, IsBuffer, IsJob, capacity
<1>5. Initialized' /\ CopyHidden' /\ LoopBound'
    BY <1>1 DEF IInv, Initialized, CopyHidden, LoopBound, Written, capacity
<1>6. ArrivedTrue'
    BY <1>1, <1>2 DEF ArrivedTrue, Undisturbed
<1>7. CPathExact' /\ BytesExact'
    <2>1. result' = Result("none", "none", 0)
        BY <1>1, <1>2 DEF NoResult, Result
    <2> QED
        BY <2>1, QuietResult
<1> QED
    BY <1>3, <1>4, <1>5, <1>6, <1>7 DEF IInv
----------------------------------------------------------------------------
(* The invariant holds before anything was asked of the buffer.             *)
LEMMA InitIInv == Init => IInv
<1> SUFFICES ASSUME Init PROVE IInv
    OBVIOUS
<1>1. buf = new /\ pc = "idle" /\ job = NoJob /\ result = NoResult /\ writes = 0 /\ memory \in Memories
    BY DEF Init
<1>2. IsBuffer(buf) /\ Written(buf, buf.len) /\ IsJob(job)
    BY <1>1, NewBuffer, NoJobIsJob
<1>3. memory \in [Addresses -> Bytes \cup {Unmapped}] /\ Mapped(memory)
    BY <1>1, MemoriesAssumption
<1>4. Types
    BY <1>1, <1>2, <1>3, SizesAssumption DEF Types, TypeOK, IsBuffer, IsJob
<1>5. Initialized /\ CopyHidden /\ LoopBound /\ ArrivedTrue
    BY <1>1, <1>2 DEF Initialized, Written, CopyHidden, LoopBound, ArrivedTrue
<1>6. CPathExact /\ BytesExact
    BY <1>1 DEF CPathExact, BytesExact, NoResult
<1> QED
    BY <1>3, <1>4, <1>5, <1>6 DEF IInv

(* The invariant is inductive: it holds in every reachable state.           *)
THEOREM Invariance == Spec => []IInv
<1>1. ASSUME IInv, [Next]_vars
      PROVE  IInv'
    <2>1. ASSUME NEW n \in Lens, truncate_to(n) PROVE IInv'
        <3>1. n \in Nat
            BY SizesAssumption
        <3> QED
            BY <1>1, <2>1, <3>1, TruncateIInv DEF truncate_to, NoCopy
    <2>2. CASE truncate_at_nul
        <3>1. buf.len \in Nat
            BY <1>1, BufferFacts
        <3>2. (\E n \in Nat : buf' = truncate(buf, n)) \/ UNCHANGED buf
            BY <2>2, <3>1 DEF truncate_at_nul
        <3> QED
            BY <1>1, <2>2, <3>2, TruncateIInv DEF truncate_at_nul, NoCopy
    <2>3. CASE UNCHANGED vars
        BY <1>1, <2>3
        DEF vars, IInv, Types, TypeOK, IsBuffer, IsJob, capacity, Initialized, CopyHidden, Written,
            LoopBound, ArrivedTrue, Undisturbed, Mapped, CPathExact, BytesExact, Plain, Readable
    <2> QED
        BY <1>1, <2>1, <2>2, <2>3, SetPathIInv, SetBytesIInv, CopyCPathIInv, CopyPathIInv,
           CopyBytesIInv, ReadMemoryIInv, ReadCPathIInv, ProgramIInv
        DEF Next
<1> QED
    BY <1>1, InitIInv, PTL DEF Spec

(* The buffer always has whole pages, and its length fits (ensure_capacity  *)
(* rounds up).                                                              *)
THEOREM TypeCorrect == Spec => []TypeOK
<1>1. IInv => TypeOK
    BY DEF IInv, Types
<1> QED
    BY <1>1, Invariance, PTL

(* The unsafe code of PageBuffer: from_raw_parts never exposes a byte that  *)
(* was not written, and process_vm_readv never gets more room than the      *)
(* pages have, however the program interferes with a copy.                  *)
THEOREM Safe == Spec => []MemorySafe
<1>1. ASSUME IInv PROVE ReadsFit
    <2>1. pc = "bytes" => job.len <= (IF job.op = "path" THEN MAX_PATH ELSE capacity(buf))
        BY <1>1 DEF IInv, LoopBound
    <2>2. pc = "c_path" /\ job.copied < MAX_PATH => job.copied + Chunk <= MAX_PATH
        BY <1>1, ChunkFacts
    <2>3. pc # "idle" => job.copied <= capacity(buf)
        BY <1>1, CopyFacts
    <2> QED
        BY <2>1, <2>2, <2>3 DEF ReadsFit
<1>2. IInv => MemorySafe
    BY <1>1 DEF IInv, MemorySafe
<1> QED
    BY <1>2, Invariance, PTL

(* copy_from_process_c_path and the two sized copies: what they return is   *)
(* what the process holds, and an errno names a reason that is true.        *)
THEOREM Exact == Spec => []CopiesExact
<1>1. IInv => CopiesExact
    BY DEF IInv, CopiesExact
<1> QED
    BY <1>1, Invariance, PTL

(* A copy that fails half way leaves an empty buffer, an operation that is  *)
(* refused leaves the buffer alone.                                         *)
THEOREM FailuresClean == Spec => NothingPartial
<1> DEFINE Failed == result' # result /\ result'.kind \in {"errno", "io", "too_long"}
           Clean == Failed => IF pc = "idle" THEN buf' = buf ELSE buf'.len = 0
<1>1. NoResult.kind \notin {"errno", "io", "too_long"}
    BY DEF NoResult
<1>2. ASSUME NEW op PROVE Result(op, "ok", 0).kind \notin {"errno", "io", "too_long"}
    BY DEF Result
<1>3. ASSUME IInv, Next PROVE Clean
    <2>1. ASSUME NEW s \in Inputs, set_path(s) \/ set_bytes(s) PROVE Clean
        BY <1>1, <2>1 DEF set_path, set_bytes
    <2>2. ASSUME NEW n \in Lens, truncate_to(n) PROVE Clean
        BY <1>1, <2>2 DEF truncate_to
    <2>3. CASE truncate_at_nul
        BY <1>1, <2>3 DEF truncate_at_nul
    <2>4. ASSUME NEW a \in Addresses, NEW n \in Lens,
                 copy_from_process_path_with_len(a, n) \/ copy_from_process_bytes(a, n)
          PROVE  Clean
        BY <1>1, <2>4 DEF copy_from_process_path_with_len, copy_from_process_bytes, Copying
    <2>5. ASSUME NEW a \in Addresses, copy_from_process_c_path(a) PROVE Clean
        BY <1>1, <2>5 DEF copy_from_process_c_path, Copying
    <2>6. pc # "idle" => buf.len = 0
        BY <1>3 DEF IInv, CopyHidden
    <2>7. CASE read_process_memory
        BY <1>2, <2>6, <2>7 DEF read_process_memory, Succeeds, CopyFails, FailsWith
    <2>8. CASE read_process_c_path
        BY <1>2, <2>6, <2>8 DEF read_process_c_path, Succeeds, CopyFails, FailsWith
    <2>9. CASE program
        BY <2>9 DEF program
    <2> QED
        BY <1>3, <2>1, <2>2, <2>3, <2>4, <2>5, <2>7, <2>8, <2>9 DEF Next
<1>4. ASSUME IInv, [Next]_vars PROVE [Clean]_vars
    BY <1>3, <1>4
<1> QED
    BY <1>4, Invariance, PTL DEF Spec, NothingPartial
=============================================================================
