------------------------------- MODULE Packet --------------------------------
(***************************************************************************)
(* One packet object (packet.h, packet.cpp) and the memorystream under it  *)
(* (memorystream.h): appends at m_length, reads at the cursor m_index or,  *)
(* of the head's fields and the body, at fixed offsets.                    *)
(*                                                                         *)
(* A byte is named by its origin, <<k, o>>: byte o of the k-th thing       *)
(* appended since the last clear; Nul ends an appended std::string; Zero   *)
(* is what vector::resize fills in; a byte outside the vector is Wild.     *)
(* size_t arithmetic is modulo SIZE_T.                                     *)
(***************************************************************************)
EXTENDS PacketHead, Sequences

CONSTANTS
    Sizes,       \* the sizes of values, byte blocks and strings
    MaxItems,    \* bound on the things appended between two clears
    MaxIndex,    \* bound on the cursor
    SIZE_T,      \* 2^64
    NDEBUG       \* assert() is compiled out

ASSUME PacketAssumption ==
    /\ Sizes \subseteq Nat
    /\ MaxItems \in Nat
    /\ MaxIndex \in Nat
    /\ SIZE_T \in Nat \ {0}
    /\ NDEBUG \in BOOLEAN

VARIABLES
    m_data,      \* the vector: Seq(Byte)
    m_length,
    m_index,
    proc,        \* "running", "assert" or "crashed"
    written,     \* history: what was appended since the last clear
    reads,       \* history: how many of these were read back, in order,
    instep,      \* ... and whether all calls so far did just that
    out          \* the last read: what was called, its result r and its bytes

vars == <<m_data, m_length, m_index, proc, written, reads, instep, out>>

Nul  == <<0, 0>>
Zero == <<0, 1>>
Wild == <<0, 2>>

Kinds == {"value", "bytes", "string"}    \* what is appended and read at the cursor

(* An appended thing: its kind, its size, and the offset it went to. *)
Item == [kind : Kinds, n : Nat, at : Nat]

(* Faulty: a string goes in without its terminating '\0'. *)
ExtentNoNul(kind, n) == n

(* append(const std::string&) also appends the terminating '\0'. *)
Extent(kind, n) == IF kind = "string" THEN n + 1 ELSE n

(* vector::max_size is half of what size_t counts: growing further throws. *)
Fits(n) == 2 * n <= SIZE_T

Bytes(k, kind, n) ==
    [o \in 1 .. Extent(kind, n) |-> IF o > n THEN Nul ELSE <<k, o>>]

(***************************************************************************)
(* The constructors: packet() and packet(size) leave the packet empty, and *)
(* the other ones then append; packet(std::string&) leaves m_index as it   *)
(* found the memory.                                                       *)
(***************************************************************************)
Init ==
    /\ \/ m_data = <<>> /\ written = <<>> /\ m_index = 0
       \/ \E n \in Sizes :
             /\ Fits(n + 1)
             /\ m_data = Bytes(1, "string", n)
             /\ written = <<[kind |-> "string", n |-> n, at |-> 0]>>
             /\ m_index \in 0 .. MaxIndex
    /\ m_length = Len(m_data)
    /\ proc = "running"
    /\ reads = 0
    /\ instep = (m_index = 0)
    /\ out = [kind |-> "bytes", n |-> 0, r |-> 0, data |-> <<>>]

(* Faulty: the vector is not resized. *)
StoreNoResize(s, at, b) ==
    [i \in 1 .. Len(s) |-> IF i \in at + 1 .. at + Len(b) THEN b[i - at] ELSE s[i]]

(* Faulty: the bytes go to the end of the vector, wherever m_length is. *)
StoreAtEnd(s, at, b) == IF b = <<>> THEN [i \in 1 .. at |-> Zero] ELSE s \o b

(* memcpy to m_data[at], after the resize that makes room for it *)
Store(s, at, b) ==
    [i \in 1 .. (IF Len(s) < at + Len(b) THEN at + Len(b) ELSE Len(s)) |->
        IF i \in at + 1 .. at + Len(b) THEN b[i - at]
        ELSE IF i <= Len(s) THEN s[i] ELSE Zero]

(***************************************************************************)
(* append: of nothing, &m_data[m_length] may be one past the vector, which *)
(* a debug build of the library refuses.                                   *)
(***************************************************************************)
append(kind, n) ==
    LET b == Bytes(Len(written) + 1, kind, n) IN
    /\ proc = "running"
    /\ Len(written) < MaxItems
    /\ Fits(m_length + Len(b))
    /\ m_data' = Store(m_data, m_length, b)
    /\ m_length' = m_length + Len(b)
    /\ written' = Append(written, [kind |-> kind, n |-> n, at |-> m_length])
    /\ proc' \in IF Len(b) = 0 /\ Len(m_data) = m_length THEN {"running", "crashed"}
                 ELSE {"running"}
    /\ UNCHANGED <<m_index, reads, instep, out>>

(* resize: only ever grows the vector *)
Resize(n) ==
    /\ proc = "running"
    /\ Len(m_data) < n
    /\ Fits(n)
    /\ m_data' = Store(m_data, n, <<>>)
    /\ UNCHANGED <<m_length, m_index, proc, written, reads, instep, out>>

(* clear, which packet inherits: the cursor stays where it is. *)
Clear ==
    /\ proc = "running"
    /\ m_data' = <<>>
    /\ m_length' = 0
    /\ written' = <<>>
    /\ reads' = 0
    /\ instep' = (m_index = 0)
    /\ UNCHANGED <<m_index, proc, out>>

(* n bytes of the vector from offset at on *)
Copy(at, n) == [i \in 1 .. n |-> IF at + i <= Len(m_data) THEN m_data[at + i] ELSE Wild]

(* The call that reads back what is next. *)
Matches(kind, n) ==
    reads < Len(written) /\ written[reads + 1].kind = kind /\ written[reads + 1].n = n

(* A read of length len ends with result r and the cursor moved by step. *)
Done(kind, n, r, len, step) ==
    /\ m_index + step <= MaxIndex
    /\ m_index' = IF r = 0 THEN m_index + step ELSE m_index
    /\ out' = [kind |-> kind, n |-> n, r |-> r,
               data |-> IF r = 0 THEN Copy(m_index, len) ELSE <<>>]
    /\ instep' = (instep /\ Matches(kind, n))
    /\ reads' = IF instep /\ Matches(kind, n) THEN reads + 1 ELSE reads
    /\ proc' \in IF r = 0 /\ m_index + len > Len(m_data) THEN {"running", "crashed"}
                 ELSE {"running"}
    /\ UNCHANGED <<m_data, m_length, written>>

(* read<T>(): assert(sizeof(T) <= m_length - m_index) *)
ReadValue(n) ==
    /\ proc = "running"
    /\ n > 0
    /\ IF NDEBUG \/ n <= (m_length - m_index) % SIZE_T
       THEN Done("value", n, 0, n, n)
       ELSE /\ proc' = "assert"
            /\ instep' = (instep /\ Matches("value", n))
            /\ UNCHANGED <<m_data, m_length, m_index, written, reads, out>>

(* Faulty: only the length is compared with m_length, not the end. *)
ReadBytesUnchecked(n) ==
    /\ proc = "running"
    /\ Done("bytes", n,
            IF m_index >= m_length THEN 1 ELSE IF n > m_length THEN 2 ELSE 0, n, n)

(* read(char* dest, len) *)
ReadBytes(n) ==
    /\ proc = "running"
    /\ Done("bytes", n,
            IF m_index >= m_length THEN 1
            ELSE IF n > m_length \/ m_index + n > m_length THEN 2 ELSE 0, n, n)

(* read(std::string& dest, len): len + 1 bytes, the '\0' included *)
ReadString(n) ==
    /\ proc = "running"
    /\ Done("string", n,
            IF m_index > m_length THEN 1
            ELSE IF n > m_length \/ m_index + n > m_length THEN 2 ELSE 0, n + 1, n + 1)

(* Reading data from offset at on, the cursor left alone *)
ReadAt(kind, n, r, at, len) ==
    /\ out' = [kind |-> kind, n |-> n, r |-> r, data |-> Copy(at, len)]
    /\ proc' \in IF at + len > Len(m_data) THEN {"running", "crashed"} ELSE {"running"}
    /\ UNCHANGED <<m_data, m_length, m_index, written, reads, instep>>

(* id(), version(), time(), bodylength(), extra() *)
Field(f) ==
    /\ proc = "running"
    /\ IF Absent(f, m_length) THEN ReadAt("field", SizeOf(f), 0, 0, 0)
       ELSE IF NDEBUG \/ ~Truncated(f, m_length)
            THEN ReadAt("field", SizeOf(f), 0, Offset(f), SizeOf(f))
            ELSE /\ proc' = "assert"
                 /\ UNCHANGED <<m_data, m_length, m_index, written, reads, instep, out>>

(* body(data), when bodylength() is n *)
Body(n) ==
    /\ proc = "running"
    /\ IF NoBody(m_length, n) THEN ReadAt("body", 0, 0, 0, 0)
       ELSE ReadAt("body", n, 0, PACKET_BODY_OFFSET, n + 1)

Next ==
    \/ \E n \in Sizes : n > 0 /\ append("value", n)
    \/ \E kind \in {"bytes", "string"}, n \in Sizes : append(kind, n)
    \/ \E n \in Sizes : Resize(n)
    \/ Clear
    \/ \E n \in Sizes : ReadValue(n)
    \/ \E n \in Sizes : ReadBytes(n)
    \/ \E n \in Sizes : ReadString(n)
    \/ \E f \in Fields : Field(f)
    \/ \E n \in Sizes : Body(n)

Spec == Init /\ [][Next]_vars

-----------------------------------------------------------------------------
Byte == Nat \X Nat

(* The data fits in the vector; the results are the documented ones. *)
TypeOK ==
    /\ m_data \in Seq(Byte)
    /\ m_length \in 0 .. Len(m_data)
    /\ m_index \in Nat
    /\ proc \in {"running", "assert", "crashed"}
    /\ written \in Seq(Item)
    /\ reads \in 0 .. Len(written)
    /\ instep \in BOOLEAN
    /\ out \in [kind : Kinds \cup {"field", "body"}, n : Nat, r : 0 .. 2, data : Seq(Byte)]

(* Where item k ends. *)
End(k) == written[k].at + Extent(written[k].kind, written[k].n)

(***************************************************************************)
(* What was appended lies in the vector, one thing right behind the other  *)
(* from offset 0 to m_length, and no later append or resize disturbs it.   *)
(***************************************************************************)
StreamSound ==
    /\ \A k \in 1 .. Len(written) :
          /\ written[k].at = IF k = 1 THEN 0 ELSE End(k - 1)
          /\ End(k) <= m_length
          /\ \A o \in 1 .. Extent(written[k].kind, written[k].n) :
                m_data[written[k].at + o] = Bytes(k, written[k].kind, written[k].n)[o]
    /\ m_length = IF written = <<>> THEN 0 ELSE End(Len(written))

(***************************************************************************)
(* A reader that calls read<T>(), read(char*, n) and read(string, n) in    *)
(* the order of the appends, with the size of each, interleaved with them  *)
(* and with calls of the accessors in any way, has its cursor where the    *)
(* next thing begins, and read<T>() fails no assertion.                    *)
(***************************************************************************)
RoundTrip ==
    instep =>
        /\ m_index = IF reads = 0 THEN 0 ELSE End(reads)
        /\ \A n \in Sizes : Matches("value", n) => n <= (m_length - m_index) % SIZE_T

(* Such a reader gets the appended bytes back, of a string the '\0' too. *)
ReadBack ==
    [][reads' > reads =>
          out'.data = Bytes(reads', written[reads'].kind, written[reads'].n)]_vars

(***************************************************************************)
(* Whatever is read was appended: by read(char*, n) from any cursor, also  *)
(* one that clear(), a read of a string or packet(std::string&) left       *)
(* behind the data; by read<T>() from a cursor that is not behind the      *)
(* data; by body(), but for the one byte too many.                         *)
(***************************************************************************)
Appended(n) == \A i \in 1 .. n : out'.data[i] \notin {Wild, Zero}

ReadsAppended ==
    [][out' # out =>
          /\ out'.kind = "bytes" => Appended(Len(out'.data))
          /\ out'.kind = "body" => Appended(out'.n)
          /\ out'.kind = "value" /\ ~NDEBUG /\ m_index <= m_length => Appended(out'.n)]_vars

(***************************************************************************)
(* After is_valid(), which on_tcpreceive calls first, every accessor finds *)
(* its whole field among the appended bytes and fails no assertion.  (On a *)
(* shorter packet id() ... extra() test only where the field begins.)      *)
(***************************************************************************)
AccessorsSafe ==
    [][\A f \in Fields :
          Field(f) /\ is_valid(m_length) =>
              /\ proc' = "running"
              /\ Len(out'.data) = SizeOf(f)
              /\ out'.data = SubSeq(m_data, Offset(f) + 1, Offset(f) + SizeOf(f))
              /\ Appended(SizeOf(f))]_vars

(***************************************************************************)
(* memorystream.h, of read(std::string&, ...): "return 1 when offset out   *)
(* of rang", "return 2 when len out of rang": a read that returns 0 has    *)
(* only bytes that were appended.                                          *)
(***************************************************************************)
StringReadWritten ==
    out.kind = "string" => \A i \in 1 .. Len(out.data) : out.data[i] \notin {Wild, Zero}

=============================================================================
