------------------------------- MODULE Buffer -------------------------------
(***************************************************************************)
(* Buffer (include/eventpp/buffer.hpp, src/buffer.cpp).  A buffer is a     *)
(* record of its fields; buffer_ is the allocated memory, a function from  *)
(* 0..capacity_-1, with Junk in the cells nothing has been written to.     *)
(* The methods are operators on the record; an action is one call by a     *)
(* caller that keeps to the asserts stated on arguments.  The asserts in   *)
(* the middle of the code, and the bounds of every copy, are collected in  *)
(* `asserts'.                                                              *)
(***************************************************************************)
EXTENDS Naturals, Sequences

CONSTANTS Buffers,              \* the Buffer objects
          Bytes, Junk,          \* the bytes, and what uninitialised memory holds
          kCheapPrependSize,
          ExtraSize,            \* sizeof extrabuf in ReadFromFD
          Sizes,                \* arguments of the constructor, Reserve, Shrink and Skip
          Texts,                \* what is written
          MaxCapacity,          \* bound: no call that would allocate more is made
          UnreadAfterReset      \* whether callers call UnreadBytes after a read that emptied the buffer

ASSUME BufferAssumption ==
  /\ Junk \notin Bytes
  /\ kCheapPrependSize \in Nat /\ ExtraSize \in Nat /\ Sizes \subseteq Nat /\ MaxCapacity \in Nat
  /\ Texts \subseteq Seq(Bytes)
  /\ UnreadAfterReset \in BOOLEAN

VARIABLES buf,       \* the fields of each buffer
          taken,     \* history: what the last call read from each buffer, if it was a read
          asserts    \* every assert and every bound of a copy has held
bufferVars == <<buf, taken, asserts>>

-----------------------------------------------------------------------------
(* The methods.                                                            *)

length(x) == x.write_index_ - x.read_index_
WritableBytes(x) == x.capacity_ - x.write_index_
PrependableBytes(x) == x.read_index_

\* The unread bytes: what data() points to.
Content(x) == [i \in 1..length(x) |-> x.buffer_[x.read_index_ + i - 1]]

\* memcpy and memmove of s to position at; `Fits' is their bound.
memcpy(mem, at, s) ==
  [i \in DOMAIN mem |-> IF at <= i /\ i < at + Len(s) THEN s[i - at + 1] ELSE mem[i]]
Fits(x, at, s) == at + Len(s) <= x.capacity_

\* The fields of a buffer, and x with other indices.
Fields(mem, capacity, read, write, reserved) ==
  [buffer_ |-> mem, capacity_ |-> capacity, read_index_ |-> read, write_index_ |-> write,
   reserved_prepend_size_ |-> reserved]
Moved(x, read, write) == Fields(x.buffer_, x.capacity_, read, write, x.reserved_prepend_size_)

Allocated(n) == [i \in 0..(n - 1) |-> Junk]

New(initial_size, reserved) ==
  Fields(Allocated(reserved + initial_size), reserved + initial_size, reserved, reserved, reserved)

\* Mutant: the room kept for Prepend is not asked for.
AllocatesWithoutReserve(x, len) == WritableBytes(x) + PrependableBytes(x) < len

Allocates(x, len) == WritableBytes(x) + PrependableBytes(x) < len + x.reserved_prepend_size_

grow(x, len) ==
  LET r == x.reserved_prepend_size_
      n == 2 * x.capacity_ + len
  IN  IF Allocates(x, len)
      THEN Fields(memcpy(Allocated(n), r, Content(x)), n, r, r + length(x), r)
      ELSE Fields(memcpy(x.buffer_, r, Content(x)), x.capacity_, r, r + length(x), r)

GrowAsserts(x, len) ==
  /\ Allocates(x, len) \/ x.reserved_prepend_size_ < x.read_index_
  /\ Fits(grow(x, len), x.reserved_prepend_size_, Content(x))
  /\ WritableBytes(grow(x, len)) >= len

EnsureWritableBytes(x, len) == IF WritableBytes(x) < len THEN grow(x, len) ELSE x
EnsureAsserts(x, len) == WritableBytes(x) < len => GrowAsserts(x, len)

\* memcpy(WriteBegin(), d, len); write_index_ += len
Put(x, s) ==
  Fields(memcpy(x.buffer_, x.write_index_, s), x.capacity_, x.read_index_, x.write_index_ + Len(s),
         x.reserved_prepend_size_)

Write(x, s) == Put(EnsureWritableBytes(x, Len(s)), s)
WriteAsserts(x, s) ==
  EnsureAsserts(x, Len(s)) /\ Fits(EnsureWritableBytes(x, Len(s)), EnsureWritableBytes(x, Len(s)).write_index_, s)

Prepend(x, s) ==
  Fields(memcpy(x.buffer_, x.read_index_ - Len(s), s), x.capacity_, x.read_index_ - Len(s), x.write_index_,
         x.reserved_prepend_size_)

UnwriteBytes(x, n) == Moved(x, x.read_index_, x.write_index_ - n)

Reset(x) == Moved(x, x.reserved_prepend_size_, x.reserved_prepend_size_)

\* Mutant: Truncate also lengthens.
TruncateAlways(x, n) == IF n = 0 THEN Reset(x) ELSE Moved(x, x.read_index_, x.read_index_ + n)

Truncate(x, n) ==
  IF n = 0 THEN Reset(x)
  ELSE IF x.write_index_ > x.read_index_ + n THEN Moved(x, x.read_index_, x.read_index_ + n) ELSE x

\* Skip, Retrieve, Next and the ReadInts: reading everything resets.
Skip(x, len) == IF len < length(x) THEN Moved(x, x.read_index_ + len, x.write_index_) ELSE Reset(x)

Reserve(x, len) ==
  IF x.capacity_ >= len + x.reserved_prepend_size_ THEN x ELSE grow(x, len + x.reserved_prepend_size_)

Shrink(x, reserve) == Write(New(length(x) + reserve, kCheapPrependSize), Content(x))

\* ReadFromFD with the n bytes s: first the buffer, then extrabuf, which is appended.
Readable(x) == IF WritableBytes(x) < ExtraSize THEN WritableBytes(x) + ExtraSize ELSE WritableBytes(x)
\* Mutant: write_index_ is not set to capacity_ before the rest is appended.
ReadFromFDNoAdvance(x, s) ==
  IF Len(s) <= WritableBytes(x) THEN Put(x, s)
  ELSE Write(Moved(Put(x, SubSeq(s, 1, WritableBytes(x))), x.read_index_, x.write_index_),
             SubSeq(s, WritableBytes(x) + 1, Len(s)))
ReadFromFD(x, s) ==
  IF Len(s) <= WritableBytes(x) THEN Put(x, s)
  ELSE Write(Put(x, SubSeq(s, 1, WritableBytes(x))), SubSeq(s, WritableBytes(x) + 1, Len(s)))
ReadAsserts(x, s) ==
  Len(s) > WritableBytes(x)
    => WriteAsserts(Put(x, SubSeq(s, 1, WritableBytes(x))), SubSeq(s, WritableBytes(x) + 1, Len(s)))

-----------------------------------------------------------------------------
(* The calls.                                                              *)

\* Buffer b becomes x; the call is no read.
Becomes(b, x) ==
  /\ x.capacity_ <= MaxCapacity
  /\ buf' = [buf EXCEPT ![b] = x]
  /\ taken' = [taken EXCEPT ![b] = <<>>]

BufferInit ==
  /\ buf \in [Buffers -> {New(i, r) : i \in Sizes, r \in Sizes}]
  /\ \A b \in Buffers : buf[b].capacity_ <= MaxCapacity
  /\ taken = [b \in Buffers |-> <<>>]
  /\ asserts = TRUE

DoWrite(b, s) == Becomes(b, Write(buf[b], s)) /\ asserts' = (asserts /\ WriteAsserts(buf[b], s))

DoReadFromFD(b, s) ==
  /\ Len(s) <= Readable(buf[b])
  /\ Becomes(b, ReadFromFD(buf[b], s))
  /\ asserts' = (asserts /\ ReadAsserts(buf[b], s))

\* The caller has filled the memory at WriteBegin() and calls WriteBytes.
DoWriteBytes(b, s) ==
  Len(s) <= WritableBytes(buf[b]) /\ Becomes(b, Put(buf[b], s)) /\ UNCHANGED asserts

DoPrepend(b, s) ==
  Len(s) <= PrependableBytes(buf[b]) /\ Becomes(b, Prepend(buf[b], s)) /\ UNCHANGED asserts

DoUnwriteBytes(b, n) ==
  n <= length(buf[b]) /\ Becomes(b, UnwriteBytes(buf[b], n)) /\ UNCHANGED asserts

DoTruncate(b, n) == Becomes(b, Truncate(buf[b], n)) /\ UNCHANGED asserts

DoReserve(b, n) ==
  /\ Becomes(b, Reserve(buf[b], n))
  /\ asserts' = (asserts /\ (buf[b].capacity_ < n + buf[b].reserved_prepend_size_
                               => GrowAsserts(buf[b], n + buf[b].reserved_prepend_size_)))

DoShrink(b, n) ==
  /\ Becomes(b, Shrink(buf[b], n))
  /\ asserts' = (asserts /\ WriteAsserts(New(length(buf[b]) + n, kCheapPrependSize), Content(buf[b])))

\* ToText: a byte is appended and taken back.
DoToText(b) ==
  \E z \in Bytes :
    /\ Becomes(b, UnwriteBytes(Write(buf[b], <<z>>), 1))
    /\ asserts' = (asserts /\ WriteAsserts(buf[b], <<z>>))

\* Skip, Next, NextAll (n >= length) and the ReadInts return the bytes they pass.
DoNext(b, n) ==
  /\ buf' = [buf EXCEPT ![b] = Skip(@, n)]
  /\ taken' = [taken EXCEPT ![b] = SubSeq(Content(buf[b]), 1, IF n < length(buf[b]) THEN n ELSE length(buf[b]))]
  /\ UNCHANGED asserts

\* ReadByte does not reset.
DoReadByte(b) ==
  /\ length(buf[b]) >= 1
  /\ buf' = [buf EXCEPT ![b] = Moved(@, @.read_index_ + 1, @.write_index_)]
  /\ taken' = [taken EXCEPT ![b] = SubSeq(Content(buf[b]), 1, 1)]
  /\ UNCHANGED asserts

\* A read that emptied the buffer has also moved the reading index back.
WasReset(x) == x.read_index_ = x.reserved_prepend_size_ /\ length(x) = 0

DoUnreadBytes(b, n) ==
  /\ n <= Len(taken[b]) /\ n < buf[b].read_index_
  /\ ~UnreadAfterReset => ~WasReset(buf[b])
  /\ Becomes(b, Moved(buf[b], buf[b].read_index_ - n, buf[b].write_index_))
  /\ UNCHANGED asserts

DoSwap(b, c) ==
  /\ buf' = [buf EXCEPT ![b] = buf[c], ![c] = buf[b]]
  /\ taken' = [taken EXCEPT ![b] = <<>>, ![c] = <<>>]
  /\ UNCHANGED asserts

BufferNext ==
  \/ \E b \in Buffers, s \in Texts :
       DoWrite(b, s) \/ DoReadFromFD(b, s) \/ DoWriteBytes(b, s) \/ DoPrepend(b, s)
  \/ \E b \in Buffers, n \in Sizes :
       DoUnwriteBytes(b, n) \/ DoTruncate(b, n) \/ DoReserve(b, n) \/ DoShrink(b, n) \/ DoNext(b, n) \/ DoUnreadBytes(b, n)
  \/ \E b \in Buffers : DoToText(b) \/ DoReadByte(b)
  \/ \E b, c \in Buffers : DoSwap(b, c)

BufferSpec == BufferInit /\ [][BufferNext]_bufferVars

-----------------------------------------------------------------------------
(* What is checked.                                                        *)

\* What every method relies on: the indices are ordered and inside the allocated memory, there is
\* room for the prepend reserve, and no unread byte is uninitialised memory.
Valid(x) ==
  /\ x.capacity_ \in Nat /\ x.read_index_ \in Nat /\ x.write_index_ \in Nat
  /\ x.reserved_prepend_size_ \in Nat
  /\ x.reserved_prepend_size_ <= x.capacity_
  /\ x.read_index_ <= x.write_index_ /\ x.write_index_ <= x.capacity_
  /\ DOMAIN x.buffer_ = 0..(x.capacity_ - 1)
  /\ \A i \in 0..(x.capacity_ - 1) : x.read_index_ <= i /\ i < x.write_index_ => x.buffer_[i] \in Bytes

\* After any sequence of calls every buffer's fields are consistent (the asserts of length() and
\* WritableBytes(), and the constructor's).  Unless UnreadAfterReset, the calls are those of a user
\* that takes nothing back after a read that emptied the buffer.
FieldsConsistent == \A b \in Buffers : Valid(buf[b])

\* grow, EnsureWritableBytes and Write keep their asserts, in particular that the data is only
\* moved to the front when it is not there already, and no copy leaves the allocated memory.
AssertsHold == asserts

Queue == INSTANCE ByteQueue WITH queue <- [b \in Buffers |-> Content(buf[b])]

\* A Buffer is a queue of bytes: growing, moving the data, reading past the end of the memory
\* through extrabuf, Shrink and Swap lose, repeat or change no byte, and UnreadBytes gives back
\* what the last read returned, unless that read emptied the buffer (UnreadAfterReset allows the call).
\* Swap takes two buffers.
ImplementsByteQueue == Queue!Spec
=============================================================================
