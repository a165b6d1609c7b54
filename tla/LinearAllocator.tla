---------------------------- MODULE LinearAllocator ----------------------------
(***************************************************************************)
(* class LinearAllocator of src/LinearAllocator.hpp, and get_stable_string *)
(* of src/parser.h, which keeps a copy of a token in it.  An allocator is  *)
(* a record: current_buffer counts the buffers, from 1, and strings is     *)
(* what has been placed where, in order.                                   *)
(***************************************************************************)
EXTENDS Integers, Sequences

CONSTANT ALLOCATOR_SIZE     \* BUFFER_SIZE of the allocator

ASSUME AllocatorAssumption == ALLOCATOR_SIZE \in Nat \ {0}

NewAllocator == [current_buffer |-> 1, current_buffer_watermark |-> 0, strings |-> <<>>]

\* Where allocate(quantity) places what it returns, and what it leaves behind.
FillsBuffer(a, quantity) == a.current_buffer_watermark + quantity >= ALLOCATOR_SIZE

Place(a, quantity) ==
  IF FillsBuffer(a, quantity)
    THEN [buffer |-> a.current_buffer + 1, offset |-> 0]
    ELSE [buffer |-> a.current_buffer, offset |-> a.current_buffer_watermark]

allocate(a, quantity, text) ==
  [current_buffer |-> Place(a, quantity).buffer,
   current_buffer_watermark |->
     IF FillsBuffer(a, quantity) THEN 0 ELSE a.current_buffer_watermark + quantity,
   strings |-> Append(a.strings, [at |-> Place(a, quantity), text |-> text])]

\* Mutant: no byte for the NUL.
get_stable_string_short(a, text) == allocate(a, Len(text), text)

get_stable_string(a, text) == allocate(a, Len(text) + 1, text)

\* The bytes string i covers, its NUL included.
Begins(a, i) == a.strings[i].at.offset
Ends(a, i) == Begins(a, i) + Len(a.strings[i].text)

Overlap(a, i, j) ==
  /\ a.strings[i].at.buffer = a.strings[j].at.buffer
  /\ Begins(a, i) <= Ends(a, j) /\ Begins(a, j) <= Ends(a, i)

\* String i has been the first in its buffer, which is not the first buffer.
StartsBuffer(a, i) ==
  /\ a.strings[i].at.buffer > 1
  /\ \A k \in 1..(i - 1) : a.strings[k].at.buffer # a.strings[i].at.buffer

Apart(a) ==
  \A i, j \in DOMAIN a.strings : i < j /\ Overlap(a, i, j) => StartsBuffer(a, i)

\* No string reaches over the end of its buffer.
Inside(a) == \A i \in DOMAIN a.strings : Ends(a, i) < ALLOCATOR_SIZE
=============================================================================
