------------------------------- MODULE FileHelper -------------------------------
(***************************************************************************)
(* The output half of struct FileHelper (src/file_helper.h and             *)
(* src/file_helper.cpp), as a thread of the generation uses it: it opens a *)
(* file, writes messages, closes it, dispatches it, and goes on to the     *)
(* next file with the same buffer.                                         *)
(*                                                                         *)
(* A byte is the file it is meant for and its number in that file.  write()*)
(* may take less than it is given, or fail, which ends the program.        *)
(* The helper is thread_local, so that no other thread sees its state; the *)
(* file is seen by all, and by the solver once it has been dispatched.     *)
(***************************************************************************)
EXTENDS Integers, Sequences

CONSTANTS OUTPUT_BUFFER_LENGTH,
          MessageSizes,     \* bound: how long messages are
          MaxWritten,       \* bound: how many bytes a file may get
          MaxOutputs        \* bound: how many files the thread writes

ASSUME FileHelperAssumption ==
  /\ OUTPUT_BUFFER_LENGTH \in Nat \ {0} /\ MessageSizes \subseteq Nat
  /\ MaxWritten \in Nat /\ MaxOutputs \in Nat

VARIABLES output_buffer, output_buffer_watermark,
          flushing,     \* what flush_data still has to write
          output,       \* "closed", "open", "closing", "failed"
          written,      \* how many bytes each file has been given
          disk,         \* what each file holds
          dispatched    \* how many files have been dispatched

outputVars == <<output_buffer, output_buffer_watermark, flushing, output, written, disk, dispatched>>

\* The file that is open, or has been last.
Current == Len(written)

Byte(i) == <<Current, i>>
Unset == <<0, 0>>

FileHelperInit ==
  /\ output_buffer = [i \in 1..OUTPUT_BUFFER_LENGTH |-> Unset]
  /\ output_buffer_watermark = 0
  /\ flushing = <<>>
  /\ output = "closed"
  /\ written = <<>> /\ disk = <<>>
  /\ dispatched = 0

\* O_TRUNC: the file is empty.  The buffer stays as it is.
open_output ==
  /\ output = "closed" /\ Current < MaxOutputs /\ dispatched = Current
  /\ output' = "open"
  /\ written' = Append(written, 0)
  /\ disk' = Append(disk, <<>>)
  /\ UNCHANGED <<output_buffer, output_buffer_watermark, flushing, dispatched>>

\* memcpy(output_buffer + at, message, ...).
Copied(buffer, at, message) ==
  [i \in DOMAIN buffer |-> IF i \in (at + 1)..(at + Len(message)) THEN message[i - at] ELSE buffer[i]]

Buffered == SubSeq(output_buffer, 1, output_buffer_watermark)

\* The three cases of write_output.
Longer(message, remaining) ==
  /\ Len(message) > remaining /\ Len(message) >= OUTPUT_BUFFER_LENGTH
  /\ flushing' = Buffered \o message
  /\ output_buffer_watermark' = 0
  /\ UNCHANGED output_buffer

\* Mutant: what is flushed ends where the buffer was filled before the message.
FillsShort(message, remaining) ==
  /\ Len(message) > remaining /\ Len(message) < OUTPUT_BUFFER_LENGTH
  /\ flushing' = Buffered
  /\ output_buffer' = Copied(output_buffer, 0, SubSeq(message, remaining + 1, Len(message)))
  /\ output_buffer_watermark' = Len(message) - remaining

Fills(message, remaining) ==
  /\ Len(message) > remaining /\ Len(message) < OUTPUT_BUFFER_LENGTH
  /\ LET full == Copied(output_buffer, output_buffer_watermark, SubSeq(message, 1, remaining))
     IN  /\ flushing' = full
         /\ output_buffer' = Copied(full, 0, SubSeq(message, remaining + 1, Len(message)))
         /\ output_buffer_watermark' = Len(message) - remaining

Fits(message, remaining) ==
  /\ Len(message) <= remaining
  /\ output_buffer' = Copied(output_buffer, output_buffer_watermark, message)
  /\ output_buffer_watermark' = output_buffer_watermark + Len(message)
  /\ UNCHANGED flushing

write_output(size) ==
  LET message == [i \in 1..size |-> Byte(written[Current] + i)]
      remaining == OUTPUT_BUFFER_LENGTH - output_buffer_watermark
  IN  /\ output = "open" /\ flushing = <<>>
      /\ written[Current] + size <= MaxWritten
      /\ Longer(message, remaining) \/ Fills(message, remaining) \/ Fits(message, remaining)
      /\ written' = [written EXCEPT ![Current] = @ + size]
      /\ UNCHANGED <<output, disk, dispatched>>

\* One turn of the loop of flush_data.
flush_data ==
  /\ flushing # <<>>
  /\ \E n \in 1..Len(flushing) :
       /\ disk' = [disk EXCEPT ![Current] = @ \o SubSeq(flushing, 1, n)]
       /\ flushing' = SubSeq(flushing, n + 1, Len(flushing))
  /\ UNCHANGED <<output_buffer, output_buffer_watermark, output, written, dispatched>>

WriteFails ==
  /\ flushing # <<>>
  /\ output' = "failed"
  /\ flushing' = <<>>
  /\ UNCHANGED <<output_buffer, output_buffer_watermark, written, disk, dispatched>>

\* Mutant: the watermark is not reset for the next file.
WatermarkKept == output_buffer_watermark

\* close_output leaves the descriptor open, which nobody can see in the file.
WatermarkReset == 0

close_output ==
  /\ output = "open" /\ flushing = <<>>
  /\ flushing' = Buffered
  /\ output_buffer_watermark' = WatermarkReset
  /\ output' = "closing"
  /\ UNCHANGED <<output_buffer, written, disk, dispatched>>

\* The thread goes on to remote_execution_manager.dispatch.
dispatch ==
  /\ output = "closing" /\ flushing = <<>>
  /\ output' = "closed"
  /\ dispatched' = Current
  /\ UNCHANGED <<output_buffer, output_buffer_watermark, flushing, written, disk>>

FileHelperStep == \/ open_output \/ flush_data \/ WriteFails \/ close_output \/ dispatch
                  \/ \E size \in MessageSizes : write_output(size)

Promised(f, n) == [i \in 1..n |-> <<f, i>>]

\* A file that has been dispatched is what its thread has written, and until
\* then it is a beginning of that: no message is lost, doubled or moved, and no
\* byte of the file before it appears in it.
DispatchedComplete ==
  \A f \in DOMAIN disk :
    /\ disk[f] = Promised(f, Len(disk[f])) /\ Len(disk[f]) <= written[f]
    /\ f <= dispatched => Len(disk[f]) = written[f]
=============================================================================
