---------------------------- MODULE FileHelper_proofs ----------------------------
(***************************************************************************)
(* That files are complete when they are dispatched (DispatchedComplete),  *)
(* for every length of the output buffer, every length of messages and     *)
(* every number of files, in the specification of Main.                    *)
(***************************************************************************)
EXTENDS Main, SequenceTheorems, TLAPS

Bytes == Nat \X Nat

OutputType ==
  /\ output_buffer \in [1..OUTPUT_BUFFER_LENGTH -> Bytes]
  /\ output_buffer_watermark \in 0..OUTPUT_BUFFER_LENGTH
  /\ flushing \in Seq(Bytes)
  /\ output \in {"closed", "open", "closing", "failed"}
  /\ written \in Seq(Nat) /\ disk \in Seq(Seq(Bytes)) /\ Len(disk) = Len(written)
  /\ dispatched \in Nat

\* What is flushed is what comes next in the file, and what is buffered comes behind it.
CurrentInv ==
  Current > 0 =>
    /\ \A i \in 1..Len(disk[Current]) : disk[Current][i] = <<Current, i>>
    /\ output = "failed" => Len(disk[Current]) <= written[Current]
    /\ output # "failed" =>
         /\ Len(disk[Current]) + Len(flushing) + output_buffer_watermark = written[Current]
         /\ \A i \in 1..Len(flushing) : flushing[i] = <<Current, Len(disk[Current]) + i>>
         /\ \A i \in 1..output_buffer_watermark :
              output_buffer[i] = <<Current, Len(disk[Current]) + Len(flushing) + i>>

\* The files before are as they have been promised.
EarlierInv ==
  \A f \in 1..(Current - 1) :
    /\ Len(disk[f]) = written[f]
    /\ \A i \in 1..Len(disk[f]) : disk[f][i] = <<f, i>>

PhaseInv ==
  /\ output = "closed" => flushing = <<>> /\ output_buffer_watermark = 0 /\ dispatched = Current
  /\ output = "closing" => output_buffer_watermark = 0
  /\ output = "failed" => flushing = <<>>
  /\ output # "closed" => Current > 0 /\ dispatched = Current - 1

OutputInv == OutputType /\ CurrentInv /\ EarlierInv /\ PhaseInv

\* What is in the buffer, as a sequence.
LEMMA BufferedBytes ==
  ASSUME OutputType
  PROVE  /\ Buffered \in Seq(Bytes) /\ Len(Buffered) = output_buffer_watermark
         /\ \A i \in 1..output_buffer_watermark : Buffered[i] = output_buffer[i]
BY FileHelperAssumption DEF OutputType, Buffered, FileHelperAssumption

LEMMA InitOutput == FileHelperInit => OutputInv
<1> SUFFICES ASSUME FileHelperInit PROVE OutputInv
  OBVIOUS
<1> USE DEF FileHelperInit
<1>1. Unset \in Bytes
  BY DEF Unset, Bytes
<1>2. OutputType
  BY <1>1, FileHelperAssumption DEF OutputType, FileHelperAssumption
<1>3. Current = 0
  BY DEF Current
<1> QED
  BY <1>2, <1>3 DEF OutputInv, CurrentInv, EarlierInv, PhaseInv

\* open_output: the file that was current is complete.
LEMMA OpenOutput == OutputInv /\ open_output => OutputInv'
<1> SUFFICES ASSUME OutputInv, open_output PROVE OutputInv'
  OBVIOUS
<1> USE DEF OutputInv, open_output
<1>1. /\ written \in Seq(Nat) /\ disk \in Seq(Seq(Bytes)) /\ Len(disk) = Current /\ Current \in Nat
      /\ flushing = <<>> /\ output_buffer_watermark = 0 /\ dispatched = Current
  BY LenProperties DEF OutputType, PhaseInv, Current
<1>2. /\ written' \in Seq(Nat) /\ Current' = Current + 1
      /\ \A f \in 1..Current : written'[f] = written[f]
      /\ written'[Current + 1] = 0
  BY <1>1, AppendProperties DEF Current
<1>3. /\ disk' \in Seq(Seq(Bytes)) /\ Len(disk') = Current + 1
      /\ \A f \in 1..Current : disk'[f] = disk[f]
      /\ disk'[Current + 1] = <<>>
  <2>1. <<>> \in Seq(Bytes)
    BY EmptySeq
  <2> QED
    BY <1>1, <2>1, AppendProperties
<1>4. OutputType'
  BY <1>1, <1>2, <1>3 DEF OutputType, Current
<1>5. CurrentInv'
  <2>1. Len(disk'[Current']) = 0 /\ written'[Current'] = 0
    BY <1>1, <1>2, <1>3
  <2>2. Len(flushing') = 0 /\ output_buffer_watermark' = 0 /\ output' = "open"
    BY <1>1
  <2> HIDE DEF OutputInv, open_output
  <2> QED
    BY <2>1, <2>2 DEF CurrentInv
<1>6. EarlierInv'
  <2>1. ASSUME NEW f \in 1..Current
        PROVE  Len(disk[f]) = written[f] /\ \A i \in 1..Len(disk[f]) : disk[f][i] = <<f, i>>
    <3>1. CASE f = Current
      <4>1. Current > 0 /\ Len(flushing) = 0 /\ output # "failed" /\ output_buffer_watermark = 0
        BY <1>1, <3>1
      <4>2. Len(disk[f]) \in Nat
        BY <1>1, ElementOfSeq, LenProperties
      <4> QED
        BY <1>1, <3>1, <4>1, <4>2 DEF CurrentInv
    <3>2. CASE f # Current
      <4>1. f \in 1..(Current - 1)
        BY <1>1, <3>2
      <4> QED
        BY <4>1 DEF EarlierInv
    <3> QED
      BY <3>1, <3>2
  <2>2. Current' - 1 = Current
    BY <1>1, <1>2
  <2> HIDE DEF OutputInv, open_output
  <2>3. ASSUME NEW f \in 1..(Current' - 1)
        PROVE  Len(disk'[f]) = written'[f] /\ \A i \in 1..Len(disk'[f]) : disk'[f][i] = <<f, i>>
    <3>1. f \in 1..Current
      BY <2>2
    <3>2. written'[f] = written[f] /\ disk'[f] = disk[f]
      BY <1>2, <1>3, <3>1
    <3> QED
      BY <2>1, <3>1, <3>2
  <2> QED
    BY <2>3 DEF EarlierInv
<1>7. PhaseInv'
  BY <1>1, <1>2 DEF PhaseInv
<1> QED
  BY <1>4, <1>5, <1>6, <1>7

\* What all steps but open_output leave alone.
LEMMA EarlierKept ==
  ASSUME OutputType, OutputType', EarlierInv, Current' = Current,
         \A f \in 1..(Current - 1) : written'[f] = written[f] /\ disk'[f] = disk[f]
  PROVE  EarlierInv'
BY DEF EarlierInv

\* One write(): what it takes moves from the front of flushing to the end of the file.
LEMMA FlushData == OutputInv /\ flush_data => OutputInv'
<1> SUFFICES ASSUME OutputInv, flush_data PROVE OutputInv'
  OBVIOUS
<1> USE DEF OutputInv
<1>1. /\ flushing # <<>> /\ flushing \in Seq(Bytes) /\ disk \in Seq(Seq(Bytes))
      /\ Len(disk) = Current /\ Current \in Nat
      /\ UNCHANGED <<output_buffer, output_buffer_watermark, output, written, dispatched>>
  BY LenProperties DEF OutputType, flush_data, Current
<1>2. Current' = Current /\ output \notin {"closed", "failed"} /\ Current > 0
  BY <1>1 DEF PhaseInv, Current, OutputType
<1>3. PICK n \in 1..Len(flushing) :
        /\ disk' = [disk EXCEPT ![Current] = @ \o SubSeq(flushing, 1, n)]
        /\ flushing' = SubSeq(flushing, n + 1, Len(flushing))
  BY DEF flush_data
<1> DEFINE old == disk[Current]
           taken == SubSeq(flushing, 1, n)
<1>4. old \in Seq(Bytes) /\ Len(old) \in Nat /\ Len(flushing) \in Nat
  BY <1>1, <1>2, ElementOfSeq, LenProperties
<1>5. taken \in Seq(Bytes) /\ Len(taken) = n /\ \A i \in 1..n : taken[i] = flushing[i]
  BY <1>1, <1>3, <1>4, SubSeqProperties
<1>6. /\ flushing' \in Seq(Bytes) /\ Len(flushing') = Len(flushing) - n
      /\ \A i \in 1..(Len(flushing) - n) : flushing'[i] = flushing[n + i]
  BY <1>1, <1>3, <1>4, SubSeqProperties
<1>7. /\ old \o taken \in Seq(Bytes) /\ Len(old \o taken) = Len(old) + n
      /\ \A i \in 1..Len(old) : (old \o taken)[i] = old[i]
      /\ \A i \in 1..n : (old \o taken)[Len(old) + i] = flushing[i]
  BY <1>4, <1>5, ConcatProperties
<1>8. /\ disk' \in Seq(Seq(Bytes)) /\ Len(disk') = Current /\ disk'[Current] = old \o taken
      /\ \A f \in 1..(Current - 1) : disk'[f] = disk[f]
  BY <1>1, <1>2, <1>3, <1>7, ExceptSeq
<1>9. OutputType'
  BY <1>1, <1>6, <1>8 DEF OutputType, Current
<1>10. CurrentInv'
  <2>1. /\ \A i \in 1..Len(old) : old[i] = <<Current, i>>
        /\ Len(old) + Len(flushing) + output_buffer_watermark = written[Current]
        /\ \A i \in 1..Len(flushing) : flushing[i] = <<Current, Len(old) + i>>
        /\ \A i \in 1..output_buffer_watermark :
             output_buffer[i] = <<Current, Len(old) + Len(flushing) + i>>
    BY <1>2 DEF CurrentInv
  <2>2. ASSUME NEW i \in 1..(Len(old) + n) PROVE (old \o taken)[i] = <<Current, i>>
    <3>1. CASE i \in 1..Len(old)
      BY <1>7, <2>1, <3>1
    <3>2. CASE i \notin 1..Len(old)
      <4>1. i - Len(old) \in 1..n /\ Len(old) + (i - Len(old)) = i
        BY <1>3, <1>4, <3>2
      <4>2. i - Len(old) \in 1..Len(flushing)
        BY <1>3, <1>4, <4>1
      <4> QED
        BY <1>7, <2>1, <4>1, <4>2
    <3> QED
      BY <3>1, <3>2
  <2>3. ASSUME NEW i \in 1..(Len(flushing) - n)
        PROVE  flushing'[i] = <<Current, Len(old) + n + i>>
    <3>1. n + i \in 1..Len(flushing) /\ Len(old) + (n + i) = Len(old) + n + i
      <4> HIDE DEF old
      <4> QED
        BY <1>4
    <3> QED
      BY <1>6, <2>1, <3>1
  <2>4. Len(disk'[Current]) = Len(old) + n
    BY <1>7, <1>8
  <2>5. ASSUME NEW i \in 1..output_buffer_watermark
        PROVE  output_buffer[i] = <<Current, (Len(old) + n) + (Len(flushing) - n) + i>>
    <3>1. (Len(old) + n) + (Len(flushing) - n) + i = Len(old) + Len(flushing) + i
      BY <1>3, <1>4
    <3> QED
      BY <2>1, <3>1
  <2>6. (Len(old) + n) + (Len(flushing) - n) + output_buffer_watermark = written[Current]
    BY <1>3, <1>4, <2>1 DEF OutputType
  <2> QED
    BY <1>1, <1>2, <1>6, <1>8, <2>2, <2>3, <2>4, <2>5, <2>6 DEF CurrentInv
<1>11. EarlierInv'
  BY <1>1, <1>2, <1>8, <1>9, EarlierKept
<1>12. PhaseInv'
  BY <1>1, <1>2 DEF PhaseInv
<1> QED
  BY <1>9, <1>10, <1>11, <1>12

\* A failing write() leaves a beginning of the file.
LEMMA FailingWrite == OutputInv /\ WriteFails => OutputInv'
<1> SUFFICES ASSUME OutputInv, WriteFails PROVE OutputInv'
  OBVIOUS
<1>1. /\ flushing # <<>> /\ output' = "failed" /\ flushing' = <<>>
      /\ UNCHANGED <<output_buffer, output_buffer_watermark, written, disk, dispatched>>
  BY DEF WriteFails
<1>2. OutputType /\ CurrentInv /\ EarlierInv /\ PhaseInv
  BY DEF OutputInv
<1>3. Current' = Current /\ Current > 0 /\ output \notin {"closed", "failed"} /\ dispatched = Current - 1
  BY <1>1, <1>2 DEF PhaseInv, Current, OutputType
<1>4. <<>> \in Seq(Bytes)
  BY EmptySeq
<1>5. OutputType'
  BY <1>1, <1>2, <1>4 DEF OutputType
<1>6. CurrentInv'
  <2>1. Len(disk[Current]) \in Nat /\ Len(flushing) \in Nat /\ output_buffer_watermark \in Nat
    <3>1. Current \in 1..Len(disk) /\ disk \in Seq(Seq(Bytes)) /\ flushing \in Seq(Bytes)
      BY <1>2, <1>3, LenProperties DEF OutputType, Current
    <3> QED
      BY <1>2, <3>1, ElementOfSeq, LenProperties DEF OutputType
  <2>2. /\ Len(disk[Current]) + Len(flushing) + output_buffer_watermark = written[Current]
        /\ \A i \in 1..Len(disk[Current]) : disk[Current][i] = <<Current, i>>
    BY <1>2, <1>3 DEF CurrentInv
  <2>3. Len(disk[Current]) <= written[Current]
    BY <2>1, <2>2
  <2> QED
    BY <1>1, <1>3, <2>2, <2>3 DEF CurrentInv
<1>7. EarlierInv'
  BY <1>1, <1>2, <1>3, <1>5, EarlierKept
<1>8. PhaseInv'
  BY <1>1, <1>3 DEF PhaseInv
<1> QED
  BY <1>5, <1>6, <1>7, <1>8 DEF OutputInv

\* close_output: the buffer is what is still to be flushed.
LEMMA CloseOutput == OutputInv /\ close_output => OutputInv'
<1> SUFFICES ASSUME OutputInv, close_output PROVE OutputInv'
  OBVIOUS
<1>1. /\ output = "open" /\ flushing = <<>> /\ flushing' = Buffered
      /\ output_buffer_watermark' = 0 /\ output' = "closing"
      /\ UNCHANGED <<output_buffer, written, disk, dispatched>>
  BY DEF close_output, WatermarkReset
<1>2. OutputType /\ CurrentInv /\ EarlierInv /\ PhaseInv
  BY DEF OutputInv
<1>3. Current' = Current /\ Current > 0 /\ dispatched = Current - 1
  BY <1>1, <1>2 DEF PhaseInv, Current
<1>4. /\ Buffered \in Seq(Bytes) /\ Len(Buffered) = output_buffer_watermark
      /\ \A i \in 1..output_buffer_watermark : Buffered[i] = output_buffer[i]
  BY <1>2, BufferedBytes
<1>5. OutputType'
  BY <1>1, <1>2, <1>4, FileHelperAssumption DEF OutputType, FileHelperAssumption
<1>6. CurrentInv'
  <2>1. Len(disk[Current]) \in Nat /\ output_buffer_watermark \in Nat /\ Len(flushing) = 0
    <3>1. Current \in 1..Len(disk) /\ disk \in Seq(Seq(Bytes))
      BY <1>2, <1>3, LenProperties DEF OutputType, Current
    <3> QED
      BY <1>1, <1>2, <3>1, ElementOfSeq, LenProperties DEF OutputType
  <2>2. /\ Len(disk[Current]) + Len(flushing) + output_buffer_watermark = written[Current]
        /\ \A i \in 1..Len(disk[Current]) : disk[Current][i] = <<Current, i>>
        /\ \A i \in 1..output_buffer_watermark :
             output_buffer[i] = <<Current, Len(disk[Current]) + Len(flushing) + i>>
    BY <1>1, <1>2, <1>3 DEF CurrentInv
  <2>3. Len(disk[Current]) + output_buffer_watermark + 0 = written[Current]
    BY <2>1, <2>2
  <2>4. ASSUME NEW i \in 1..output_buffer_watermark
        PROVE  Buffered[i] = <<Current, Len(disk[Current]) + i>>
    <3>1. Len(disk[Current]) + Len(flushing) + i = Len(disk[Current]) + i
      BY <2>1
    <3> QED
      BY <1>4, <2>2, <3>1
  <2> QED
    BY <1>1, <1>3, <1>4, <2>2, <2>3, <2>4 DEF CurrentInv
<1>7. EarlierInv'
  BY <1>1, <1>2, <1>3, <1>5, EarlierKept
<1>8. PhaseInv'
  BY <1>1, <1>2, <1>3 DEF PhaseInv
<1> QED
  BY <1>5, <1>6, <1>7, <1>8 DEF OutputInv

\* The file is dispatched.
LEMMA DispatchFile == OutputInv /\ dispatch => OutputInv'
<1> SUFFICES ASSUME OutputInv, dispatch PROVE OutputInv'
  OBVIOUS
<1>1. /\ output = "closing" /\ flushing = <<>> /\ output' = "closed" /\ dispatched' = Current
      /\ UNCHANGED <<output_buffer, output_buffer_watermark, flushing, written, disk>>
  BY DEF dispatch
<1>2. OutputType /\ CurrentInv /\ EarlierInv /\ PhaseInv
  BY DEF OutputInv
<1>3. Current' = Current /\ Current \in Nat
  BY <1>1, <1>2, LenProperties DEF OutputType, Current
<1>4. OutputType'
  BY <1>1, <1>2, <1>3 DEF OutputType
<1>5. CurrentInv'
  BY <1>1, <1>2, <1>3 DEF CurrentInv
<1>6. EarlierInv'
  BY <1>1, <1>2, <1>3, <1>4, EarlierKept
<1>7. PhaseInv'
  BY <1>1, <1>2, <1>3 DEF PhaseInv
<1> QED
  BY <1>4, <1>5, <1>6, <1>7 DEF OutputInv

\* The bytes s[1], ..., s[n] are those numbered k + 1, ..., k + n in file f.
Holds(s, n, f, k) == \A i \in 1..n : s[i] = <<f, k + i>>

\* Bytes that are followed by the next ones.
LEMMA JoinedBytes ==
  ASSUME NEW a \in Seq(Bytes), NEW b \in Seq(Bytes), NEW m \in Nat, NEW n \in Nat,
         Len(a) = m, Len(b) = n, NEW f \in Nat, NEW k \in Nat,
         Holds(a, m, f, k), Holds(b, n, f, k + m)
  PROVE  a \o b \in Seq(Bytes) /\ Len(a \o b) = m + n /\ Holds(a \o b, m + n, f, k)
<1>1. /\ a \o b \in Seq(Bytes) /\ Len(a \o b) = Len(a) + Len(b)
      /\ \A i \in 1..(Len(a) + Len(b)) : (a \o b)[i] = IF i <= Len(a) THEN a[i] ELSE b[i - Len(a)]
  BY ConcatProperties
<1>2. ASSUME NEW i \in 1..(m + n) PROVE (a \o b)[i] = <<f, k + i>>
  <2>1. (a \o b)[i] = IF i <= m THEN a[i] ELSE b[i - m]
    BY <1>1
  <2>2. CASE i <= m
    BY <2>1, <2>2 DEF Holds
  <2>3. CASE ~(i <= m)
    <3>1. i - m \in 1..n /\ (k + m) + (i - m) = k + i
      BY <2>3
    <3>2. b[i - m] = <<f, (k + m) + (i - m)>>
      BY <3>1 DEF Holds
    <3> QED
      BY <2>1, <2>3, <3>1, <3>2
  <2> QED
    BY <2>2, <2>3
<1> QED
  BY <1>1, <1>2 DEF Holds

\* The same in a buffer: the message is copied behind what the buffer holds, and
\* memcpy changes what it covers and nothing else.
LEMMA CopiedBehind ==
  ASSUME NEW n \in Nat, NEW buf \in [1..n -> Bytes], NEW at \in Nat, NEW msg \in Seq(Bytes),
         NEW size \in Nat, Len(msg) = size, at + size <= n, NEW f \in Nat, NEW k \in Nat,
         Holds(buf, at, f, k), Holds(msg, size, f, k + at)
  PROVE  /\ Copied(buf, at, msg) \in [1..n -> Bytes]
         /\ Copied(buf, at, msg) \in Seq(Bytes) /\ Len(Copied(buf, at, msg)) = n
         /\ Holds(Copied(buf, at, msg), at + size, f, k)
<1> DEFINE c == Copied(buf, at, msg)
<1>0. \A i \in 1..n : c[i] = IF i \in (at + 1)..(at + size) THEN msg[i - at] ELSE buf[i]
  BY DEF Copied
<1>1. c \in [1..n -> Bytes] /\ c \in Seq(Bytes) /\ Len(c) = n
  <2>1. ASSUME NEW i \in 1..n, i \in (at + 1)..(at + size) PROVE msg[i - at] \in Bytes
    <3>1. i - at \in 1..Len(msg)
      BY <2>1
    <3> QED
      BY <3>1, ElementOfSeq
  <2>2. c \in [1..n -> Bytes]
    BY <2>1 DEF Copied
  <2> QED
    BY <2>2, LenProperties, SeqDef
<1> HIDE DEF c
<1>2. ASSUME NEW i \in 1..(at + size) PROVE c[i] = <<f, k + i>>
  <2>1. CASE i \in 1..at
    BY <1>0, <2>1 DEF Holds
  <2>2. CASE i \notin 1..at
    <3>1. /\ i - at \in 1..size /\ (k + at) + (i - at) = k + i
          /\ i \in 1..n /\ i \in (at + 1)..(at + size)
      BY <2>2
    <3>2. c[i] = msg[i - at] /\ msg[i - at] = <<f, (k + at) + (i - at)>>
      BY <1>0, <3>1 DEF Holds
    <3> QED
      BY <3>1, <3>2
  <2> QED
    BY <2>1, <2>2
<1> QED
  BY <1>1, <1>2 DEF Holds, c

\* A message that is cut where the buffer is full.
LEMMA CutMessage ==
  ASSUME NEW msg \in Seq(Bytes), NEW size \in Nat, Len(msg) = size, NEW r \in Nat, r <= size,
         NEW f \in Nat, NEW k \in Nat, Holds(msg, size, f, k)
  PROVE  /\ SubSeq(msg, 1, r) \in Seq(Bytes) /\ Len(SubSeq(msg, 1, r)) = r
         /\ Holds(SubSeq(msg, 1, r), r, f, k)
         /\ SubSeq(msg, r + 1, size) \in Seq(Bytes) /\ Len(SubSeq(msg, r + 1, size)) = size - r
         /\ Holds(SubSeq(msg, r + 1, size), size - r, f, k + r)
<1>1. \A i \in 1..size : msg[i] \in Bytes
  BY ElementOfSeq
<1>2. /\ SubSeq(msg, 1, r) \in Seq(Bytes) /\ Len(SubSeq(msg, 1, r)) = r
      /\ \A i \in 1..r : SubSeq(msg, 1, r)[i] = msg[i]
  BY <1>1, SubSeqProperties
<1>3. /\ SubSeq(msg, r + 1, size) \in Seq(Bytes) /\ Len(SubSeq(msg, r + 1, size)) = size - r
      /\ \A i \in 1..(size - r) : SubSeq(msg, r + 1, size)[i] = msg[r + i]
  BY <1>1, SubSeqProperties
<1>4. ASSUME NEW i \in 1..(size - r) PROVE SubSeq(msg, r + 1, size)[i] = <<f, (k + r) + i>>
  <2>1. r + i \in 1..size /\ k + (r + i) = (k + r) + i
    OBVIOUS
  <2>2. msg[r + i] = <<f, k + (r + i)>>
    BY <2>1 DEF Holds
  <2> QED
    BY <1>3, <2>1, <2>2
<1>5. Holds(SubSeq(msg, r + 1, size), size - r, f, k + r)
  BY <1>4 DEF Holds
<1>6. Holds(SubSeq(msg, 1, r), r, f, k)
  BY <1>2 DEF Holds
<1> QED
  BY <1>2, <1>3, <1>5, <1>6

\* write_output appends the message to what is buffered or flushed, in each of its
\* three cases.
LEMMA WriteOutput ==
  ASSUME OutputInv, NEW size \in MessageSizes, write_output(size)
  PROVE  OutputInv'
<1> DEFINE old == Len(disk[Current])
           from == written[Current]
           message == [i \in 1..size |-> Byte(from + i)]
           remaining == OUTPUT_BUFFER_LENGTH - output_buffer_watermark
           W == output_buffer_watermark
<1>1. /\ output = "open" /\ flushing = <<>>
      /\ Longer(message, remaining) \/ Fills(message, remaining) \/ Fits(message, remaining)
      /\ written' = [written EXCEPT ![Current] = @ + size]
      /\ UNCHANGED <<output, disk, dispatched>>
  BY DEF write_output
<1>2. OutputType /\ CurrentInv /\ EarlierInv /\ PhaseInv
  BY DEF OutputInv
<1>3. /\ Current \in 1..Len(written) /\ Len(written) \in Nat /\ Current > 0 /\ dispatched = Current - 1
      /\ Len(disk) = Len(written) /\ disk \in Seq(Seq(Bytes)) /\ written \in Seq(Nat)
  BY <1>1, <1>2, LenProperties DEF PhaseInv, Current, OutputType
<1>4. /\ old \in Nat /\ from \in Nat /\ size \in Nat /\ Len(flushing) = 0
      /\ W \in 0..OUTPUT_BUFFER_LENGTH /\ OUTPUT_BUFFER_LENGTH \in Nat \ {0}
  BY <1>1, <1>2, <1>3, ElementOfSeq, LenProperties, FileHelperAssumption
     DEF OutputType, FileHelperAssumption
<1>5. /\ written' \in Seq(Nat) /\ Len(written') = Len(written) /\ Current' = Current
      /\ written'[Current] = from + size
      /\ \A f \in 1..(Current - 1) : written'[f] = written[f]
  <2>1. from + size \in Nat
    BY <1>4
  <2> QED
    BY <1>1, <1>3, <2>1, ExceptSeq DEF Current
<1>6. /\ message \in Seq(Bytes) /\ Len(message) = size
      /\ \A i \in 1..size : message[i] = <<Current, from + i>>
  <2>1. ASSUME NEW i \in 1..size PROVE Byte(from + i) \in Bytes /\ Byte(from + i) = <<Current, from + i>>
    BY <1>3, <1>4 DEF Byte, Bytes
  <2>2. message \in [1..size -> Bytes]
    BY <2>1
  <2> QED
    BY <1>4, <2>1, <2>2, SeqDef, LenProperties
<1>7. /\ old + W = from
      /\ \A i \in 1..old : disk[Current][i] = <<Current, i>>
      /\ \A i \in 1..W : output_buffer[i] = <<Current, old + i>>
  <2>1. /\ old + Len(flushing) + W = from
        /\ \A i \in 1..old : disk[Current][i] = <<Current, i>>
        /\ \A i \in 1..W : output_buffer[i] = <<Current, old + Len(flushing) + i>>
    BY <1>1, <1>2, <1>3 DEF CurrentInv
  <2>2. old + Len(flushing) + W = old + W
    BY <1>4
  <2>3. ASSUME NEW i \in 1..W PROVE old + Len(flushing) + i = old + i
    BY <1>4
  <2> QED
    BY <2>1, <2>2, <2>3
<1> HIDE DEF old, from, message, remaining, W
<1>8. ASSUME NEW F \in Seq(Bytes), NEW B \in [1..OUTPUT_BUFFER_LENGTH -> Bytes],
             NEW w \in 0..OUTPUT_BUFFER_LENGTH, NEW l \in Nat,
             flushing' = F, output_buffer' = B, output_buffer_watermark' = w,
             Len(F) = l, l + w = W + size,
             Holds(F, l, Current, old), Holds(B, w, Current, old + l)
      PROVE  OutputInv'
  <2>1. OutputType'
    BY <1>1, <1>2, <1>3, <1>5, <1>8 DEF OutputType
  <2>2. CurrentInv'
    <3>1. old + l + w = from + size
      BY <1>4, <1>7, <1>8
    <3>2. disk' = disk /\ output' = "open"
      BY <1>1
    <3>3. /\ \A i \in 1..l : F[i] = <<Current, old + i>>
          /\ \A i \in 1..w : B[i] = <<Current, old + l + i>>
      BY <1>8 DEF Holds
    <3> QED
      BY <1>5, <1>7, <1>8, <3>1, <3>2, <3>3 DEF CurrentInv, old
  <2>3. EarlierInv'
    BY <1>1, <1>2, <1>5, <2>1, EarlierKept
  <2>4. PhaseInv'
    BY <1>1, <1>3, <1>5 DEF PhaseInv
  <2> QED
    BY <2>1, <2>2, <2>3, <2>4 DEF OutputInv
<1>9. /\ Holds(message, size, Current, old + W) /\ Holds(output_buffer, W, Current, old)
      /\ Current \in Nat /\ W \in Nat
      /\ output_buffer \in [1..OUTPUT_BUFFER_LENGTH -> Bytes]
  <2>1. output_buffer \in [1..OUTPUT_BUFFER_LENGTH -> Bytes]
    BY <1>2 DEF OutputType
  <2>2. Current \in Nat /\ W \in Nat
    BY <1>3, <1>4
  <2>3. Holds(output_buffer, W, Current, old)
    BY <1>7 DEF Holds
  <2>4. Holds(message, size, Current, old + W)
    BY <1>6, <1>7 DEF Holds
  <2> QED
    BY <2>1, <2>2, <2>3, <2>4
<1>10. CASE Longer(message, remaining)
  <2>1. flushing' = Buffered \o message /\ output_buffer_watermark' = 0 /\ output_buffer' = output_buffer
    BY <1>10 DEF Longer
  <2>2. /\ Buffered \in Seq(Bytes) /\ Len(Buffered) = W
        /\ \A i \in 1..W : Buffered[i] = output_buffer[i]
    BY <1>2, BufferedBytes DEF W
  <2>3. Holds(Buffered, W, Current, old)
    BY <1>9, <2>2 DEF Holds
  <2>4. /\ Buffered \o message \in Seq(Bytes) /\ Len(Buffered \o message) = W + size
        /\ Holds(Buffered \o message, W + size, Current, old)
    BY <1>4, <1>6, <1>9, <2>2, <2>3, JoinedBytes
  <2>5. /\ W + size \in Nat /\ (W + size) + 0 = W + size /\ 0 \in 0..OUTPUT_BUFFER_LENGTH
        /\ Holds(output_buffer, 0, Current, old + (W + size))
    BY <1>4 DEF Holds
  <2> QED
    BY <1>8, <1>9, <2>1, <2>4, <2>5
<1>11. CASE Fits(message, remaining)
  <2> DEFINE B == Copied(output_buffer, W, message)
  <2>1. size <= remaining /\ output_buffer' = B /\ output_buffer_watermark' = W + size /\ flushing' = <<>>
    BY <1>1, <1>6, <1>11 DEF Fits, W
  <2>2. W + size <= OUTPUT_BUFFER_LENGTH /\ W + size \in 0..OUTPUT_BUFFER_LENGTH
    BY <1>4, <2>1 DEF remaining, W
  <2>3. B \in [1..OUTPUT_BUFFER_LENGTH -> Bytes] /\ Holds(B, W + size, Current, old)
    BY <1>4, <1>6, <1>9, <2>2, CopiedBehind
  <2> HIDE DEF B
  <2>4. /\ <<>> \in Seq(Bytes) /\ Len(<<>>) = 0 /\ 0 + (W + size) = W + size
        /\ Holds(<<>>, 0, Current, old) /\ old + 0 = old
    BY <1>4, EmptySeq DEF Holds
  <2> QED
    BY <1>8, <2>1, <2>2, <2>3, <2>4
<1>12. CASE Fills(message, remaining)
  <2> DEFINE head == SubSeq(message, 1, remaining)
             rest == SubSeq(message, remaining + 1, size)
             F == Copied(output_buffer, W, head)
             B == Copied(F, 0, rest)
  <2>1. /\ size > remaining /\ size < OUTPUT_BUFFER_LENGTH
        /\ flushing' = F /\ output_buffer' = B /\ output_buffer_watermark' = size - remaining
    BY <1>6, <1>12 DEF Fills, W
  <2>2. /\ remaining \in Nat /\ W + remaining = OUTPUT_BUFFER_LENGTH /\ remaining <= size
        /\ size - remaining \in 0..OUTPUT_BUFFER_LENGTH /\ size - remaining \in Nat
        /\ (old + W) + remaining = old + OUTPUT_BUFFER_LENGTH /\ old + W \in Nat
        /\ old + OUTPUT_BUFFER_LENGTH \in Nat /\ (old + OUTPUT_BUFFER_LENGTH) + 0 = old + OUTPUT_BUFFER_LENGTH
        /\ W + remaining <= OUTPUT_BUFFER_LENGTH /\ 0 + (size - remaining) <= OUTPUT_BUFFER_LENGTH
        /\ 0 + (size - remaining) = size - remaining
        /\ OUTPUT_BUFFER_LENGTH + (size - remaining) = W + size
    BY <1>4, <2>1 DEF remaining, W
  <2>3. /\ head \in Seq(Bytes) /\ Len(head) = remaining /\ Holds(head, remaining, Current, old + W)
        /\ rest \in Seq(Bytes) /\ Len(rest) = size - remaining
        /\ Holds(rest, size - remaining, Current, (old + W) + remaining)
    <3>1. /\ message \in Seq(Bytes) /\ size \in Nat /\ Len(message) = size /\ remaining \in Nat
          /\ remaining <= size /\ Current \in Nat /\ old + W \in Nat
          /\ Holds(message, size, Current, old + W)
      BY <1>4, <1>6, <1>9, <2>2
    <3> QED
      BY <3>1, CutMessage
  <2> HIDE DEF head, rest
  <2>4. /\ F \in [1..OUTPUT_BUFFER_LENGTH -> Bytes] /\ F \in Seq(Bytes)
        /\ Len(F) = OUTPUT_BUFFER_LENGTH /\ Holds(F, W + remaining, Current, old)
    <3>1. /\ OUTPUT_BUFFER_LENGTH \in Nat /\ output_buffer \in [1..OUTPUT_BUFFER_LENGTH -> Bytes]
          /\ W \in Nat /\ head \in Seq(Bytes) /\ remaining \in Nat /\ Len(head) = remaining
          /\ W + remaining <= OUTPUT_BUFFER_LENGTH /\ Current \in Nat /\ old \in Nat
          /\ Holds(output_buffer, W, Current, old) /\ Holds(head, remaining, Current, old + W)
      BY <1>4, <1>9, <2>2, <2>3
    <3> QED
      BY <3>1, CopiedBehind
  <2> HIDE DEF F
  <2>5. /\ B \in [1..OUTPUT_BUFFER_LENGTH -> Bytes]
        /\ Holds(B, 0 + (size - remaining), Current, old + OUTPUT_BUFFER_LENGTH)
    <3>1. /\ 0 \in Nat /\ Holds(F, 0, Current, old + OUTPUT_BUFFER_LENGTH)
          /\ Holds(rest, size - remaining, Current, (old + OUTPUT_BUFFER_LENGTH) + 0)
      BY <2>2, <2>3 DEF Holds
    <3> QED
      BY <1>4, <1>9, <2>2, <2>3, <2>4, <3>1, CopiedBehind
  <2> HIDE DEF B
  <2>6. Holds(F, OUTPUT_BUFFER_LENGTH, Current, old)
    BY <2>2, <2>4
  <2>7. Holds(B, size - remaining, Current, old + OUTPUT_BUFFER_LENGTH)
    BY <2>2, <2>5
  <2> QED
    BY <1>4, <1>8, <2>1, <2>2, <2>4, <2>5, <2>6, <2>7
<1> QED
  BY <1>1, <1>10, <1>11, <1>12

\* No other step of main() touches the output.
LEMMA OutputKept ==
  ASSUME OutputInv, UNCHANGED outputVars
  PROVE  OutputInv'
BY DEF OutputInv, OutputType, CurrentInv, EarlierInv, PhaseInv, outputVars, Current

LEMMA StepKeepsOutput == OutputInv /\ [Next]_vars => OutputInv'
<1> SUFFICES ASSUME OutputInv, [Next]_vars PROVE OutputInv'
  OBVIOUS
<1>1. CASE Generate
  BY <1>1, OpenOutput, FlushData, FailingWrite, CloseOutput, DispatchFile, WriteOutput
     DEF Generate, FileHelperStep
<1>2. CASE Parse \/ Terminating \/ UNCHANGED vars
  BY <1>2, OutputKept DEF Parse, Terminating, vars
<1>3. CASE MainStep
  <2>1. UNCHANGED outputVars
    BY <1>3 DEF MainStep, NextLine, FirstToken, SectionsOver, Comment, SectionToken, EnterSection,
                NoSection, Item, Refuse, SectionRead, NoToken, Written
  <2> QED
    BY <2>1, OutputKept
<1> QED
  BY <1>1, <1>2, <1>3 DEF Next

\* The invariant says what DispatchedComplete promises, file by file.
LEMMA OutputComplete == OutputInv => DispatchedComplete
<1> SUFFICES ASSUME OutputInv, NEW f \in DOMAIN disk
             PROVE  /\ disk[f] = Promised(f, Len(disk[f])) /\ Len(disk[f]) <= written[f]
                    /\ f <= dispatched => Len(disk[f]) = written[f]
  BY DEF DispatchedComplete
<1>1. OutputType /\ CurrentInv /\ EarlierInv /\ PhaseInv
  BY DEF OutputInv
<1>2. /\ disk \in Seq(Seq(Bytes)) /\ f \in 1..Len(disk) /\ Len(disk) = Current /\ Current \in Nat
      /\ written \in Seq(Nat) /\ f \in 1..Len(written)
  BY <1>1, LenProperties DEF OutputType, Current
<1>3. disk[f] \in Seq(Bytes) /\ Len(disk[f]) \in Nat /\ written[f] \in Nat
  BY <1>2, ElementOfSeq, LenProperties
<1>4. /\ \A i \in 1..Len(disk[f]) : disk[f][i] = <<f, i>>
      /\ Len(disk[f]) <= written[f]
      /\ f <= dispatched => Len(disk[f]) = written[f]
  <2>1. CASE f < Current
    <3>1. f \in 1..(Current - 1)
      BY <1>2, <2>1
    <3> QED
      BY <1>1, <1>3, <3>1 DEF EarlierInv
  <2>2. CASE f = Current
    <3>0. Current > 0
      BY <1>2, <2>2
    <3>1. CASE output = "failed"
      BY <1>1, <1>2, <2>2, <3>0, <3>1 DEF CurrentInv, PhaseInv
    <3>2. CASE output # "failed"
      <4>1. Len(flushing) \in Nat /\ output_buffer_watermark \in Nat
        BY <1>1, LenProperties DEF OutputType
      <4>2. /\ Len(disk[f]) + Len(flushing) + output_buffer_watermark = written[f]
            /\ \A i \in 1..Len(disk[f]) : disk[f][i] = <<f, i>>
        BY <1>1, <2>2, <3>0, <3>2 DEF CurrentInv
      <4>3. Len(disk[f]) <= written[f]
        BY <1>3, <4>1, <4>2
      <4>4. ASSUME f <= dispatched PROVE Len(disk[f]) = written[f]
        <5>1. output = "closed"
          BY <1>1, <1>2, <2>2, <4>4 DEF PhaseInv
        <5>2. Len(flushing) = 0 /\ output_buffer_watermark = 0
          BY <1>1, <5>1 DEF PhaseInv
        <5> QED
          BY <1>3, <4>2, <5>2
      <4> QED
        BY <4>2, <4>3, <4>4
    <3> QED
      BY <3>1, <3>2
  <2> QED
    BY <1>2, <2>1, <2>2
<1>5. disk[f] = [i \in 1..Len(disk[f]) |-> disk[f][i]]
  BY <1>3, LenProperties
<1>6. disk[f] = Promised(f, Len(disk[f]))
  BY <1>4, <1>5 DEF Promised
<1> QED
  BY <1>4, <1>6

\* The output invariant holds in every reachable state of Main.
THEOREM OutputInvariant == Spec => []OutputInv
<1>1. Init => OutputInv
  BY InitOutput DEF Init
<1>2. OutputInv /\ [Next]_vars => OutputInv'
  BY StepKeepsOutput
<1> QED
  BY <1>1, <1>2, PTL DEF Spec

\* A file is complete when it is dispatched, and until then a beginning of what its
\* thread has written (write_output, flush_data and close_output).
THEOREM FilesAreComplete == Spec => []DispatchedComplete
<1> QED
  BY OutputInvariant, OutputComplete, PTL
=============================================================================
