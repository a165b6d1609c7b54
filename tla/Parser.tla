--------------------------------- MODULE Parser ---------------------------------
(***************************************************************************)
(* class Parser of src/parser.h and src/parser.cpp: get_line and get_token *)
(* on a buffer that is refilled by read() and cut in place by strsep().    *)
(*                                                                         *)
(* A pointer is an index into buffer, or Null.  read() may return less     *)
(* than is asked for.  When the vector grows beyond its capacity its bytes *)
(* move to another allocation, and what pointed into the old one dangles.  *)
(* line_number, which only the error messages use, is left out, and so is  *)
(* a read() that fails.                                                    *)
(***************************************************************************)
EXTENDS Text

CONSTANTS Texts,          \* what the file may hold
          BUFFER_SIZE,
          ReadSizes       \* bound: how much read() may return if not all it can

ASSUME ParserAssumption == BUFFER_SIZE \in Nat \ {0} /\ Texts \subseteq Seq(STRING)

VARIABLES file, position,           \* the bytes, and how many have been read
          buffer,                   \* the vector, of length size()
          capacity, allocation,     \* its capacity, and how often it has moved
          next_line, line, token,   \* the members of the same names
          eof,
          call,                     \* what is being called, or has just returned
          looking                   \* get_line is about to look for a newline

parserVars == <<file, position, buffer, capacity, allocation, next_line, line, token, eof,
                call, looking>>

Null == 0

Min2(a, b) == IF a <= b THEN a ELSE b
Max2(a, b) == IF a >= b THEN a ELSE b

\* The first byte at or after p that is one of a set or ends the string.
CutAt(bytes, p, delimiters) ==
  CHOOSE i \in p..Len(bytes) :
    /\ bytes[i] \in delimiters \union {NUL}
    /\ \A j \in p..(i - 1) : bytes[j] \notin delimiters \union {NUL}

CString(p) == IF p = Null THEN <<>> ELSE SubSeq(buffer, p, CutAt(buffer, p, {}) - 1)

\* strsep() ends a string at end, and this is where it goes on.
RestAt(end) == IF buffer[end] = NUL THEN Null ELSE end + 1

Unread == SubSeq(file, position + 1, Len(file))

\* Parser::Parser.
ParserInit ==
  /\ file \in Texts
  /\ position = 0
  /\ buffer = [i \in 1..(BUFFER_SIZE + 1) |-> NUL]
  /\ capacity = BUFFER_SIZE + 1 /\ allocation = 1
  /\ next_line = 1 /\ line = Null /\ token = Null
  /\ eof = FALSE
  /\ call = "idle"
  /\ looking = FALSE

\* get_line is called, by main() ("line") or by get_token ("token_line").
get_line(caller) ==
  /\ call' = caller
  /\ looking' = TRUE
  /\ UNCHANGED <<file, position, buffer, capacity, allocation, next_line, line, token, eof>>

InGetLine == call \in {"line", "token_line"}

\* line = strsep(&next_line, "\n").
CutLine ==
  /\ InGetLine /\ looking
  /\ \/ /\ next_line = Null
        /\ line' = Null
        /\ UNCHANGED <<buffer, next_line>>
     \/ /\ next_line # Null
        /\ LET end == CutAt(buffer, next_line, {"\n"})
           IN  /\ next_line' = RestAt(end)
               /\ buffer' = [buffer EXCEPT ![end] = NUL]
        /\ line' = next_line
  /\ looking' = FALSE
  /\ UNCHANGED <<file, position, capacity, allocation, token, eof, call>>

\* Mutant: the vector does not grow.
GrownNever(size) == capacity

\* buffer.resize(size): a vector that has to grow at least doubles.
Grown(size) == IF size <= capacity THEN capacity
                                   ELSE Len(buffer) + Max2(Len(buffer), size - Len(buffer))

\* How many bytes read(fd, chunk, BUFFER_SIZE) may return.
BytesRead ==
  LET most == Min2(BUFFER_SIZE, Len(Unread))
  IN  {n \in 1..most : n \in ReadSizes} \union {most}

\* Mutants: the unfinished line is not moved to the front; a read() of nothing is
\* not taken for the end of the file.
KeptGarbled(rest) == SubSeq(buffer, 1, Len(rest))
EndReachedOnError(n) == n < 0

\* What is at the front of the buffer after the memmove.
Kept(rest) == rest

EndReached(n) == n <= 0

\* The first bytes of a buffer of that size, with what has been there before, or
\* what resize() adds, behind them.
Fitted(bytes, size) ==
  bytes \o SubSeq(buffer, Len(bytes) + 1, Min2(size, Len(buffer)))
        \o [i \in 1..Max2(0, size - Max2(Len(bytes), Len(buffer))) |-> NUL]

\* The loop of get_line: keep the unfinished line and read a chunk behind it.
Refill ==
  /\ InGetLine /\ ~looking
  /\ next_line = Null /\ ~eof
  /\ \E n \in BytesRead :
       LET size == Len(CString(line)) + BUFFER_SIZE + 1
       IN  /\ buffer' = Fitted(Kept(CString(line)) \o SubSeq(file, position + 1, position + n)
                                 \o <<NUL>>, size)
           /\ position' = position + n
           /\ eof' = EndReached(n)
           /\ capacity' = Grown(size)
           /\ allocation' = IF Grown(size) = capacity THEN allocation ELSE allocation + 1
  /\ next_line' = 1
  /\ looking' = TRUE
  /\ UNCHANGED <<file, line, token, call>>

\* Mutant: a last line without a newline is lost.
LeaveGetLineTerminated ==
  /\ InGetLine /\ ~looking
  /\ next_line # Null \/ eof
  /\ LET found == next_line # Null
     IN  \/ /\ call = "line"
            /\ call' = IF found THEN "got_line" ELSE "no_line"
            /\ UNCHANGED line
         \/ /\ call = "token_line"
            /\ call' = IF found THEN "token" ELSE "no_token"
            /\ line' = IF found THEN line ELSE Null
  /\ UNCHANGED <<file, position, buffer, capacity, allocation, next_line, token, eof, looking>>

\* get_line returns; at the end of the file what is left is a line if not empty.
LeaveGetLine ==
  /\ InGetLine /\ ~looking
  /\ next_line # Null \/ eof
  /\ LET found == next_line # Null \/ CString(line) # <<>>
     IN  \/ /\ call = "line"
            /\ call' = IF found THEN "got_line" ELSE "no_line"
            /\ UNCHANGED line
         \/ /\ call = "token_line"
            /\ call' = IF found THEN "token" ELSE "no_token"
            /\ line' = IF found THEN line ELSE Null
  /\ UNCHANGED <<file, position, buffer, capacity, allocation, next_line, token, eof, looking>>

\* get_token without a line, at its beginning or after the last piece of one.
NeedLine == call = "token" /\ line = Null /\ get_line("token_line")

\* One iteration of the loop of get_token.
NextPiece ==
  /\ call = "token" /\ line # Null
  /\ LET end == CutAt(buffer, line, Separators)
         start == CHOOSE i \in line..end :
                    /\ i = end \/ buffer[i] \notin Space
                    /\ \A j \in line..(i - 1) : buffer[j] \in Space
     IN  /\ buffer' = [buffer EXCEPT ![end] = NUL]
         /\ line' = RestAt(end)
         /\ token' = start
         /\ call' = IF start = end THEN "token" ELSE "got_token"
  /\ UNCHANGED <<file, position, capacity, allocation, next_line, eof, looking>>

ParserStep == CutLine \/ Refill \/ LeaveGetLine \/ NeedLine \/ NextPiece

(***************************************************************************)
(* The stream of tokens this implements: what has been cut off and not yet *)
(* given, what is in the buffer behind it, and what has not been read.     *)
(***************************************************************************)
Unfinished == InGetLine /\ (looking \/ next_line = Null)

Ahead == CString(IF Unfinished /\ ~looking THEN line ELSE next_line) \o Unread

StreamInput == IF Unfinished THEN Behind(Ahead, {"\n"}) ELSE Ahead
StreamLine == Trimmed(IF Unfinished THEN Before(Ahead, {"\n"}) ELSE CString(line))
StreamToken == IF call = "got_token" THEN CString(token) ELSE <<>>

Stream == INSTANCE TokenStream WITH
            input <- StreamInput, line <- StreamLine, token <- StreamToken,
            asked <- call \in {"token", "token_line"}
=============================================================================
