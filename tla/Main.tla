---------------------------------- MODULE Main ----------------------------------
(***************************************************************************)
(* main() of src/main.cpp: the loop over the sections of a certificate,    *)
(* with read_constraint, read_reason and the other readers, on top of the  *)
(* parser and its allocator; then the writing of SMT files by a thread of  *)
(* the generation (module FileHelper).  What the sections mean is in       *)
(* module Certificate, how blocks are dealt to threads in Generation.      *)
(*                                                                         *)
(* An index that is out of range, which the code does not check, is in no  *)
(* text, and no check is reached of a count that nothing has set.          *)
(***************************************************************************)
EXTENDS Parser, CertificateReading, LinearAllocator, FileHelper

CONSTANTS Meaning,          \* Meaning[text]: the words of the sections of a text, if
                            \* it is a certificate as the format has it
          PrintedTexts      \* bound: after which texts the files are written

ASSUME MeaningAssumption == Texts \subseteq DOMAIN Meaning /\ PrintedTexts \subseteq Texts

VARIABLES pc,            \* where main() is
          section,       \* its variable token: a pointer, and into which allocation
          tested,        \* the next of the names it is compared with
          pending,       \* the items the readers still have to get
          certificate,   \* what has been read, item by item
          allocator,
          misled,        \* a section has been entered because of what token points to now
          sizes          \* of the vectors, and what the sections say they are

mainVars == <<pc, section, tested, pending, certificate, allocator, misled, sizes>>
vars == <<parserVars, outputVars, mainVars>>

\* The strings that are kept of a token: a name, a number, or its two parts.
StringsOf(item, word) ==
  CASE item \in {"variable", "name"} -> <<word>>
    [] item = "number" \/ (item = "bound" /\ word \notin {<<"p">>, <<"n">>}) ->
         IF Slashes(word) = 0 THEN <<word>> ELSE <<Before(word, {"/"}), Behind(word, {"/"})>>
    [] OTHER -> <<>>

Stored(a, texts) ==
  LET allocators[i \in 0..Len(texts)] ==
        IF i = 0 THEN a ELSE get_stable_string(allocators[i - 1], texts[i])
  IN  allocators[Len(texts)]

Word == CString(token)

MainInit ==
  /\ pc = "lines"
  /\ section = [allocation |-> 0, at |-> Null]
  /\ tested = 1
  /\ pending = <<>>
  /\ certificate = <<>>
  /\ allocator = NewAllocator
  /\ misled = FALSE
  /\ sizes = [solutions |-> 0, number_solutions |-> 0, constraints |-> 0,
              number_problem_constraints |-> 0, number_derived_constraints |-> 0]

Init == ParserInit /\ FileHelperInit /\ MainInit

\* main() or a reader calls get_token, or takes its result.
Calls(next) == /\ call' = next
               /\ UNCHANGED <<file, position, buffer, capacity, allocation, next_line, line, token, eof, looking>>

NextLine == /\ pc = "lines" /\ call = "idle"
            /\ get_line("line")
            /\ UNCHANGED <<mainVars, outputVars>>

FirstToken == /\ pc = "lines" /\ call = "got_line"
              /\ pc' = "first"
              /\ Calls("token")
              /\ UNCHANGED <<section, tested, pending, certificate, allocator, misled, sizes, outputVars>>

\* get_line has returned nullptr.
SectionsOver == /\ pc = "lines" /\ call = "no_line"
                /\ pc' = IF file \in PrintedTexts THEN "print" ELSE "read"
                /\ Calls("idle")
                /\ UNCHANGED <<section, tested, pending, certificate, allocator, misled, sizes, outputVars>>

\* A comment is left to the next get_line.
Comment == /\ pc = "first" /\ call = "got_token" /\ Word = <<"%">>
           /\ pc' = "lines"
           /\ Calls("idle")
           /\ UNCHANGED <<section, tested, pending, certificate, allocator, misled, sizes, outputVars>>

Pointer == [allocation |-> allocation, at |-> token]

SectionToken == /\ pc = "first" /\ call = "got_token" /\ Word # <<"%">>
                /\ pc' = "compare"
                /\ section' = Pointer
                /\ tested' = 1
                /\ Calls("idle")
                /\ UNCHANGED <<pending, certificate, allocator, misled, sizes, outputVars>>

\* strcmp(token, s) == 0, where token may be a pointer to what has been there
\* before the buffer was refilled.  Bytes that have been given back are taken not
\* to spell the name of a section.
Names(s) == /\ section.allocation = allocation
            /\ section.at < Len(buffer)
            /\ buffer[section.at] = s /\ buffer[section.at + 1] = NUL

Matching == {i \in tested..Len(Sections) : Names(Sections[i])}

EnterSection == /\ pc = "compare" /\ Matching # {}
                /\ LET i == Min(Matching)
                   IN  /\ pc' = "items"
                       /\ tested' = i + 1
                       /\ pending' = SectionItems[Sections[i]]
                       /\ certificate' = Append(certificate, <<Sections[i]>>)
                /\ misled' = (misled \/ tested > 1)
                /\ Calls("token")
                /\ UNCHANGED <<section, allocator, sizes, outputVars>>

NoSection == /\ pc = "compare" /\ Matching = {}
             /\ pc' = "lines"
             /\ UNCHANGED <<section, tested, pending, certificate, allocator, misled, sizes, parserVars, outputVars>>

\* parse_number cuts a fraction where it is, with strsep().
CutSlash == [buffer EXCEPT ![CutAt(buffer, token, {"/"})] = NUL]

\* A reader has its token: it stores what it says, and knows what to get next.
Item ==
  /\ pc = "items" /\ call = "got_token" /\ pending # <<>>
  /\ LET item == pending[1]
         next == After(item, Word)
     IN  /\ next # Error
         /\ pending' = next \o Tail(pending)
         /\ certificate' = Append(certificate, Word)
         /\ allocator' = Stored(allocator, StringsOf(item, Word))
         /\ sizes' = SizesAfter(sizes, item, Word)
         /\ section' = IF item = "variable" THEN Pointer ELSE section
         /\ buffer' = IF item \in {"number", "bound"} THEN CutSlash ELSE buffer
         /\ call' = IF pending' = <<>> THEN "idle" ELSE "token"
  /\ UNCHANGED <<pc, tested, misled, outputVars, file, position, capacity, allocation, next_line, line,
                 token, eof, looking>>

\* An exception that nothing catches, or EXIT_FAILURE.
Refuse ==
  /\ pc = "items" /\ call = "got_token" /\ pending # <<>>
  /\ After(pending[1], Word) = Error
  /\ pc' = "refused"
  /\ Calls("idle")
  /\ UNCHANGED <<section, tested, pending, certificate, allocator, misled, sizes, outputVars>>

SectionRead ==
  /\ pc = "items" /\ pending = <<>>
  /\ pc' = IF SizesAgree(sizes, Sections[tested - 1]) THEN "compare" ELSE "refused"
  /\ UNCHANGED <<section, tested, pending, certificate, allocator, misled, sizes, parserVars, outputVars>>

\* Mutant: a certificate that ends within a section is taken for complete.
NoTokenComplete ==
  /\ call = "no_token"
  /\ pc' = IF pc = "items" /\ pending[1] \in Checked THEN "read" ELSE "crashed"
  /\ Calls("idle")
  /\ UNCHANGED <<section, tested, pending, certificate, allocator, misled, sizes, outputVars>>

\* A null pointer is noticed by the readers of numbers only.
NoToken ==
  /\ call = "no_token"
  /\ pc' = IF pc = "items" /\ pending[1] \in Checked THEN "refused" ELSE "crashed"
  /\ Calls("idle")
  /\ UNCHANGED <<section, tested, pending, certificate, allocator, misled, sizes, outputVars>>

Parse == ParserStep /\ UNCHANGED <<mainVars, outputVars>>

Generate == pc = "print" /\ FileHelperStep /\ UNCHANGED <<mainVars, parserVars>>

Written == /\ pc = "print"
           /\ dispatched = MaxOutputs \/ output = "failed"
           /\ pc' = "done"
           /\ UNCHANGED <<section, tested, pending, certificate, allocator, misled, sizes, parserVars, outputVars>>

Ended == pc \in {"read", "done", "refused", "crashed"}
Terminating == Ended /\ UNCHANGED vars

MainStep == \/ NextLine \/ FirstToken \/ SectionsOver \/ Comment \/ SectionToken
            \/ EnterSection \/ NoSection \/ Item \/ Refuse \/ SectionRead \/ NoToken \/ Written

Next == MainStep \/ Parse \/ Generate \/ Terminating

Spec == Init /\ [][Next]_vars

\* One thread, which the operating system runs; read() and write() return.
FairSpec == Spec /\ WF_vars(MainStep \/ Parse \/ Generate)

(***************************************************************************)
(* Properties.                                                             *)
(***************************************************************************)
\* A pointer to a string that ends in the buffer.  (line does not while get_line is
\* about to set it: the buffer may have become shorter.)
InBuffer(p) == p = Null \/ \E i \in p..Len(buffer) : buffer[i] = NUL

TypeOK ==
  /\ file \in Texts /\ position \in 0..Len(file)
  /\ Len(buffer) <= capacity /\ allocation \in Nat
  /\ next_line \in Nat /\ InBuffer(next_line)
  /\ line \in Nat /\ (InBuffer(line) \/ (InGetLine /\ looking))
  /\ token \in Nat /\ eof \in BOOLEAN /\ looking \in BOOLEAN
  /\ call \in {"idle", "line", "got_line", "no_line", "token", "token_line", "got_token", "no_token"}
  /\ pc \in {"lines", "first", "compare", "items", "print", "read", "done", "refused", "crashed"}
  /\ tested \in 1..(Len(Sections) + 1) /\ misled \in BOOLEAN
  /\ output_buffer_watermark \in 0..OUTPUT_BUFFER_LENGTH
  /\ output \in {"closed", "open", "closing", "failed"}
  /\ Inside(allocator)

\* However read() cuts the file into chunks, main() gets the lines and tokens of
\* the file, each once, whole and in order, and nullptr at its end and not before.
ReadsTheStream == Stream!Spec

\* Where main() is in the reading of the text.
NoneAhead == Unfinished /\ Ahead = <<>>
AtEnd == call = "no_line" \/ (call = "line" /\ NoneAhead)

ReaderAt ==
  CASE pc \in {"read", "print", "done"} -> "over"
    [] call = "no_token" -> IF pc = "items" /\ pending[1] \in Checked THEN "refused" ELSE "crashed"
    [] pc = "lines" /\ call # "idle" -> IF AtEnd THEN "over" ELSE "first"
    [] OTHER -> pc

ReaderAsked == call \in {"token", "token_line"} \/ (pc = "lines" /\ call # "idle" /\ ~AtEnd)
ReaderWord == IF call = "got_token" \/ (pc = "compare" /\ tested = 1) THEN Word ELSE <<>>

Reader == [at |-> ReaderAt, input |-> StreamInput, line |-> StreamLine, asked |-> ReaderAsked,
           word |-> ReaderWord, tested |-> tested, pending |-> pending,
           certificate |-> certificate, sizes |-> sizes]

\* Nothing but the text decides what main() does with it: wherever read() cuts it,
\* every step is one of its reading or leaves the reading where it is, until a second
\* section is entered for one name.
ReadsOn ==
  /\ Reader = Beginning(file)
  /\ [][misled' \/ Reader' \in {Reader, ReadOn(Reader)}]_vars

\* What main() passes through between two steps of the reading.
Stage == CASE InGetLine /\ ~NoneAhead -> 6
           [] call = "got_line" -> 5
           [] call = "token" -> 4
           [] InGetLine /\ NoneAhead -> 3
           [] call \in {"no_line", "no_token"} -> 2
           [] pc = "print" /\ call = "idle" -> 1
           [] OTHER -> 0

\* The turns that the loops of get_line and get_token can take: there are bytes to be
\* read, and the end of the file to be noticed; there are bytes in the line.
Turns == IF InGetLine
           THEN 2 * (Len(file) - position) + (IF eof THEN 0 ELSE 2) + (IF looking THEN 1 ELSE 0)
           ELSE IF call = "token" /\ line # Null THEN Len(buffer) - line + 1 ELSE 0

\* No loop of main(), its readers and the parser goes on for ever, wherever read() cuts
\* the text, whatever the counts in it, and even if a dangling pointer is compared: a step
\* takes the reading on or, if it does not, the way to its next step, or the loop of
\* get_line or get_token on that way.  (The files written in the end are another matter.)
MainGoesOn ==
  [][ \/ Generate
      \/ \E before \in {Reader}, after \in {Reader'} :
           \/ Weight(after) < Weight(before)
           \/ Weight(after) = Weight(before) /\ Stage' < Stage
           \/ Weight(after) = Weight(before) /\ Stage' = Stage /\ Turns' < Turns ]_vars

\* A text that is a certificate is read as the format has it, wherever read() cuts
\* it: nothing is left out or read into another section.  A text that is none is
\* not taken for one.  The exception is a second section entered for one name,
\* which has been its variable's name, or bytes of a later chunk.
ReadsTheCertificate ==
  \/ misled
  \/ /\ pc \in {"read", "print", "done"} => certificate = Meaning[file]
     /\ pc \in {"refused", "crashed"} => Meaning[file] = NoCertificate

\* "Allocates all permanent strings in a linear buffer" (src/parser.h): what is
\* kept stays as it is, except that the first string of a buffer that is not the
\* first buffer may be overwritten by those behind it.
StringsApart == Apart(allocator)

\* main() ends, and so does each thread of the generation.
MainEnds == <>Ended

\* "If the end of file is reached, there is no token" (src/parser.h): main() and
\* the readers survive it.
EndOfFileSurvived == pc # "crashed"
=============================================================================
