--------------------------- MODULE CertificateReading ---------------------------
(***************************************************************************)
(* The format of a certificate, as the loop of main() in src/main.cpp and  *)
(* its readers take it from a text: what is to be read after each word,    *)
(* and the reading of a text, step by step, without a buffer in which it   *)
(* may be cut into chunks.  Module Main is the program that does it with   *)
(* one.                                                                    *)
(*                                                                         *)
(* The words of the format are one letter each: V I O C R S D for VAR INT  *)
(* OBJ CON RTP SOL DER; m and M for min and max; E L G; f and g for infeas *)
(* and range; p and n for inf and -inf; a l r u s for asm lin rnd uns sol. *)
(***************************************************************************)
EXTENDS Text, FiniteSetsExt

Sections == <<"V", "I", "O", "C", "R", "S", "D">>

\* What the branch of a section gets: items in the order of the calls.
SectionItems ==
  [V |-> <<"variables">>, I |-> <<"integrals">>, O |-> <<"sense", "pairs">>,
   C |-> <<"constraints">>, R |-> <<"goal">>, S |-> <<"solutions">>, D |-> <<"derivations">>]

Constraint == <<"name", "direction", "number", "coefficients">>
Reason == <<"{", "reason", "}">>

\* What follows a count, that many times.
Repeated ==
  [variables |-> <<"variable">>, integrals |-> <<"count">>, pairs |-> <<"count", "number">>,
   constraints |-> Constraint, solutions |-> <<"name", "pairs">>,
   derivations |-> Constraint \o Reason \o <<"long">>, coefficients |-> <<"count", "number">>]

Times(n, items) == [i \in 1..(n * Len(items)) |-> items[((i - 1) % Len(items)) + 1]]

\* What is to be got after item, whose token is word; "error" when main() or a
\* reader refuses the word.
Error == <<"error">>

Choice(item, word) ==
  LET choices == CASE item = "sense"     -> [m |-> <<>>, M |-> <<>>]
                   [] item = "direction" -> [E |-> <<>>, L |-> <<>>, G |-> <<>>]
                   [] item = "goal"      -> [f |-> <<>>, g |-> <<"bound", "bound">>]
                   [] item = "reason"    -> [a |-> <<>>, s |-> <<>>, l |-> <<"pairs">>,
                                             r |-> <<"pairs">>, u |-> Times(4, <<"count">>)]
                   [] OTHER              -> [x \in {item} |-> <<>>]
  IN  IF Len(word) = 1 /\ word[1] \in DOMAIN choices THEN choices[word[1]] ELSE Error

Slashes(word) == Cardinality({i \in DOMAIN word : word[i] = "/"})

After(item, word) ==
  CASE item \in {"variable", "name"} -> <<>>
    [] item = "coefficients" /\ word = <<"O">> -> <<>>
    [] item = "constraints" /\ IsUnsigned(word) ->
         <<"count">> \o Times(Unsigned(word), Repeated[item])
    [] item \in DOMAIN Repeated \ {"constraints"} /\ IsUnsigned(word) ->
         Times(Unsigned(word), Repeated[item])
    [] item = "count" /\ IsUnsigned(word) -> <<>>
    [] item = "long" /\ IsLong(word) -> <<>>
    [] item \in {"number", "bound"} /\ Slashes(word) <= 1 -> <<>>
    [] item \in {"sense", "direction", "goal", "reason", "{", "}"} -> Choice(item, word)
    [] OTHER -> Error

\* emplace_back, as often as the count says.
SizesAfter(counts, item, word) ==
  CASE item = "solutions" ->
         [counts EXCEPT !.solutions = @ + Unsigned(word), !.number_solutions = Unsigned(word)]
    [] item = "constraints" ->
         [counts EXCEPT !.constraints = @ + Unsigned(word), !.number_problem_constraints = Unsigned(word)]
    [] item = "derivations" ->
         [counts EXCEPT !.constraints = @ + Unsigned(word), !.number_derived_constraints = Unsigned(word)]
    [] OTHER -> counts

\* What main() checks at the end of SOL and of DER.
SizesAgree(counts, name) ==
  /\ name = "S" => counts.solutions = counts.number_solutions
  /\ name = "D" => counts.constraints = counts.number_problem_constraints + counts.number_derived_constraints

\* The readers of numbers ask whether there is a token; the others, and main()
\* itself, hand a null pointer to strcmp or strlen.
Checked == {"variables", "integrals", "pairs", "constraints", "solutions", "derivations",
            "count", "number", "bound", "long"}

(***************************************************************************)
(* The reading of a text: what is left of it and of its line, the word     *)
(* that get_token has given or is asked for, and where main() is.          *)
(***************************************************************************)
Beginning(text) ==
  [at |-> "lines", input |-> text, line |-> <<>>, asked |-> FALSE, word |-> <<>>,
   tested |-> 1, pending |-> <<>>, certificate |-> <<>>,
   sizes |-> [solutions |-> 0, number_solutions |-> 0, constraints |-> 0,
              number_problem_constraints |-> 0, number_derived_constraints |-> 0]]

LineTaken(s) == [s EXCEPT !.line = Trimmed(Before(s.input, {"\n"})),
                          !.input = Behind(s.input, {"\n"})]

\* get_token: the next word of the line, or of the next line that has one.
WordGiven(s) == [s EXCEPT !.word = Before(s.line, Separators),
                          !.line = Trimmed(Behind(s.line, Separators)),
                          !.asked = FALSE]

\* There is no word: the reader of a number throws, the others use a null pointer.
WithoutWord(s) ==
  [s EXCEPT !.asked = FALSE,
            !.at = IF s.at = "items" /\ s.pending[1] \in Checked THEN "refused" ELSE "crashed"]

TokenRead(s) == IF s.line # <<>> THEN WordGiven(s)
                ELSE IF s.input # <<>> THEN LineTaken(s)
                ELSE WithoutWord(s)

\* main() takes a line, until there is none.
LineRead(s) == [LineTaken(s) EXCEPT !.at = IF s.input = <<>> THEN "over" ELSE "first",
                                    !.asked = s.input # <<>>]

FirstWordRead(s) == IF s.word = <<"%">> THEN [s EXCEPT !.at = "lines", !.word = <<>>]
                                        ELSE [s EXCEPT !.at = "compare", !.tested = 1]

\* One section for each name, and none for a line that names none.
Named(s) == {i \in s.tested..Len(Sections) : s.word = <<Sections[i]>>}

SectionEntered(s) ==
  IF Named(s) = {}
    THEN [s EXCEPT !.at = "lines", !.word = <<>>]
    ELSE LET i == Min(Named(s))
         IN  [s EXCEPT !.at = "items", !.tested = i + 1, !.pending = SectionItems[Sections[i]],
                       !.certificate = Append(@, <<Sections[i]>>),
                       !.word = <<>>, !.asked = TRUE]

ItemRead(s) ==
  LET next == After(s.pending[1], s.word)
      rest == next \o Tail(s.pending)
  IN  IF next = Error
        THEN [s EXCEPT !.at = "refused", !.word = <<>>]
        ELSE [s EXCEPT !.pending = rest,
                       !.certificate = Append(@, s.word),
                       !.sizes = SizesAfter(@, s.pending[1], s.word),
                       !.word = <<>>, !.asked = rest # <<>>]

SectionOver(s) ==
  [s EXCEPT !.at = IF SizesAgree(s.sizes, Sections[s.tested - 1]) THEN "compare" ELSE "refused"]

\* The step after s; there is none after the end.
ReadOn(s) ==
  IF s.asked THEN TokenRead(s)
  ELSE IF s.at = "lines" THEN LineRead(s)
  ELSE IF s.at = "first" THEN FirstWordRead(s)
  ELSE IF s.at = "compare" THEN SectionEntered(s)
  ELSE IF s.at = "items" THEN (IF s.pending # <<>> THEN ItemRead(s) ELSE SectionOver(s))
  ELSE s

\* The reading of a text after n steps.
Reading(text, n) ==
  LET reading[i \in 0..n] == IF i = 0 THEN Beginning(text) ELSE ReadOn(reading[i - 1])
  IN  reading[n]

(***************************************************************************)
(* How far a reading is from its end.                                      *)
(***************************************************************************)
Over(s) == s.at \in {"over", "refused", "crashed"}

\* What is left of the text, where a byte that is not yet in a line counts twice.
Remaining(s) == 2 * Len(s.input) + Len(s.line)

\* The steps that can follow without more of the text.
StepsLeft(s) == CASE Over(s) -> 0
              [] ~Over(s) /\ s.asked -> 1
              [] ~s.asked /\ s.at = "lines" -> 1
              [] ~s.asked /\ s.at = "compare" -> 2
              [] ~s.asked /\ s.at = "first" -> 3
              [] OTHER -> IF s.pending = <<>> THEN 3 ELSE 4

Weight(s) == 5 * Remaining(s) + StepsLeft(s)

NoCertificate == <<>>

\* What is said about a text is what reading it ends with.
Says(reading, meaning) ==
  /\ reading.at = "over" => meaning = reading.certificate
  /\ reading.at \in {"refused", "crashed"} => meaning = NoCertificate
=============================================================================
