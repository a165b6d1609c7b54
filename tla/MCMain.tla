--------------------------------- MODULE MCMain ---------------------------------
(***************************************************************************)
(* Instances of Main for TLC: certificates, written down in several ways.  *)
(***************************************************************************)
EXTENDS Main

\* A section is a sequence of words.
Variable == << <<"V">>, <<"1">>, <<"x">> >>
Variables == << <<"V">>, <<"2">>, <<"x">>, <<"y", "1">> >>
NamedIntegral == << <<"V">>, <<"1">>, <<"I">> >>
Integral == << <<"I">>, <<"1">>, <<"0">> >>
NoIntegral == << <<"I">>, <<"0">> >>
Objective == << <<"O">>, <<"m">>, <<"1">>, <<"0">>, <<"1", "/", "2">> >>
Constraints == << <<"C">>, <<"1">>, <<"0">>, <<"c">>, <<"L">>, <<"3">>, <<"O">> >>
Sides == << <<"C">>, <<"2">>, <<"0">>, <<"c">>, <<"E">>, <<"1">>, <<"1">>, <<"0">>, <<"2">>,
            <<"d">>, <<"G">>, <<"0">>, <<"0">> >>
Goal == << <<"R">>, <<"g">>, <<"n">>, <<"1", "2">> >>
Infeasible == << <<"R">>, <<"f">> >>
Solutions == << <<"S">>, <<"1">>, <<"s">>, <<"1">>, <<"0">>, <<"1">> >>
NoSolution == << <<"S">>, <<"0">> >>
Unsplit == << <<"D">>, <<"1">>, <<"d">>, <<"G">>, <<"1">>, <<"0">>,
              <<"{">>, <<"u">>, <<"0">>, <<"0">>, <<"0">>, <<"0">>, <<"}">>, <<"-", "1">> >>
Linear == << <<"D">>, <<"+", "1">>, <<"e">>, <<"L">>, <<"1">>, <<"O">>,
             <<"{">>, <<"l">>, <<"1">>, <<"0">>, <<"-", "1">>, <<"}">>, <<"2">> >>
NoDerivation == << <<"D">>, <<"0">> >>

\* The bytes of items, with a separator between two of them.
Joined(items, separator) ==
  LET text[i \in 0..Len(items)] ==
        CASE i = 0 -> <<>>
          [] i = 1 -> items[1]
          [] OTHER -> text[i - 1] \o separator \o items[i]
  IN  text[Len(items)]

Rendered(sections, between, above) ==
  Joined([i \in DOMAIN sections |-> Joined(sections[i], between)], above)

Blank == <<" ">>
Newline == <<"\n">>

\* A line for each section, which is also how what is no certificate is written.
Plain(sections) == Rendered(sections, Blank, Newline) \o Newline

\* That; words separated by more than one blank, with comments, unknown lines and
\* lines that are empty or blank; a line for each word, and no newline at the end.
Layouts(sections) ==
  { Plain(sections),
    Rendered(sections, <<" ", "\t">>, <<" ", "\n", "%", " ", "V", "\n", "z", "\n", "\n">>)
      \o <<" ", "\n">>,
    Rendered(sections, <<"\n", "\r", "\n">>, Newline) }

\* The words of all sections.
AllWords(sections) == Joined(sections, <<>>)

MCCertificates ==
  { <<Variables, Integral>>, <<NamedIntegral, Infeasible>>,
    <<Variables, NoIntegral, Infeasible>>, <<Goal, NoSolution>>, <<Variable, Objective>>,
    <<Sides, NoSolution, NoDerivation>>, <<Variable, Solutions>>, <<Infeasible>>,
    <<Constraints, Unsplit>>, <<Constraints, Linear>> }

\* Not certificates: a section cut short, at the end or before another one; a word
\* that is none of those expected; SOL twice; more constraints than announced.
Cut(words) == SubSeq(words, 1, Len(words) - 1)

MCOthers ==
  { <<Cut(Variables)>>, <<Cut(Integral), Infeasible>>, <<Cut(Goal)>>, <<Cut(Unsplit)>>,
    << << <<"R">>, <<"x">> >> >>, <<Variable, Solutions, Solutions>>,
    <<Constraints, Constraints, NoDerivation>> }

\* What a text means, with NoCertificate for the others.
AllCases ==
  UNION { { [text |-> t, words |-> AllWords(c)] : t \in Layouts(c) } : c \in MCCertificates }
    \union { [text |-> Plain(c), words |-> NoCertificate] : c \in MCOthers }

MCTexts == { c.text : c \in AllCases }
MCMeaning == [text \in MCTexts |-> (CHOOSE c \in AllCases : c.text = text).words]

\* The reading of a text after 120 steps, which is more than any of these texts takes:
\* ten rounds of twelve, so that TLC evaluates one round before the next.
Round(s) ==
  [r \in {s} |-> LET reading[i \in 0..12] == IF i = 0 THEN r ELSE ReadOn(reading[i - 1])
                 IN  reading[12]][s]

ReadingOf(text) ==
  LET rounds[i \in 0..10] == IF i = 0 THEN Beginning(text) ELSE Round(rounds[i - 1])
  IN  rounds[10]

\* Reading a text, without a buffer, ends with what the text says.
ASSUME MeaningOfTexts ==
  \A text \in MCTexts : /\ Over(ReadingOf(text))
                        /\ Says(ReadingOf(text), MCMeaning[text])

MCPrintedTexts == { Plain(<<Infeasible>>) }

\* A complete certificate behind which there is a blank line, as in forged1.vipr
\* and forged2.vipr.
MCBlankTexts == { Plain(<<Goal, NoSolution>>) \o Newline }
MCBlankMeaning == [text \in MCBlankTexts |-> AllWords(<<Goal, NoSolution>>)]
=============================================================================
