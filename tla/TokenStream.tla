------------------------------ MODULE TokenStream ------------------------------
(***************************************************************************)
(* What the parser of src/parser.h promises, without a buffer: a file is a *)
(* text that is used up from its beginning.  get_line takes a line off it, *)
(* whatever is left of the one before; get_token takes a word off the      *)
(* line, or off the next one that has a word.                              *)
(***************************************************************************)
EXTENDS Text

CONSTANT Texts      \* what the file may hold

VARIABLES input,    \* the text behind the line that has been begun
          line,     \* that line, from its next word on
          token,    \* the word just given, <<>> if there is none
          asked     \* get_token has been called and has not returned

vars == <<input, line, token, asked>>

Init == /\ input \in Texts
        /\ line = <<>>
        /\ token = <<>>
        /\ asked = FALSE

TakeLine == /\ line' = Trimmed(Before(input, {"\n"}))
            /\ input' = Behind(input, {"\n"})

\* get_line, called by main().
GetLine == /\ ~asked
           /\ TakeLine
           /\ token' = <<>>
           /\ UNCHANGED asked

\* get_token is called ...
Ask == /\ ~asked
       /\ asked' = TRUE
       /\ token' = <<>>
       /\ UNCHANGED <<input, line>>

\* ... goes on to another line only if this one is used up ...
SkipLine == /\ asked
            /\ line = <<>> /\ input # <<>>
            /\ TakeLine
            /\ UNCHANGED <<token, asked>>

\* ... and returns a word ...
GiveToken == /\ asked
             /\ line # <<>>
             /\ token' = Before(line, Separators)
             /\ line' = Trimmed(Behind(line, Separators))
             /\ asked' = FALSE
             /\ UNCHANGED input

\* ... or nothing, at the end of the file only.
EndOfFile == /\ asked
             /\ line = <<>> /\ input = <<>>
             /\ asked' = FALSE
             /\ UNCHANGED <<input, line, token>>

\* The word has been used.
Forget == ~asked /\ token' = <<>> /\ UNCHANGED <<input, line, asked>>

Next == GetLine \/ Ask \/ SkipLine \/ GiveToken \/ EndOfFile \/ Forget

Spec == Init /\ [][Next]_vars
=============================================================================
