---------------------------------- MODULE Text ----------------------------------
(***************************************************************************)
(* Texts as the parser sees them: sequences of bytes, of which white space *)
(* and the end of a C string have a meaning of their own.                  *)
(***************************************************************************)
EXTENDS Integers, Sequences

NUL == "NUL"

\* What get_token cuts at, and what isspace() holds of; VT is a vertical tab.
Separators == {" ", "\t", "\n"}
Space == Separators \union {"\r", "\f", "VT"}

Digits == <<"0", "1", "2", "3", "4", "5", "6", "7", "8", "9">>

\* Where the first byte of a set is, or the end of the text.  (A function of the
\* text, so that TLC evaluates the text once.)
First(text, bytes) ==
  [t \in {text} |->
     CHOOSE i \in 1..(Len(t) + 1) :
       /\ i <= Len(t) => t[i] \in bytes
       /\ \A j \in 1..(i - 1) : t[j] \notin bytes][text]

Before(text, bytes) == SubSeq(text, 1, First(text, bytes) - 1)
Behind(text, bytes) == SubSeq(text, First(text, bytes) + 1, Len(text))

\* A text from its first byte on that is no white space.
Trimmed(text) ==
  [t \in {text} |->
     LET start == CHOOSE i \in 1..(Len(t) + 1) :
                    /\ i <= Len(t) => t[i] \notin Space
                    /\ \A j \in 1..(i - 1) : t[j] \in Space
     IN  SubSeq(t, start, Len(t))][text]

\* What strtoul and strtol take whole, of the words whose number is in range;
\* strtoul takes a minus too, which is left out.
IsDigits(word) ==
  word # <<>> /\ \A i \in DOMAIN word : \E d \in DOMAIN Digits : word[i] = Digits[d]
IsUnsigned(word) == IsDigits(word) \/ (word # <<>> /\ word[1] = "+" /\ IsDigits(Tail(word)))
IsLong(word) == IsUnsigned(word) \/ (word # <<>> /\ word[1] = "-" /\ IsDigits(Tail(word)))

Unsigned(word) ==
  LET digits == IF word[1] = "+" THEN Tail(word) ELSE word
      value[i \in 0..Len(digits)] ==
        IF i = 0 THEN 0
        ELSE 10 * value[i - 1] + (CHOOSE d \in 0..9 : Digits[d + 1] = digits[i])
  IN  value[Len(digits)]
=============================================================================
