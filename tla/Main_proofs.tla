------------------------------ MODULE Main_proofs ------------------------------
(***************************************************************************)
(* Theorems about Main: the pointers of the parser stay in its buffer,     *)
(* whatever read() returns; the parser implements TokenStream; the strings *)
(* that are kept stay apart; what main() reads is what its text says; and  *)
(* every text is read to an end.                                           *)
(***************************************************************************)
EXTENDS FileHelper_proofs

\* Module Main has a Times of its own.
N == INSTANCE Numbers_proofs

(***************************************************************************)
(* Texts.                                                                  *)
(***************************************************************************)
Chars == STRING \union {NUL}

LEMMA TextsType == NUL \in Chars /\ Texts \subseteq Seq(Chars)
<1>1. NUL \in Chars /\ STRING \subseteq Chars
  BY DEF Chars
<1>2. Seq(STRING) \subseteq Seq(Chars)
  BY <1>1, SeqMonotonic
<1> QED
  BY <1>1, <1>2, ParserAssumption

\* The first number of an interval that has a property.
LEMMA FirstOf ==
  ASSUME NEW a \in Nat, NEW b \in Nat, NEW S \in SUBSET (a..b), S # {}
  PROVE  \E i \in S : \A j \in S : i <= j
<1>1. S \in SUBSET Nat
  OBVIOUS
<1> QED
  BY <1>1, N!LeastElement

\* What CutAt finds in a string that ends.
LEMMA CutAtIs ==
  ASSUME NEW b \in Seq(Chars), NEW p \in Nat, p >= 1, NEW D,
         NEW e \in p..Len(b), b[e] \in D \union {NUL}
  PROVE  /\ CutAt(b, p, D) \in p..e
         /\ b[CutAt(b, p, D)] \in D \union {NUL}
         /\ \A j \in p..(CutAt(b, p, D) - 1) : b[j] \notin D \union {NUL}
<1> DEFINE S == {i \in p..Len(b) : b[i] \in D \union {NUL}}
<1>1. PICK i \in S : \A j \in S : i <= j
  <2>1. S \in SUBSET (p..Len(b)) /\ S # {} /\ Len(b) \in Nat
    OBVIOUS
  <2> HIDE DEF S
  <2> QED
    BY <2>1, FirstOf
<1>2. i \in p..Len(b) /\ b[i] \in D \union {NUL} /\ \A j \in p..(i - 1) : b[j] \notin D \union {NUL}
  <2>1. ASSUME NEW j \in p..(i - 1), b[j] \in D \union {NUL} PROVE FALSE
    <3>1. j \in S
      BY <2>1
    <3> QED
      BY <1>1, <3>1
  <2> QED
    BY <2>1
<1> DEFINE c == CutAt(b, p, D)
<1>3. c \in p..Len(b) /\ b[c] \in D \union {NUL} /\ \A j \in p..(c - 1) : b[j] \notin D \union {NUL}
  BY <1>2 DEF CutAt
<1>4. c <= e
  <2> SUFFICES ASSUME c > e PROVE FALSE
    BY <1>3
  <2>1. e \in p..(c - 1)
    BY <1>3
  <2> HIDE DEF c
  <2> QED
    BY <1>3, <2>1
<1> HIDE DEF c
<1> QED
  BY <1>3, <1>4 DEF c

\* What First finds in a text.
LEMMA FirstIs ==
  ASSUME NEW t \in Seq(Chars), NEW D
  PROVE  /\ First(t, D) \in 1..(Len(t) + 1)
         /\ First(t, D) <= Len(t) => t[First(t, D)] \in D
         /\ \A j \in 1..(First(t, D) - 1) : t[j] \notin D
<1> DEFINE S == {i \in 1..(Len(t) + 1) : i <= Len(t) => t[i] \in D}
<1>1. PICK i \in S : \A j \in S : i <= j
  <2>1. S \in SUBSET (1..(Len(t) + 1)) /\ Len(t) + 1 \in S /\ Len(t) + 1 \in Nat
    OBVIOUS
  <2> HIDE DEF S
  <2> QED
    BY <2>1, FirstOf
<1>2. ASSUME NEW j \in 1..(i - 1), t[j] \in D PROVE FALSE
  <2>1. j \in S
    BY <1>2
  <2> QED
    BY <1>1, <2>1
<1> DEFINE P(k) == /\ k <= Len(t) => t[k] \in D
                   /\ \A j \in 1..(k - 1) : t[j] \notin D
<1>3. i \in 1..(Len(t) + 1) /\ P(i)
  BY <1>1, <1>2
<1>4. First(t, D) = CHOOSE k \in 1..(Len(t) + 1) : P(k)
  BY DEF First
<1> HIDE DEF P
<1>5. First(t, D) \in 1..(Len(t) + 1) /\ P(First(t, D))
  BY <1>3, <1>4
<1> QED
  BY <1>5 DEF P

\* ... and nothing else.
LEMMA FirstOnly ==
  ASSUME NEW t \in Seq(Chars), NEW D, NEW i \in 1..(Len(t) + 1),
         i <= Len(t) => t[i] \in D,
         \A j \in 1..(i - 1) : t[j] \notin D
  PROVE  First(t, D) = i
<1> DEFINE f == First(t, D)
<1>1. f \in 1..(Len(t) + 1) /\ (f <= Len(t) => t[f] \in D) /\ \A j \in 1..(f - 1) : t[j] \notin D
  BY FirstIs
<1> HIDE DEF f
<1>2. ~(f < i)
  <2> SUFFICES ASSUME f < i PROVE FALSE
    OBVIOUS
  <2>1. f \in 1..(i - 1) /\ f <= Len(t)
    BY <1>1
  <2> QED
    BY <1>1, <2>1
<1>3. ~(i < f)
  <2> SUFFICES ASSUME i < f PROVE FALSE
    OBVIOUS
  <2>1. i \in 1..(f - 1) /\ i <= Len(t)
    BY <1>1
  <2> QED
    BY <1>1, <2>1
<1> QED
  BY <1>1, <1>2, <1>3 DEF f

\* Trimmed takes white space off a text, and nothing else.
LEMMA TrimmedOnly ==
  ASSUME NEW t \in Seq(Chars), NEW i \in 1..(Len(t) + 1),
         i <= Len(t) => t[i] \notin Space,
         \A j \in 1..(i - 1) : t[j] \in Space
  PROVE  Trimmed(t) = SubSeq(t, i, Len(t))
<1> DEFINE P(k) == /\ k <= Len(t) => t[k] \notin Space
                   /\ \A j \in 1..(k - 1) : t[j] \in Space
           start == CHOOSE k \in 1..(Len(t) + 1) : P(k)
<1>1. Trimmed(t) = SubSeq(t, start, Len(t))
  BY DEF Trimmed
<1>2. P(i)
  OBVIOUS
<1>3. ASSUME NEW k \in 1..(Len(t) + 1), P(k) PROVE k = i
  <2>1. ~(k < i)
    <3> SUFFICES ASSUME k < i PROVE FALSE
      OBVIOUS
    <3>1. k \in 1..(i - 1) /\ k <= Len(t)
      OBVIOUS
    <3> QED
      BY <1>3, <3>1
  <2>2. ~(i < k)
    <3> SUFFICES ASSUME i < k PROVE FALSE
      OBVIOUS
    <3>1. i \in 1..(k - 1) /\ i <= Len(t)
      OBVIOUS
    <3> QED
      BY <1>3, <3>1
  <2> QED
    BY <2>1, <2>2
<1> HIDE DEF P
<1>4. start \in 1..(Len(t) + 1) /\ P(start)
  BY <1>2
<1>5. start = i
  BY <1>3, <1>4
<1> QED
  BY <1>1, <1>5

LEMMA TrimmedIs ==
  ASSUME NEW t \in Seq(Chars)
  PROVE  \E i \in 1..(Len(t) + 1) :
           /\ i <= Len(t) => t[i] \notin Space
           /\ \A j \in 1..(i - 1) : t[j] \in Space
           /\ Trimmed(t) = SubSeq(t, i, Len(t))
<1> DEFINE S == {i \in 1..(Len(t) + 1) : i <= Len(t) => t[i] \notin Space}
<1>1. PICK i \in S : \A j \in S : i <= j
  <2>1. S \in SUBSET (1..(Len(t) + 1)) /\ Len(t) + 1 \in S /\ Len(t) + 1 \in Nat
    OBVIOUS
  <2> HIDE DEF S
  <2> QED
    BY <2>1, FirstOf
<1>2. ASSUME NEW j \in 1..(i - 1), t[j] \notin Space PROVE FALSE
  <2>1. j \in S
    BY <1>2
  <2> QED
    BY <1>1, <2>1
<1>3. /\ i \in 1..(Len(t) + 1) /\ (i <= Len(t) => t[i] \notin Space)
      /\ \A j \in 1..(i - 1) : t[j] \in Space
  BY <1>1, <1>2
<1> QED
  BY <1>3, TrimmedOnly

(***************************************************************************)
(* The pointers of the parser.                                             *)
(***************************************************************************)

\* The C string at p ends at e.
StringAt(b, p, e) ==
  /\ p \in Nat \ {0} /\ e \in p..Len(b)
  /\ b[e] = NUL
  /\ \A i \in p..(e - 1) : b[i] # NUL

LEMMA StringExists ==
  ASSUME NEW b \in Seq(Chars), NEW p \in Nat, p >= 1, NEW i \in p..Len(b), b[i] = NUL
  PROVE  \E e \in p..i : StringAt(b, p, e)
<1> DEFINE e == CutAt(b, p, {})
<1>1. e \in p..i /\ b[e] \in {} \union {NUL} /\ \A j \in p..(e - 1) : b[j] \notin {} \union {NUL}
  BY CutAtIs
<1> HIDE DEF e
<1>2. StringAt(b, p, e)
  BY <1>1 DEF StringAt
<1> QED
  BY <1>1, <1>2

\* A byte is overwritten by the end of a string.
IsCut(d, b, c) == d = [b EXCEPT ![c] = NUL]

\* A string is not disturbed by a byte in front of it.
LEMMA StringElsewhere ==
  ASSUME NEW b \in Seq(Chars), NEW d \in Seq(Chars), Len(d) = Len(b), NEW c \in Nat,
         \A j \in 1..Len(b) : d[j] = IF j = c THEN NUL ELSE b[j],
         NEW p, NEW e, StringAt(b, p, e), c < p
  PROVE  /\ StringAt(d, p, e)
         /\ \A j \in p..e : d[j] = b[j]
<1>1. p \in Nat /\ p >= 1 /\ e \in p..Len(b) /\ b[e] = NUL /\ \A i \in p..(e - 1) : b[i] # NUL
  BY DEF StringAt
<1>2. \A j \in p..e : j \in 1..Len(b) /\ j # c
  BY <1>1
<1>3. \A j \in p..e : d[j] = b[j]
  BY <1>2
<1> QED
  BY <1>1, <1>3 DEF StringAt

\* The string at a pointer, whatever is behind its end.
LEMMA StringIs ==
  ASSUME NEW b \in Seq(Chars), NEW p, NEW e, StringAt(b, p, e)
  PROVE  /\ CutAt(b, p, {}) = e
         /\ SubSeq(b, p, e - 1) \in Seq(Chars)
         /\ Len(SubSeq(b, p, e - 1)) = e - p
         /\ \A i \in 1..(e - p) : SubSeq(b, p, e - 1)[i] = b[p + i - 1]
<1>1. p \in Nat /\ p >= 1 /\ e \in p..Len(b) /\ b[e] = NUL /\ \A i \in p..(e - 1) : b[i] # NUL
  BY DEF StringAt
<1> DEFINE c == CutAt(b, p, {})
<1>2. c \in p..e /\ b[c] \in {} \union {NUL}
  BY <1>1, CutAtIs
<1> HIDE DEF c
<1>3. c = e
  BY <1>1, <1>2
<1>4. \A i \in p..(e - 1) : b[i] \in Chars
  BY <1>1
<1>5. /\ SubSeq(b, p, e - 1) \in Seq(Chars)
      /\ Len(SubSeq(b, p, e - 1)) = IF p <= e - 1 THEN (e - 1) - p + 1 ELSE 0
      /\ \A i \in 1..((e - 1) - p + 1) : SubSeq(b, p, e - 1)[i] = b[p + i - 1]
  BY <1>1, <1>4, SubSeqProperties
<1>6. (e - 1) - p + 1 = e - p
  BY <1>1
<1>7. Len(SubSeq(b, p, e - 1)) = e - p
  BY <1>1, <1>5, <1>6
<1> QED
  BY <1>3, <1>5, <1>6, <1>7 DEF c

Calls8 == {"idle", "line", "got_line", "no_line", "token", "token_line", "got_token", "no_token"}

ParserType ==
  /\ file \in Texts /\ position \in 0..Len(file)
  /\ buffer \in Seq(Chars) /\ Len(buffer) <= capacity /\ capacity \in Nat
  /\ allocation \in Nat \ {0}
  /\ next_line \in Nat /\ line \in Nat /\ token \in Nat
  /\ eof \in BOOLEAN /\ looking \in BOOLEAN
  /\ call \in Calls8

\* next_line is a string in the buffer.
NextLineInv == next_line # Null => \E e \in Nat : StringAt(buffer, next_line, e)

\* So is line, which ends before next_line, unless get_line is about to set it; when
\* no newline has been found it has none.
LineInv ==
  line # Null /\ ~(InGetLine /\ looking) =>
    \E e \in Nat : /\ StringAt(buffer, line, e)
                   /\ next_line # Null => e < next_line
                   /\ InGetLine /\ next_line = Null => \A i \in line..(e - 1) : buffer[i] # "\n"

\* A token that is returned is a string that ends before what is left of its line.
TokenInv ==
  call = "got_token" =>
    \E e \in Nat : /\ StringAt(buffer, token, e)
                   /\ line # Null => e < line
                   /\ next_line # Null => e < next_line

EofInv == eof => position = Len(file)

ParserInv == ParserType /\ NextLineInv /\ LineInv /\ TokenInv /\ EofInv

LEMMA InitParser == ParserInit => ParserInv
<1> SUFFICES ASSUME ParserInit PROVE ParserInv
  OBVIOUS
<1> USE DEF ParserInit
<1>1. BUFFER_SIZE \in Nat /\ BUFFER_SIZE > 0
  BY ParserAssumption
<1>2. /\ buffer \in Seq(Chars) /\ Len(buffer) = BUFFER_SIZE + 1
      /\ \A i \in 1..(BUFFER_SIZE + 1) : buffer[i] = NUL
  BY <1>1, TextsType
<1>3. file \in Seq(Chars) /\ Len(file) \in Nat
  BY TextsType
<1>4. /\ file \in Texts /\ position = 0 /\ capacity = BUFFER_SIZE + 1 /\ allocation = 1
      /\ next_line = 1 /\ line = 0 /\ token = 0 /\ eof = FALSE /\ call = "idle" /\ looking = FALSE
  BY DEF Null
<1> HIDE DEF ParserInit
<1>5. ParserType
  <2>1. Len(buffer) <= capacity /\ capacity \in Nat
    BY <1>1, <1>2, <1>4
  <2>2. position \in 0..Len(file)
    BY <1>3, <1>4
  <2>3. /\ next_line \in Nat /\ line \in Nat /\ token \in Nat /\ allocation \in Nat \ {0}
        /\ call \in Calls8
    BY <1>4 DEF Calls8
  <2>4. eof \in BOOLEAN /\ looking \in BOOLEAN
    BY <1>4
  <2> QED
    BY <1>2, <1>4, <2>1, <2>2, <2>3, <2>4 DEF ParserType
<1>6. StringAt(buffer, 1, 1)
  BY <1>1, <1>2 DEF StringAt
<1>7. NextLineInv
  BY <1>4, <1>6 DEF NextLineInv
<1> QED
  BY <1>4, <1>5, <1>7 DEF ParserInv, LineInv, TokenInv, EofInv, Null

\* strsep() cuts a string where there is a byte of a set, or at its end, and goes on
\* behind that.
Cuts(b, p, D, d, rest, e, c) ==
  /\ StringAt(b, p, e)
  /\ c \in p..e
  /\ b[c] \in D \union {NUL} /\ \A j \in p..(c - 1) : b[j] \notin D \union {NUL}
  /\ b[c] = NUL <=> c = e
  /\ d \in Seq(Chars) /\ Len(d) = Len(b)
  /\ \A j \in 1..Len(b) : d[j] = IF j = c THEN NUL ELSE b[j]
  /\ rest = IF c = e THEN Null ELSE c + 1

LEMMA CutsIs ==
  ASSUME NEW b \in Seq(Chars), NEW p, NEW D, NEW d, NEW rest, NEW e, NEW c, Cuts(b, p, D, d, rest, e, c)
  PROVE  /\ p \in Nat /\ p >= 1 /\ e \in Nat /\ c \in Nat /\ rest \in Nat /\ c \in 1..Len(b)
         /\ StringAt(d, p, c)
         /\ rest # Null => /\ c < e /\ rest = c + 1 /\ StringAt(d, rest, e)
         /\ d[c] = NUL
         /\ \A j \in p..(c - 1) : d[j] = b[j]
<1> USE DEF Cuts, Null
<1>1. p \in Nat /\ p >= 1 /\ e \in p..Len(b) /\ b[e] = NUL /\ \A i \in p..(e - 1) : b[i] # NUL
  BY DEF StringAt
<1>2. c \in p..e /\ c \in 1..Len(b) /\ Len(b) \in Nat /\ Len(d) = Len(b)
  BY <1>1
<1>3. \A j \in 1..Len(b) : d[j] = IF j = c THEN NUL ELSE b[j]
  OBVIOUS
<1>4. StringAt(d, p, c)
  BY <1>1, <1>2, <1>3 DEF StringAt
<1>5. ASSUME c < e PROVE StringAt(d, c + 1, e)
  <2>1. c + 1 \in Nat \ {0} /\ e \in (c + 1)..Len(d) /\ e # c /\ e \in 1..Len(b)
    BY <1>1, <1>2, <1>5
  <2>2. ASSUME NEW i \in (c + 1)..(e - 1) PROVE d[i] # NUL
    <3>1. i \in p..(e - 1) /\ i \in 1..Len(b) /\ i # c
      BY <1>1, <1>2
    <3> QED
      BY <1>1, <1>3, <3>1
  <2> QED
    BY <1>1, <1>3, <2>1, <2>2 DEF StringAt
<1>6. \A j \in p..(c - 1) : j \in 1..Len(b) /\ j # c
  BY <1>1, <1>2
<1>7. rest = IF c = e THEN 0 ELSE c + 1
  OBVIOUS
<1> QED
  BY <1>1, <1>2, <1>3, <1>4, <1>5, <1>6, <1>7

LEMMA Cutting ==
  ASSUME NEW b \in Seq(Chars), NEW p, NEW e, StringAt(b, p, e), NEW D,
         NEW c, c = CutAt(b, p, D), NEW d, IsCut(d, b, c),
         NEW rest, rest = IF b[c] = NUL THEN Null ELSE c + 1
  PROVE  Cuts(b, p, D, d, rest, e, c)
<1>1. p \in Nat /\ p >= 1 /\ e \in p..Len(b) /\ b[e] = NUL /\ \A i \in p..(e - 1) : b[i] # NUL
  BY DEF StringAt
<1>2. c \in p..e /\ b[c] \in D \union {NUL} /\ \A j \in p..(c - 1) : b[j] \notin D \union {NUL}
  BY <1>1, CutAtIs
<1>3. c \in 1..Len(b) /\ Len(b) \in Nat
  BY <1>1, <1>2
<1>4. /\ d \in Seq(Chars) /\ Len(d) = Len(b)
      /\ \A j \in 1..Len(b) : d[j] = IF j = c THEN NUL ELSE b[j]
  BY <1>3, TextsType, ExceptSeq DEF IsCut
<1>5. b[c] = NUL <=> c = e
  BY <1>1, <1>2
<1> QED
  BY <1>2, <1>4, <1>5 DEF Cuts

\* The newline is searched (strsep of get_line).
LEMMA CutLineIs ==
  ASSUME ParserType, NextLineInv, CutLine, next_line # Null
  PROVE  /\ \E e, c \in Nat : Cuts(buffer, next_line, {"\n"}, buffer', next_line', e, c)
         /\ line' = next_line
<1>1. PICK c : c = CutAt(buffer, next_line, {"\n"})
  OBVIOUS
<1>2. next_line' = RestAt(c) /\ buffer' = [buffer EXCEPT ![c] = NUL] /\ line' = next_line
  BY <1>1 DEF CutLine
<1>3. PICK e \in Nat : StringAt(buffer, next_line, e)
  BY DEF NextLineInv
<1>4. PICK D : D = {"\n"}
  OBVIOUS
<1>5. PICK d, rest : d = buffer' /\ rest = next_line'
  OBVIOUS
<1>6. /\ buffer \in Seq(Chars) /\ c = CutAt(buffer, next_line, D) /\ IsCut(d, buffer, c)
      /\ rest = IF buffer[c] = NUL THEN Null ELSE c + 1
  BY <1>1, <1>2, <1>4, <1>5 DEF IsCut, RestAt, ParserType
<1>7. Cuts(buffer, next_line, D, d, rest, e, c)
  BY <1>3, <1>6, Cutting
<1>8. Cuts(buffer, next_line, {"\n"}, buffer', next_line', e, c)
  BY <1>4, <1>5, <1>7
<1>9. c \in Nat
  BY <1>3, <1>7 DEF Cuts, StringAt
<1> QED
  BY <1>2, <1>8, <1>9

LEMMA CutLineInv == ParserInv /\ CutLine => ParserInv'
<1> SUFFICES ASSUME ParserInv, CutLine PROVE ParserInv'
  OBVIOUS
<1>1. /\ ParserType /\ NextLineInv /\ EofInv /\ buffer \in Seq(Chars)
      /\ InGetLine /\ looking /\ looking' = FALSE
      /\ UNCHANGED <<file, position, capacity, allocation, token, eof, call>>
  BY DEF ParserInv, ParserType, CutLine
<1>2. CASE next_line = Null
  <2>1. line' = Null /\ UNCHANGED <<buffer, next_line>>
    BY <1>2 DEF CutLine
  <2>2. ParserType'
    BY <1>1, <2>1 DEF ParserType, Null
  <2> QED
    BY <1>1, <1>2, <2>1, <2>2 DEF ParserInv, NextLineInv, LineInv, TokenInv, EofInv, InGetLine
<1>3. CASE next_line # Null
  <2>1. PICK e, c \in Nat : Cuts(buffer, next_line, {"\n"}, buffer', next_line', e, c)
    BY <1>1, <1>3, CutLineIs
  <2>2. line' = next_line
    BY <1>1, <1>3, CutLineIs
  <2>3. /\ next_line \in Nat /\ next_line >= 1 /\ next_line' \in Nat /\ c \in 1..Len(buffer)
        /\ StringAt(buffer', next_line, c)
        /\ next_line' # Null => /\ next_line' = c + 1 /\ StringAt(buffer', next_line', e)
        /\ \A j \in next_line..(c - 1) : buffer'[j] = buffer[j]
    <3>1. PICK D : D = {"\n"}
      OBVIOUS
    <3>2. PICK d, rest : d = buffer' /\ rest = next_line'
      OBVIOUS
    <3>3. Cuts(buffer, next_line, D, d, rest, e, c)
      BY <2>1, <3>1, <3>2
    <3>4. /\ next_line \in Nat /\ next_line >= 1 /\ rest \in Nat /\ c \in 1..Len(buffer)
          /\ StringAt(d, next_line, c)
          /\ rest # Null => /\ rest = c + 1 /\ StringAt(d, rest, e)
          /\ \A j \in next_line..(c - 1) : d[j] = buffer[j]
      BY <1>1, <3>3, CutsIs
    <3> QED
      BY <3>2, <3>4
  <2>4. /\ buffer' \in Seq(Chars) /\ Len(buffer') = Len(buffer)
        /\ \A j \in next_line..(c - 1) : buffer[j] # "\n"
    BY <2>1 DEF Cuts
  <2>7. ParserType'
    <3>1. next_line' \in Nat /\ line' \in Nat /\ Len(buffer') <= capacity /\ buffer' \in Seq(Chars)
      BY <1>1, <2>2, <2>3, <2>4 DEF ParserType
    <3> QED
      BY <1>1, <3>1 DEF ParserType
  <2>8. NextLineInv'
    BY <2>1, <2>3 DEF NextLineInv
  <2>9. LineInv'
    <3>1. \A i \in next_line..(c - 1) : buffer'[i] # "\n"
      BY <2>3, <2>4
    <3>2. next_line' # Null => c < next_line'
      BY <2>3
    <3> QED
      BY <1>1, <2>2, <2>3, <3>1, <3>2 DEF LineInv
  <2> QED
    BY <1>1, <2>7, <2>8, <2>9 DEF ParserInv, TokenInv, EofInv, InGetLine
<1> QED
  BY <1>2, <1>3

\* A call of get_line.
LEMMA GetLineInv ==
  ASSUME ParserInv, NEW caller \in {"line", "token_line"}, get_line(caller)
  PROVE  ParserInv'
BY DEF ParserInv, ParserType, NextLineInv, LineInv, TokenInv, EofInv, InGetLine, get_line, Calls8

LEMMA LeaveGetLineInv == ParserInv /\ LeaveGetLine => ParserInv'
<1> SUFFICES ASSUME ParserInv, LeaveGetLine PROVE ParserInv'
  OBVIOUS
<1>1. /\ ParserType /\ NextLineInv /\ LineInv /\ EofInv /\ InGetLine /\ ~looking
      /\ UNCHANGED <<file, position, buffer, capacity, allocation, next_line, token, eof, looking>>
      /\ call' \in {"got_line", "no_line", "token", "no_token"}
      /\ line' = line \/ line' = Null
  BY DEF ParserInv, LeaveGetLine
<1>2. ParserType'
  BY <1>1 DEF ParserType, Null, Calls8
<1> QED
  BY <1>1, <1>2 DEF ParserInv, NextLineInv, LineInv, TokenInv, EofInv, InGetLine

\* The line that has been begun, as a text.
LEMMA LineString ==
  ASSUME ParserInv, ~(InGetLine /\ looking)
  PROVE  /\ CString(line) \in Seq(Chars) /\ Len(CString(line)) \in Nat
         /\ line = Null => CString(line) = << >>
<1>1. buffer \in Seq(Chars)
  BY DEF ParserInv, ParserType
<1>2. CASE line = Null
  BY <1>2 DEF CString
<1>3. CASE line # Null
  <2>1. PICK e \in Nat : StringAt(buffer, line, e)
    BY <1>3 DEF ParserInv, LineInv
  <2>2. CString(line) = SubSeq(buffer, line, e - 1) /\ CString(line) \in Seq(Chars)
    BY <1>1, <1>3, <2>1, StringIs DEF CString
  <2> QED
    BY <1>3, <2>2
<1> QED
  BY <1>2, <1>3

LEMMA FittedIs ==
  ASSUME buffer \in Seq(Chars), NEW bytes \in Seq(Chars), NEW size \in Nat, Len(bytes) <= size
  PROVE  /\ Fitted(bytes, size) \in Seq(Chars) /\ Len(Fitted(bytes, size)) = size
         /\ \A i \in 1..Len(bytes) : Fitted(bytes, size)[i] = bytes[i]
<1> DEFINE n == Len(bytes)
           k == Len(buffer)
           old == SubSeq(buffer, n + 1, Min2(size, k))
           more == Max2(0, size - Max2(n, k))
           new == [i \in 1..more |-> NUL]
<1>1. n \in Nat /\ k \in Nat /\ n <= size
  OBVIOUS
<1>2. more \in Nat /\ Min2(size, k) \in Nat /\ Min2(size, k) <= k
  BY <1>1 DEF Max2, Min2
<1>3. new \in Seq(Chars) /\ Len(new) = more
  BY <1>2, TextsType
<1>4. /\ old \in Seq(Chars)
      /\ Len(old) = IF n + 1 <= Min2(size, k) THEN Min2(size, k) - (n + 1) + 1 ELSE 0
  <2>1. \A i \in (n + 1)..Min2(size, k) : buffer[i] \in Chars
    BY <1>1, <1>2
  <2> QED
    BY <1>1, <1>2, <2>1, SubSeqProperties
<1>6. Fitted(bytes, size) = (bytes \o old) \o new
  BY DEF Fitted
<1>5. n + Len(old) + more = size
  <2>1. Min2(size, k) = (IF size <= k THEN size ELSE k)
    BY DEF Min2
  <2>2. more = (IF n >= k THEN size - n ELSE IF size <= k THEN 0 ELSE size - k)
    BY <1>1 DEF Max2
  <2> HIDE DEF old, more, n, k
  <2>3. Len(old) = IF n + 1 <= Min2(size, k) THEN Min2(size, k) - (n + 1) + 1 ELSE 0
    BY <1>4
  <2>4. CASE size <= k
    <3>1. Min2(size, k) = size
      BY <2>1, <2>4
    <3> QED
      BY <1>1, <2>2, <2>3, <2>4, <3>1
  <2>5. CASE ~(size <= k)
    <3>1. Min2(size, k) = k
      BY <2>1, <2>5
    <3> QED
      BY <1>1, <2>2, <2>3, <2>5, <3>1
  <2> QED
    BY <2>4, <2>5
<1> HIDE DEF old, new, more, k
<1>7. /\ bytes \o old \in Seq(Chars) /\ Len(bytes \o old) = n + Len(old)
      /\ \A i \in 1..n : (bytes \o old)[i] = bytes[i]
  BY <1>1, <1>4, ConcatProperties
<1>8. /\ (bytes \o old) \o new \in Seq(Chars) /\ Len((bytes \o old) \o new) = n + Len(old) + more
      /\ \A i \in 1..n : ((bytes \o old) \o new)[i] = bytes[i]
  <2>1. PICK both : both = bytes \o old
    OBVIOUS
  <2>2. both \in Seq(Chars) /\ Len(both) = n + Len(old) /\ \A i \in 1..n : both[i] = bytes[i]
    BY <1>7, <2>1
  <2>3. /\ both \o new \in Seq(Chars) /\ Len(both \o new) = Len(both) + more
        /\ \A i \in 1..(Len(both) + more) :
             (both \o new)[i] = IF i <= Len(both) THEN both[i] ELSE new[i - Len(both)]
    <3>1. both \in Seq(Chars) /\ new \in Seq(Chars) /\ Len(new) = more
      BY <1>3, <2>2
    <3> QED
      BY <3>1, ConcatProperties
  <2>4. Len(old) \in Nat
    BY <1>4
  <2>5. \A i \in 1..n : i \in 1..(Len(both) + more) /\ i <= Len(both)
    BY <1>1, <1>2, <2>2, <2>4
  <2> QED
    BY <2>1, <2>2, <2>3, <2>5
<1> QED
  BY <1>5, <1>6, <1>8

\* What one turn of the loop of get_line does to the buffer: the line that has been
\* begun, n bytes of the file and the end of a string.
LEMMA RefillIs ==
  ASSUME ParserInv, Refill
  PROVE  \E n \in 0..(Len(file) - position) :
           LET m == Len(CString(line))
           IN  /\ m \in Nat
               /\ position' = position + n /\ eof' \in BOOLEAN /\ (eof' => n = 0) /\ (n = 0 => eof')
               /\ n = 0 => position = Len(file)
               /\ buffer' \in Seq(Chars) /\ m + n + 1 <= Len(buffer')
               /\ \A i \in 1..m : buffer'[i] = CString(line)[i]
               /\ \A i \in 1..n : buffer'[m + i] = file[position + i]
               /\ buffer'[m + n + 1] = NUL
               /\ capacity' \in Nat /\ Len(buffer') <= capacity'
               /\ allocation' \in Nat \ {0}
<1> DEFINE s == CString(line)
           m == Len(s)
           size == m + BUFFER_SIZE + 1
<1>1. /\ ParserType /\ BUFFER_SIZE \in Nat /\ BUFFER_SIZE > 0 /\ ~looking
      /\ buffer \in Seq(Chars) /\ Len(buffer) \in Nat /\ capacity \in Nat /\ allocation \in Nat \ {0}
      /\ file \in Seq(Chars) /\ Len(file) \in Nat /\ position \in 0..Len(file)
  BY TextsType, ParserAssumption DEF ParserInv, ParserType, Refill
<1>2. s \in Seq(Chars) /\ m \in Nat
  BY <1>1, LineString
<1>3. PICK n \in BytesRead :
        /\ buffer' = Fitted(Kept(s) \o SubSeq(file, position + 1, position + n) \o <<NUL>>, size)
        /\ position' = position + n
        /\ eof' = EndReached(n)
        /\ capacity' = Grown(size)
        /\ allocation' = IF Grown(size) = capacity THEN allocation ELSE allocation + 1
  BY DEF Refill
<1> HIDE DEF s
<1>4. Len(Unread) = Len(file) - position
  <2>1. \A i \in (position + 1)..Len(file) : file[i] \in Chars
    BY <1>1
  <2>2. Len(Unread) = IF position + 1 <= Len(file) THEN Len(file) - (position + 1) + 1 ELSE 0
    BY <1>1, <2>1, SubSeqProperties DEF Unread
  <2> QED
    BY <1>1, <2>2
<1>5. n \in 0..(Len(file) - position) /\ n <= BUFFER_SIZE /\ (n = 0 => position = Len(file))
  BY <1>1, <1>3, <1>4 DEF BytesRead, Min2
<1> DEFINE chunk == SubSeq(file, position + 1, position + n)
           bytes == Kept(s) \o chunk \o <<NUL>>
<1>6. /\ chunk \in Seq(Chars) /\ Len(chunk) = n
      /\ \A i \in 1..n : chunk[i] = file[position + i]
  <2>1. \A i \in (position + 1)..(position + n) : file[i] \in Chars
    BY <1>1, <1>5
  <2>2. /\ chunk \in Seq(Chars)
        /\ Len(chunk) = IF position + 1 <= position + n THEN position + n - (position + 1) + 1 ELSE 0
        /\ \A i \in 1..(position + n - (position + 1) + 1) : chunk[i] = file[position + 1 + i - 1]
    BY <1>1, <1>5, <2>1, SubSeqProperties
  <2>3. position + n - (position + 1) + 1 = n
    BY <1>1, <1>5
  <2> HIDE DEF chunk
  <2>4. \A i \in 1..n : position + 1 + i - 1 = position + i
    BY <1>1, <1>5
  <2> QED
    BY <1>1, <1>5, <2>2, <2>3, <2>4
<1> HIDE DEF chunk
<1>7. /\ s \o chunk \in Seq(Chars) /\ Len(s \o chunk) = m + n
      /\ \A i \in 1..m : (s \o chunk)[i] = s[i]
      /\ \A i \in 1..n : (s \o chunk)[m + i] = chunk[i]
  <2>1. /\ s \o chunk \in Seq(Chars) /\ Len(s \o chunk) = m + n
        /\ \A i \in 1..(m + n) : (s \o chunk)[i] = IF i <= m THEN s[i] ELSE chunk[i - m]
    BY <1>2, <1>6, ConcatProperties
  <2>2. \A i \in 1..m : i \in 1..(m + n) /\ i <= m
    BY <1>2, <1>5
  <2>3. \A i \in 1..n : m + i \in 1..(m + n) /\ ~(m + i <= m) /\ (m + i) - m = i
    BY <1>2, <1>5
  <2> QED
    BY <2>1, <2>2, <2>3
<1>8. /\ bytes \in Seq(Chars) /\ Len(bytes) = m + n + 1
      /\ \A i \in 1..(m + n) : bytes[i] = (s \o chunk)[i]
      /\ bytes[m + n + 1] = NUL
  <2>1. <<NUL>> \in Seq(Chars) /\ Len(<<NUL>>) = 1 /\ <<NUL>>[1] = NUL
    BY TextsType
  <2>2. bytes = (s \o chunk) \o <<NUL>>
    BY DEF Kept
  <2>3. /\ (s \o chunk) \o <<NUL>> \in Seq(Chars) /\ Len((s \o chunk) \o <<NUL>>) = m + n + 1
        /\ \A i \in 1..(m + n + 1) :
             ((s \o chunk) \o <<NUL>>)[i] = IF i <= m + n THEN (s \o chunk)[i] ELSE <<NUL>>[i - (m + n)]
    BY <1>7, <2>1, ConcatProperties
  <2>4. m + n + 1 \in 1..(m + n + 1) /\ ~(m + n + 1 <= m + n) /\ (m + n + 1) - (m + n) = 1
    BY <1>2, <1>5
  <2>5. \A i \in 1..(m + n) : i \in 1..(m + n + 1) /\ i <= m + n
    BY <1>2, <1>5
  <2> HIDE DEF bytes
  <2> QED
    BY <2>1, <2>2, <2>3, <2>4, <2>5
<1>9. buffer' = Fitted(bytes, size)
  BY <1>3 DEF chunk
<1> HIDE DEF bytes
<1>10. size \in Nat /\ m + n + 1 <= size
  BY <1>1, <1>2, <1>5
<1>11. /\ buffer' \in Seq(Chars) /\ Len(buffer') = size
       /\ \A i \in 1..(m + n + 1) : buffer'[i] = bytes[i]
  BY <1>1, <1>8, <1>9, <1>10, FittedIs
<1>12. capacity' \in Nat /\ size <= capacity' /\ allocation' \in Nat \ {0}
  BY <1>1, <1>3, <1>10 DEF Grown, Max2
<1>13. /\ \A i \in 1..m : buffer'[i] = s[i]
       /\ \A i \in 1..n : buffer'[m + i] = file[position + i]
       /\ buffer'[m + n + 1] = NUL
  <2>1. \A i \in 1..m : i \in 1..(m + n) /\ i \in 1..(m + n + 1)
    BY <1>2, <1>5
  <2>2. \A i \in 1..n : m + i \in 1..(m + n) /\ m + i \in 1..(m + n + 1)
    BY <1>2, <1>5
  <2>3. m + n + 1 \in 1..(m + n + 1)
    BY <1>2, <1>5
  <2>4. ASSUME NEW i \in 1..m PROVE buffer'[i] = s[i]
    BY <1>7, <1>8, <1>11, <2>1
  <2>5. ASSUME NEW i \in 1..n PROVE buffer'[m + i] = file[position + i]
    <3>1. buffer'[m + i] = bytes[m + i] /\ bytes[m + i] = (s \o chunk)[m + i]
      BY <1>8, <1>11, <2>2
    <3>2. (s \o chunk)[m + i] = chunk[i] /\ chunk[i] = file[position + i]
      BY <1>6, <1>7
    <3> QED
      BY <3>1, <3>2
  <2>6. buffer'[m + n + 1] = NUL
    BY <1>8, <1>11, <2>3
  <2> QED
    BY <2>4, <2>5, <2>6
<1>14. eof' \in BOOLEAN /\ (eof' => n = 0) /\ (n = 0 => eof')
  <2>1. eof' = EndReached(n)
    BY <1>3
  <2>2. CASE n = 0
    <3>1. EndReached(n) = TRUE
      BY <2>2 DEF EndReached
    <3> QED
      BY <2>1, <2>2, <3>1
  <2>3. CASE n # 0
    <3>1. EndReached(n) = FALSE
      BY <1>1, <1>5, <2>3 DEF EndReached
    <3> QED
      BY <2>1, <2>3, <3>1
  <2> QED
    BY <2>2, <2>3
<1> QED
  BY <1>2, <1>3, <1>5, <1>10, <1>11, <1>12, <1>13, <1>14 DEF s

LEMMA RefillInv == ParserInv /\ Refill => ParserInv'
<1> SUFFICES ASSUME ParserInv, Refill PROVE ParserInv'
  OBVIOUS
<1>1. PICK m : m = Len(CString(line))
  OBVIOUS
<1>2. PICK n \in 0..(Len(file) - position) :
        /\ m \in Nat
        /\ position' = position + n /\ eof' \in BOOLEAN /\ (eof' => n = 0) /\ (n = 0 => eof')
        /\ n = 0 => position = Len(file)
        /\ buffer' \in Seq(Chars) /\ m + n + 1 <= Len(buffer')
        /\ buffer'[m + n + 1] = NUL
        /\ capacity' \in Nat /\ Len(buffer') <= capacity'
        /\ allocation' \in Nat \ {0}
  BY <1>1, RefillIs
<1>3. /\ ParserType /\ InGetLine /\ ~looking /\ looking' = TRUE /\ next_line' = 1
      /\ UNCHANGED <<file, line, token, call>>
      /\ Len(file) \in Nat /\ position \in 0..Len(file)
  BY TextsType DEF ParserInv, ParserType, Refill
<1>4. position' \in 0..Len(file)
  BY <1>2, <1>3
<1>5. ParserType'
  BY <1>2, <1>3, <1>4 DEF ParserType
<1>6. NextLineInv'
  <2>1. m + n + 1 \in 1..Len(buffer') /\ Len(buffer') \in Nat
    BY <1>2, <1>3
  <2>2. \E e \in 1..(m + n + 1) : StringAt(buffer', 1, e)
    BY <1>2, <2>1, StringExists
  <2> QED
    BY <1>2, <1>3, <2>2 DEF NextLineInv
<1>7. EofInv'
  BY <1>2, <1>3 DEF EofInv
<1> QED
  BY <1>3, <1>5, <1>6, <1>7 DEF ParserInv, LineInv, TokenInv, InGetLine

\* get_token takes a piece off its line (strsep), and skips white space.
LEMMA PieceIs ==
  ASSUME ParserType, LineInv, NextPiece
  PROVE  \E e, c, start \in Nat :
           /\ Cuts(buffer, line, Separators, buffer', line', e, c)
           /\ next_line # Null => e < next_line
           /\ start \in line..c
           /\ start = c \/ buffer[start] \notin Space
           /\ \A j \in line..(start - 1) : buffer[j] \in Space
           /\ token' = start
           /\ call' = IF start = c THEN "token" ELSE "got_token"
<1>1. PICK c : c = CutAt(buffer, line, Separators)
  OBVIOUS
<1> DEFINE P(i) == /\ i = c \/ buffer[i] \notin Space
                   /\ \A j \in line..(i - 1) : buffer[j] \in Space
<1>2. PICK start : start = CHOOSE i \in line..c : P(i)
  OBVIOUS
<1>3. /\ line' = RestAt(c) /\ buffer' = [buffer EXCEPT ![c] = NUL] /\ token' = start
      /\ call' = IF start = c THEN "token" ELSE "got_token"
  BY <1>1, <1>2 DEF NextPiece
<1>4. PICK e \in Nat : StringAt(buffer, line, e) /\ (next_line # Null => e < next_line)
  BY DEF LineInv, NextPiece, InGetLine
<1>5. PICK D : D = Separators
  OBVIOUS
<1>6. PICK d, rest : d = buffer' /\ rest = line'
  OBVIOUS
<1>7. /\ buffer \in Seq(Chars) /\ c = CutAt(buffer, line, D) /\ IsCut(d, buffer, c)
      /\ rest = IF buffer[c] = NUL THEN Null ELSE c + 1
  BY <1>1, <1>3, <1>5, <1>6 DEF IsCut, RestAt, ParserType
<1>8. Cuts(buffer, line, D, d, rest, e, c)
  BY <1>4, <1>7, Cutting
<1>9. Cuts(buffer, line, Separators, buffer', line', e, c)
  BY <1>5, <1>6, <1>8
<1>10. c \in Nat /\ line \in Nat /\ line <= c
  BY <1>4, <1>8 DEF Cuts, StringAt
<1>11. start \in line..c /\ P(start)
  <2> DEFINE S == {i \in line..c : i = c \/ buffer[i] \notin Space}
  <2>1. S \in SUBSET (line..c) /\ c \in S
    BY <1>10
  <2>2. PICK i \in S : \A j \in S : i <= j
    <3> HIDE DEF S
    <3> QED
      BY <1>10, <2>1, FirstOf
  <2>3. ASSUME NEW j \in line..(i - 1), buffer[j] \notin Space PROVE FALSE
    <3>1. j \in S
      BY <1>10, <2>3
    <3> QED
      BY <1>10, <2>2, <3>1
  <2>4. i \in line..c /\ P(i)
    BY <2>2, <2>3
  <2> HIDE DEF P
  <2> QED
    BY <1>2, <2>4
<1>12. start \in Nat
  BY <1>10, <1>11
<1> QED
  BY <1>3, <1>4, <1>9, <1>10, <1>11, <1>12

LEMMA NextPieceInv == ParserInv /\ NextPiece => ParserInv'
<1> SUFFICES ASSUME ParserInv, NextPiece PROVE ParserInv'
  OBVIOUS
<1>1. /\ ParserType /\ NextLineInv /\ LineInv /\ EofInv /\ buffer \in Seq(Chars)
      /\ call' \in {"token", "got_token"}
      /\ UNCHANGED <<file, position, capacity, allocation, next_line, eof, looking>>
  BY DEF ParserInv, ParserType, NextPiece
<1>2. PICK e, c, start \in Nat :
        /\ Cuts(buffer, line, Separators, buffer', line', e, c)
        /\ next_line # Null => e < next_line
        /\ start \in line..c
        /\ token' = start
  BY <1>1, PieceIs
<1>3. /\ line \in Nat /\ line >= 1 /\ line' \in Nat /\ c \in 1..Len(buffer)
      /\ StringAt(buffer', line, c)
      /\ line' # Null => /\ c < e /\ line' = c + 1 /\ StringAt(buffer', line', e)
  <2>1. PICK D : D = Separators
    OBVIOUS
  <2>2. PICK d, rest : d = buffer' /\ rest = line'
    OBVIOUS
  <2>3. Cuts(buffer, line, D, d, rest, e, c)
    BY <1>2, <2>1, <2>2
  <2>4. /\ line \in Nat /\ line >= 1 /\ rest \in Nat /\ c \in 1..Len(buffer)
        /\ StringAt(d, line, c)
        /\ rest # Null => /\ c < e /\ rest = c + 1 /\ StringAt(d, rest, e)
    BY <1>1, <2>3, CutsIs
  <2> QED
    BY <2>2, <2>4
<1>4. /\ buffer' \in Seq(Chars) /\ Len(buffer') = Len(buffer) /\ c \in line..e
      /\ \A j \in 1..Len(buffer) : buffer'[j] = IF j = c THEN NUL ELSE buffer[j]
  BY <1>2 DEF Cuts
<1>5. ParserType'
  <2>1. call' \in Calls8
    BY <1>1 DEF Calls8
  <2> QED
    BY <1>1, <1>2, <1>3, <1>4, <2>1 DEF ParserType
<1>6. next_line # Null => c < next_line
  BY <1>1, <1>2, <1>4 DEF ParserType
<1>7. NextLineInv'
  <2> SUFFICES ASSUME next_line # Null PROVE \E f \in Nat : StringAt(buffer', next_line, f)
    BY <1>1 DEF NextLineInv
  <2>1. PICK f \in Nat : StringAt(buffer, next_line, f)
    BY <1>1 DEF NextLineInv
  <2>2. PICK d : d = buffer'
    OBVIOUS
  <2>3. StringAt(d, next_line, f)
    BY <1>1, <1>2, <1>4, <1>6, <2>1, <2>2, StringElsewhere
  <2> QED
    BY <2>2, <2>3
<1>8. LineInv'
  <2> SUFFICES ASSUME line' # Null
               PROVE  \E f \in Nat : /\ StringAt(buffer', line', f)
                                     /\ next_line # Null => f < next_line
    BY <1>1 DEF LineInv, InGetLine
  <2> QED
    BY <1>2, <1>3
<1>9. TokenInv'
  <2>1. StringAt(buffer', start, c)
    BY <1>2, <1>3 DEF StringAt
  <2>2. line' # Null => c < line'
    BY <1>3
  <2> QED
    BY <1>1, <1>2, <1>6, <2>1, <2>2 DEF TokenInv
<1> QED
  BY <1>1, <1>5, <1>7, <1>8, <1>9 DEF ParserInv, EofInv

\* parse_number cuts the token, or overwrites the end of it with itself.
LEMMA SlashIs ==
  ASSUME ParserType, TokenInv, call = "got_token"
  PROVE  \E e, c \in Nat :
           /\ \E rest : Cuts(buffer, token, {"/"}, CutSlash, rest, e, c)
           /\ line # Null => e < line
           /\ next_line # Null => e < next_line
<1>1. PICK c : c = CutAt(buffer, token, {"/"})
  OBVIOUS
<1>2. PICK e \in Nat : /\ StringAt(buffer, token, e)
                       /\ line # Null => e < line
                       /\ next_line # Null => e < next_line
  BY DEF TokenInv
<1>3. PICK D : D = {"/"}
  OBVIOUS
<1>4. PICK d, rest : d = CutSlash /\ rest = IF buffer[c] = NUL THEN Null ELSE c + 1
  OBVIOUS
<1>5. buffer \in Seq(Chars) /\ c = CutAt(buffer, token, D) /\ IsCut(d, buffer, c)
  BY <1>1, <1>3, <1>4 DEF IsCut, CutSlash, ParserType
<1>6. Cuts(buffer, token, D, d, rest, e, c)
  BY <1>2, <1>4, <1>5, Cutting
<1>7. Cuts(buffer, token, {"/"}, CutSlash, rest, e, c)
  BY <1>3, <1>4, <1>6
<1>8. c \in Nat
  BY <1>2, <1>6 DEF Cuts, StringAt
<1> QED
  BY <1>2, <1>7, <1>8

LEMMA UseTokenInv ==
  ASSUME ParserInv, call = "got_token", buffer' = buffer \/ buffer' = CutSlash,
         call' \in {"idle", "token"},
         UNCHANGED <<file, position, capacity, allocation, next_line, line, token, eof, looking>>
  PROVE  ParserInv'
<1>1. ParserType /\ NextLineInv /\ LineInv /\ TokenInv /\ EofInv /\ buffer \in Seq(Chars)
  BY DEF ParserInv, ParserType
<1>2. CASE buffer' = buffer
  BY <1>1, <1>2 DEF ParserInv, ParserType, NextLineInv, LineInv, TokenInv, EofInv, InGetLine, Calls8
<1>3. CASE buffer' = CutSlash
  <2>1. PICK e, c \in Nat :
          /\ \E rest : Cuts(buffer, token, {"/"}, buffer', rest, e, c)
          /\ line # Null => e < line
          /\ next_line # Null => e < next_line
    BY <1>1, <1>3, SlashIs
  <2>2. PICK d : d = buffer'
    OBVIOUS
  <2>3. /\ d \in Seq(Chars) /\ Len(d) = Len(buffer) /\ c <= e
        /\ \A j \in 1..Len(buffer) : d[j] = IF j = c THEN NUL ELSE buffer[j]
    BY <2>1, <2>2 DEF Cuts
  <2>4. ASSUME NEW p \in Nat, NEW f, StringAt(buffer, p, f), e < p PROVE StringAt(buffer', p, f)
    <3>1. c < p
      BY <2>1, <2>3, <2>4
    <3>2. StringAt(d, p, f)
      BY <1>1, <2>3, <2>4, <3>1, StringElsewhere
    <3> QED
      BY <2>2, <3>2
  <2>5. ParserType'
    <3>1. call' \in Calls8
      BY DEF Calls8
    <3> QED
      BY <1>1, <2>2, <2>3, <3>1 DEF ParserType
  <2>6. NextLineInv'
    BY <1>1, <2>1, <2>4 DEF NextLineInv, ParserType
  <2>7. LineInv'
    <3> SUFFICES ASSUME line # Null
                 PROVE  \E f \in Nat : /\ StringAt(buffer', line, f)
                                       /\ next_line # Null => f < next_line
      BY DEF LineInv, InGetLine
    <3>1. PICK f \in Nat : StringAt(buffer, line, f) /\ (next_line # Null => f < next_line)
      BY <1>1 DEF LineInv, InGetLine
    <3> QED
      BY <1>1, <2>1, <2>4, <3>1 DEF ParserType
  <2> QED
    BY <1>1, <2>5, <2>6, <2>7 DEF ParserInv, TokenInv, EofInv
<1> QED
  BY <1>2, <1>3

\* main() or a reader calls get_token, or goes on, when nothing is being called.
LEMMA CallsInv ==
  ASSUME ParserInv, ~InGetLine, NEW next \in {"idle", "token"}, Calls(next)
  PROVE  ParserInv'
BY DEF ParserInv, ParserType, NextLineInv, LineInv, TokenInv, EofInv, InGetLine, Calls, Calls8

(***************************************************************************)
(* Where main() is while the parser is called.                             *)
(***************************************************************************)
TokenCalls == {"token", "token_line", "got_token", "no_token"}

CallInv ==
  /\ pc \in {"lines", "first", "compare", "items", "print", "read", "done", "refused", "crashed"}
  /\ pc = "lines" => call \in {"idle", "line", "got_line", "no_line"}
  /\ pc = "first" => call \in TokenCalls
  /\ pc = "items" => IF pending = << >> THEN call = "idle" ELSE call \in TokenCalls
  /\ pc \notin {"lines", "first", "items"} => call = "idle"
  /\ tested \in 1..8
  /\ misled \in BOOLEAN

LEMMA SomeItem == \A i \in 1..7 : SectionItems[Sections[i]] # << >>
<1> SUFFICES ASSUME NEW i \in 1..7 PROVE SectionItems[Sections[i]] # << >>
  OBVIOUS
<1>1. /\ Sections[1] = "V" /\ Sections[2] = "I" /\ Sections[3] = "O" /\ Sections[4] = "C"
      /\ Sections[5] = "R" /\ Sections[6] = "S" /\ Sections[7] = "D"
  BY DEF Sections
<1>2. /\ SectionItems["V"] # << >> /\ SectionItems["I"] # << >> /\ SectionItems["O"] # << >>
      /\ SectionItems["C"] # << >> /\ SectionItems["R"] # << >> /\ SectionItems["S"] # << >>
      /\ SectionItems["D"] # << >>
  BY DEF SectionItems
<1>3. i = 1 \/ i = 2 \/ i = 3 \/ i = 4 \/ i = 5 \/ i = 6 \/ i = 7
  OBVIOUS
<1> QED
  BY <1>1, <1>2, <1>3

\* The name that main() finds first.
LEMMA FirstMatching ==
  ASSUME tested \in 1..8, Matching # {}
  PROVE  Min(Matching) \in Matching /\ Min(Matching) \in tested..7 /\ Min(Matching) \in 1..7
<1>1. Len(Sections) = 7
  BY DEF Sections
<1>2. Matching \in SUBSET (tested..7)
  BY <1>1 DEF Matching
<1>3. PICK M : M = Matching
  OBVIOUS
<1>4. PICK i \in M : \A j \in M : i <= j
  BY <1>2, <1>3, FirstOf
<1>5. Min(M) \in M
  BY <1>4 DEF Min
<1>6. Min(Matching) \in Matching
  BY <1>3, <1>5
<1>7. Min(Matching) \in tested..7
  BY <1>2, <1>6
<1> QED
  BY <1>6, <1>7

LEMMA InitCalls == MainInit /\ ParserInit => CallInv
<1> SUFFICES ASSUME MainInit, ParserInit PROVE CallInv
  OBVIOUS
<1>1. pc = "lines" /\ tested = 1 /\ misled = FALSE
  BY DEF MainInit
<1>2. call = "idle"
  BY DEF ParserInit
<1>3. misled \in BOOLEAN
  BY <1>1
<1>4. tested \in 1..8
  BY <1>1
<1> QED
  BY <1>1, <1>2, <1>3, <1>4 DEF CallInv

LEMMA NextCalls == CallInv /\ [Next]_vars => CallInv'
<1> SUFFICES ASSUME CallInv, [Next]_vars PROVE CallInv'
  OBVIOUS
<1>1. CASE NextLine
  BY <1>1 DEF NextLine, get_line, mainVars, CallInv
<1>2. CASE FirstToken
  BY <1>2 DEF FirstToken, Calls, CallInv, TokenCalls
<1>3. CASE SectionsOver
  BY <1>3 DEF SectionsOver, Calls, CallInv
<1>4. CASE Comment
  BY <1>4 DEF Comment, Calls, CallInv
<1>5. CASE SectionToken
  BY <1>5 DEF SectionToken, Calls, CallInv
<1>6. CASE EnterSection
  <2>1. PICK i : i = Min(Matching)
    OBVIOUS
  <2>2. i \in 1..7
    BY <1>6, <2>1, FirstMatching DEF EnterSection, CallInv
  <2>3. pc' = "items" /\ tested' = i + 1 /\ pending' = SectionItems[Sections[i]]
    BY <1>6, <2>1 DEF EnterSection
  <2>4. pending' # << >>
    BY <2>2, <2>3, SomeItem
  <2>5. call' = "token" /\ misled' \in BOOLEAN
    BY <1>6 DEF EnterSection, Calls
  <2> QED
    BY <2>2, <2>3, <2>4, <2>5 DEF CallInv, TokenCalls
<1>7. CASE NoSection
  BY <1>7 DEF NoSection, parserVars, CallInv
<1>8. CASE Item
  <2>1. /\ call' = IF pending' = << >> THEN "idle" ELSE "token"
        /\ pc = "items" /\ UNCHANGED <<pc, tested, misled>>
    BY <1>8 DEF Item
  <2> QED
    BY <2>1 DEF CallInv, TokenCalls
<1>9. CASE Refuse
  BY <1>9 DEF Refuse, Calls, CallInv
<1>10. CASE SectionRead
  BY <1>10 DEF SectionRead, parserVars, CallInv
<1>11. CASE NoToken
  BY <1>11 DEF NoToken, Calls, CallInv
<1>12. CASE Written
  BY <1>12 DEF Written, parserVars, CallInv
<1>13. CASE Parse
  <2>1. UNCHANGED <<pc, pending, tested, misled>>
    BY <1>13 DEF Parse, mainVars
  <2>2. CASE CutLine
    BY <2>1, <2>2 DEF CutLine, CallInv
  <2>3. CASE Refill
    BY <2>1, <2>3 DEF Refill, CallInv
  <2>4. CASE LeaveGetLine
    BY <2>1, <2>4 DEF LeaveGetLine, CallInv, TokenCalls
  <2>5. CASE NeedLine
    BY <2>1, <2>5 DEF NeedLine, get_line, CallInv, TokenCalls
  <2>6. CASE NextPiece
    BY <2>1, <2>6 DEF NextPiece, CallInv, TokenCalls
  <2> QED
    BY <1>13, <2>2, <2>3, <2>4, <2>5, <2>6 DEF Parse, ParserStep
<1>14. CASE Generate
  BY <1>14 DEF Generate, mainVars, parserVars, CallInv
<1>15. CASE UNCHANGED vars
  BY <1>15 DEF vars, mainVars, parserVars, CallInv
<1> QED
  BY <1>1, <1>2, <1>3, <1>4, <1>5, <1>6, <1>7, <1>8, <1>9, <1>10, <1>11, <1>12, <1>13, <1>14,
     <1>15 DEF Next, MainStep, Terminating

LEMMA NextParser == CallInv /\ ParserInv /\ [Next]_vars => ParserInv'
<1> SUFFICES ASSUME CallInv, ParserInv, [Next]_vars PROVE ParserInv'
  OBVIOUS
<1>1. CASE NextLine
  BY <1>1, GetLineInv DEF NextLine
<1>2. CASE FirstToken
  BY <1>2, CallsInv DEF FirstToken, InGetLine
<1>3. CASE SectionsOver
  BY <1>3, CallsInv DEF SectionsOver, InGetLine
<1>4. CASE Comment
  BY <1>4, CallsInv DEF Comment, InGetLine
<1>5. CASE SectionToken
  BY <1>5, CallsInv DEF SectionToken, InGetLine
<1>6. CASE EnterSection
  BY <1>6, CallsInv DEF EnterSection, InGetLine, CallInv
<1>7. CASE Item
  <2>1. /\ call = "got_token" /\ (buffer' = buffer \/ buffer' = CutSlash)
        /\ call' \in {"idle", "token"}
        /\ UNCHANGED <<file, position, capacity, allocation, next_line, line, token, eof, looking>>
    BY <1>7 DEF Item
  <2> QED
    BY <2>1, UseTokenInv
<1>8. CASE Refuse
  BY <1>8, CallsInv DEF Refuse, InGetLine
<1>9. CASE NoToken
  BY <1>9, CallsInv DEF NoToken, InGetLine
<1>10. CASE Parse
  <2>1. CASE CutLine
    BY <2>1, CutLineInv
  <2>2. CASE Refill
    BY <2>2, RefillInv
  <2>3. CASE LeaveGetLine
    BY <2>3, LeaveGetLineInv
  <2>4. CASE NeedLine
    BY <2>4, GetLineInv DEF NeedLine
  <2>5. CASE NextPiece
    BY <2>5, NextPieceInv
  <2> QED
    BY <1>10, <2>1, <2>2, <2>3, <2>4, <2>5 DEF Parse, ParserStep
<1>11. CASE UNCHANGED parserVars
  BY <1>11 DEF parserVars, ParserInv, ParserType, NextLineInv, LineInv, TokenInv, EofInv, InGetLine
<1> QED
  BY <1>1, <1>2, <1>3, <1>4, <1>5, <1>6, <1>7, <1>8, <1>9, <1>10, <1>11
     DEF Next, MainStep, Generate, NoSection, SectionRead, Written, Terminating, vars

\* However read() cuts a file into chunks, the pointers of the parser are null or point
\* to strings that end in its buffer: its token before what is left of the line, and
\* that before the next line.
THEOREM ParserInvariant == Spec => [](CallInv /\ ParserInv)
<1>1. Init => CallInv /\ ParserInv
  BY InitCalls, InitParser DEF Init
<1>2. CallInv /\ ParserInv /\ [Next]_vars => CallInv' /\ ParserInv'
  BY NextCalls, NextParser
<1> QED
  BY <1>1, <1>2, PTL DEF Spec

(***************************************************************************)
(* The strings of the allocator.                                           *)
(***************************************************************************)
Placed == [at : [buffer : Nat, offset : Nat], text : Seq(Chars)]

\* Strings are in the buffers there are; those in the last one end before its watermark,
\* but for the one it has been added for.
AllocatorInv(a) ==
  /\ a.current_buffer \in Nat \ {0}
  /\ a.current_buffer_watermark \in Nat
  /\ a.strings \in Seq(Placed)
  /\ \A i \in DOMAIN a.strings :
       /\ a.strings[i].at.buffer <= a.current_buffer
       /\ a.strings[i].at.buffer = a.current_buffer =>
            Ends(a, i) < a.current_buffer_watermark \/ StartsBuffer(a, i)
  /\ Apart(a)

LEMMA InitAllocator == AllocatorInv(NewAllocator) /\ Inside(NewAllocator)
<1>1. << >> \in Seq(Placed) /\ DOMAIN << >> = {}
  OBVIOUS
<1>2. /\ NewAllocator.current_buffer = 1 /\ NewAllocator.current_buffer_watermark = 0
      /\ NewAllocator.strings = << >>
  BY DEF NewAllocator
<1> QED
  BY <1>1, <1>2 DEF AllocatorInv, Apart, Inside

LEMMA PlacedBehind ==
  ASSUME NEW a, AllocatorInv(a), NEW text \in Seq(Chars), NEW b, b = get_stable_string(a, text)
  PROVE  /\ AllocatorInv(b)
         /\ Inside(a) /\ Len(text) < ALLOCATOR_SIZE => Inside(b)
<1> DEFINE n == Len(a.strings)
           full == FillsBuffer(a, Len(text) + 1)
           at == Place(a, Len(text) + 1)
<1>1. /\ a.current_buffer \in Nat /\ a.current_buffer > 0 /\ a.current_buffer_watermark \in Nat
      /\ a.strings \in Seq(Placed) /\ n \in Nat /\ DOMAIN a.strings = 1..n
      /\ Len(text) \in Nat /\ ALLOCATOR_SIZE \in Nat /\ ALLOCATOR_SIZE > 0
  BY AllocatorAssumption DEF AllocatorInv
<1>2. /\ b.current_buffer = at.buffer
      /\ b.current_buffer_watermark = IF full THEN 0 ELSE a.current_buffer_watermark + Len(text) + 1
      /\ b.strings = Append(a.strings, [at |-> at, text |-> text])
  <2>1. PICK q : q = Len(text) + 1
    OBVIOUS
  <2>2. b = allocate(a, q, text)
    BY <2>1 DEF get_stable_string
  <2>3. /\ b.current_buffer = Place(a, q).buffer
        /\ b.current_buffer_watermark =
             IF FillsBuffer(a, q) THEN 0 ELSE a.current_buffer_watermark + q
        /\ b.strings = Append(a.strings, [at |-> Place(a, q), text |-> text])
    BY <2>2 DEF allocate
  <2>4. a.current_buffer_watermark + q = a.current_buffer_watermark + Len(text) + 1
    BY <1>1, <2>1
  <2> QED
    BY <2>1, <2>3, <2>4
<1>3. /\ at \in [buffer : Nat, offset : Nat]
      /\ at.buffer = IF full THEN a.current_buffer + 1 ELSE a.current_buffer
      /\ at.offset = IF full THEN 0 ELSE a.current_buffer_watermark
  BY <1>1 DEF Place
<1>4. ~full => a.current_buffer_watermark + Len(text) + 1 < ALLOCATOR_SIZE
  BY <1>1 DEF FillsBuffer
<1> HIDE DEF full, at
<1>5. [at |-> at, text |-> text] \in Placed
  BY <1>3 DEF Placed
<1>6. /\ b.strings \in Seq(Placed) /\ Len(b.strings) = n + 1 /\ DOMAIN b.strings = 1..(n + 1)
      /\ \A i \in 1..n : b.strings[i] = a.strings[i]
      /\ b.strings[n + 1].at = at /\ b.strings[n + 1].text = text
  <2>1. PICK e : e = [at |-> at, text |-> text]
    OBVIOUS
  <2>2. /\ Append(a.strings, e) \in Seq(Placed) /\ Len(Append(a.strings, e)) = n + 1
        /\ \A i \in 1..n : Append(a.strings, e)[i] = a.strings[i]
        /\ Append(a.strings, e)[n + 1] = e
    BY <1>1, <1>5, <2>1, AppendProperties
  <2>3. e.at = at /\ e.text = text
    BY <2>1
  <2> QED
    BY <1>1, <1>2, <2>1, <2>2, <2>3
<1>7. ASSUME NEW i \in 1..n
      PROVE  /\ a.strings[i].at.buffer \in Nat /\ a.strings[i].at.offset \in Nat
             /\ Begins(a, i) \in Nat /\ Ends(a, i) \in Nat
             /\ Begins(b, i) = Begins(a, i) /\ Ends(b, i) = Ends(a, i)
             /\ b.strings[i].at.buffer = a.strings[i].at.buffer
             /\ StartsBuffer(b, i) <=> StartsBuffer(a, i)
             /\ a.strings[i].at.buffer <= a.current_buffer
             /\ a.strings[i].at.buffer = a.current_buffer =>
                  Ends(a, i) < a.current_buffer_watermark \/ StartsBuffer(a, i)
  <2>1. a.strings[i] \in Placed
    BY <1>1
  <2>2. /\ a.strings[i].at.buffer \in Nat /\ a.strings[i].at.offset \in Nat
        /\ Len(a.strings[i].text) \in Nat
    BY <2>1 DEF Placed
  <2>3. b.strings[i] = a.strings[i] /\ \A k \in 1..(i - 1) : b.strings[k] = a.strings[k]
    BY <1>1, <1>6
  <2>4. StartsBuffer(b, i) <=> StartsBuffer(a, i)
    BY <2>3 DEF StartsBuffer
  <2>5. Begins(a, i) \in Nat /\ Ends(a, i) \in Nat /\ Begins(b, i) = Begins(a, i) /\ Ends(b, i) = Ends(a, i)
    BY <2>2, <2>3 DEF Begins, Ends
  <2>6. /\ a.strings[i].at.buffer <= a.current_buffer
        /\ a.strings[i].at.buffer = a.current_buffer =>
             Ends(a, i) < a.current_buffer_watermark \/ StartsBuffer(a, i)
    BY <1>1 DEF AllocatorInv
  <2> QED
    BY <2>2, <2>3, <2>4, <2>5, <2>6
<1>8. Begins(b, n + 1) = at.offset /\ Ends(b, n + 1) = at.offset + Len(text)
  BY <1>6 DEF Begins, Ends
<1>9. full => StartsBuffer(b, n + 1)
  <2> SUFFICES ASSUME full PROVE StartsBuffer(b, n + 1)
    OBVIOUS
  <2>1. b.strings[n + 1].at.buffer = a.current_buffer + 1
    BY <1>3, <1>6
  <2>2. \A k \in 1..n : b.strings[k].at.buffer # a.current_buffer + 1
    BY <1>1, <1>7
  <2>3. (n + 1) - 1 = n /\ a.current_buffer + 1 > 1
    BY <1>1
  <2> QED
    BY <2>1, <2>2, <2>3 DEF StartsBuffer
<1>10. b.current_buffer \in Nat \ {0} /\ b.current_buffer_watermark \in Nat
  BY <1>1, <1>2, <1>3
<1>11. ASSUME NEW i \in 1..(n + 1)
       PROVE  /\ b.strings[i].at.buffer <= b.current_buffer
              /\ b.strings[i].at.buffer = b.current_buffer =>
                   Ends(b, i) < b.current_buffer_watermark \/ StartsBuffer(b, i)
  <2>1. CASE i = n + 1
    <3>1. b.strings[i].at.buffer = b.current_buffer /\ b.current_buffer \in Nat
      BY <1>2, <1>6, <1>10, <2>1
    <3>2. CASE full
      BY <1>9, <2>1, <3>1, <3>2
    <3>3. CASE ~full
      <4>1. Ends(b, i) < b.current_buffer_watermark
        BY <1>1, <1>2, <1>3, <1>8, <2>1, <3>3
      <4> QED
        BY <3>1, <4>1
    <3> QED
      BY <3>2, <3>3
  <2>2. CASE i # n + 1
    <3>1. i \in 1..n
      BY <1>1, <2>2
    <3>2. b.strings[i].at.buffer <= a.current_buffer /\ a.current_buffer <= b.current_buffer
      BY <1>1, <1>2, <1>3, <1>7, <3>1
    <3>3. CASE full
      BY <1>1, <1>2, <1>3, <1>7, <3>1, <3>3, SMTT(30)
    <3>4. CASE ~full
      BY <1>1, <1>2, <1>3, <1>7, <3>1, <3>4
    <3> QED
      BY <3>3, <3>4
  <2> QED
    BY <2>1, <2>2
<1>12. Apart(b)
  <2> SUFFICES ASSUME NEW i \in 1..(n + 1), NEW j \in 1..(n + 1), i < j, Overlap(b, i, j)
               PROVE  StartsBuffer(b, i)
    BY <1>6 DEF Apart
  <2>1. i \in 1..n
    BY <1>1
  <2>2. CASE j = n + 1
    <3>1. a.strings[i].at.buffer = at.buffer /\ at.offset <= Ends(a, i)
      BY <1>6, <1>7, <1>8, <2>1, <2>2 DEF Overlap
    <3>2. ~full
      BY <1>1, <1>3, <1>7, <2>1, <3>1
    <3>3. StartsBuffer(a, i)
      BY <1>1, <1>3, <1>7, <2>1, <3>1, <3>2
    <3> QED
      BY <1>7, <2>1, <3>3
  <2>3. CASE j # n + 1
    <3>1. j \in 1..n
      BY <1>1, <2>3
    <3>2. Overlap(a, i, j)
      BY <1>7, <2>1, <3>1 DEF Overlap
    <3>3. StartsBuffer(a, i)
      BY <1>1, <2>1, <3>1, <3>2 DEF AllocatorInv, Apart
    <3> QED
      BY <1>7, <2>1, <3>3
  <2> QED
    BY <2>2, <2>3
<1>13. ASSUME Inside(a), Len(text) < ALLOCATOR_SIZE PROVE Inside(b)
  <2> SUFFICES ASSUME NEW i \in 1..(n + 1) PROVE Ends(b, i) < ALLOCATOR_SIZE
    BY <1>6 DEF Inside
  <2>1. CASE i = n + 1
    BY <1>1, <1>3, <1>4, <1>8, <1>13, <2>1
  <2>2. CASE i # n + 1
    <3>1. i \in 1..n
      BY <1>1, <2>2
    <3> QED
      BY <1>1, <1>7, <1>13, <3>1 DEF Inside
  <2> QED
    BY <2>1, <2>2
<1> QED
  BY <1>6, <1>10, <1>11, <1>12, <1>13 DEF AllocatorInv

\* What a reader stores, string by string.
IsStored(f, a, texts) ==
  f = [i \in 0..Len(texts) |-> IF i = 0 THEN a ELSE get_stable_string(f[i - 1], texts[i])]

LEMMA StoredIs ==
  ASSUME NEW a, NEW texts \in Seq(Seq(Chars)), Len(texts) <= 2
  PROVE  /\ Len(texts) = 0 => Stored(a, texts) = a
         /\ Len(texts) = 1 => Stored(a, texts) = get_stable_string(a, texts[1])
         /\ Len(texts) = 2 =>
              Stored(a, texts) = get_stable_string(get_stable_string(a, texts[1]), texts[2])
<1> DEFINE n == Len(texts)
           c == CHOOSE f : IsStored(f, a, texts)
           g == get_stable_string(a, texts[1])
           h == get_stable_string(g, texts[2])
<1>1. n \in 0..2
  <2>1. n \in Nat
    BY LenProperties
  <2>2. n <= 2
    OBVIOUS
  <2> HIDE DEF n
  <2> QED
    BY <2>1, <2>2
<1>2. \E f : IsStored(f, a, texts)
  <2> DEFINE f == [i \in 0..n |-> IF i = 0 THEN a ELSE IF i = 1 THEN g ELSE h]
  <2>1. ASSUME NEW i \in 0..n
        PROVE  f[i] = IF i = 0 THEN a ELSE get_stable_string(f[i - 1], texts[i])
    <3>1. CASE i = 0
      BY <3>1
    <3>2. CASE i = 1
      <4>1. 0 \in 0..n /\ i - 1 = 0
        BY <1>1, <3>2
      <4>2. f[i] = g /\ f[i - 1] = a
        BY <3>2, <4>1
      <4> QED
        BY <3>2, <4>2
    <3>3. CASE i = 2
      <4>1. 1 \in 0..n /\ i - 1 = 1
        BY <1>1, <3>3
      <4>2. f[i] = h /\ f[i - 1] = g
        BY <3>3, <4>1
      <4> QED
        BY <3>3, <4>2
    <3> QED
      BY <1>1, <3>1, <3>2, <3>3
  <2>2. IsStored(f, a, texts)
    <3>1. f = [i \in 0..n |-> f[i]]
      OBVIOUS
    <3> HIDE DEF f
    <3>2. f = [i \in 0..n |-> IF i = 0 THEN a ELSE get_stable_string(f[i - 1], texts[i])]
      BY <2>1, <3>1
    <3> QED
      BY <3>2 DEF IsStored
  <2> QED
    BY <2>2
<1>3. IsStored(c, a, texts)
  BY <1>2
<1>4. Stored(a, texts) = c[n]
  BY DEF Stored, IsStored
<1> HIDE DEF c
<1>5. c[0] = a /\ \A i \in 1..n : c[i] = get_stable_string(c[i - 1], texts[i])
  <2>1. \A i \in 0..n : c[i] = IF i = 0 THEN a ELSE get_stable_string(c[i - 1], texts[i])
    BY <1>3 DEF IsStored
  <2>2. 0 \in 0..n /\ \A i \in 1..n : i \in 0..n /\ i # 0
    BY <1>1
  <2> QED
    BY <2>1, <2>2
<1>6. n >= 1 => c[1] = g
  <2>1. n >= 1 => 1 \in 1..n /\ 1 - 1 = 0
    BY <1>1
  <2> QED
    BY <1>5, <2>1
<1>7. n >= 2 => c[2] = h
  <2>1. n >= 2 => 2 \in 1..n /\ 2 - 1 = 1 /\ n >= 1
    BY <1>1
  <2> QED
    BY <1>5, <1>6, <2>1
<1> HIDE DEF g, h
<1>8. ASSUME n = 0 PROVE Stored(a, texts) = a
  BY <1>4, <1>5, <1>8
<1>9. ASSUME n = 1 PROVE Stored(a, texts) = g
  BY <1>4, <1>6, <1>9
<1>10. ASSUME n = 2 PROVE Stored(a, texts) = h
  BY <1>4, <1>7, <1>10
<1> QED
  BY <1>8, <1>9, <1>10 DEF g, h

LEMMA StoredKeeps ==
  ASSUME NEW a, AllocatorInv(a), NEW texts \in Seq(Seq(Chars)), Len(texts) <= 2
  PROVE  /\ AllocatorInv(Stored(a, texts))
         /\ Inside(a) /\ (\A i \in 1..Len(texts) : Len(texts[i]) < ALLOCATOR_SIZE)
              => Inside(Stored(a, texts))
<1>1. Len(texts) = 0 \/ Len(texts) = 1 \/ Len(texts) = 2
  <2>1. PICK n : n = Len(texts)
    OBVIOUS
  <2>2. n \in Nat /\ n <= 2
    BY <2>1, LenProperties
  <2>3. n = 0 \/ n = 1 \/ n = 2
    BY <2>2
  <2> QED
    BY <2>1, <2>3
<1>2. CASE Len(texts) = 0
  <2>1. Stored(a, texts) = a
    BY <1>2, StoredIs
  <2> QED
    BY <2>1
<1>3. ASSUME Len(texts) >= 1
      PROVE  \E g : /\ g = get_stable_string(a, texts[1]) /\ AllocatorInv(g)
                    /\ Inside(a) /\ Len(texts[1]) < ALLOCATOR_SIZE => Inside(g)
  <2>1. texts[1] \in Seq(Chars)
    BY <1>3
  <2> QED
    BY <2>1, PlacedBehind
<1>4. CASE Len(texts) = 1
  <2>1. PICK g : /\ g = get_stable_string(a, texts[1]) /\ AllocatorInv(g)
                 /\ Inside(a) /\ Len(texts[1]) < ALLOCATOR_SIZE => Inside(g)
    BY <1>3, <1>4
  <2>2. Stored(a, texts) = g
    BY <1>4, <2>1, StoredIs
  <2> QED
    BY <1>4, <2>1, <2>2
<1>5. CASE Len(texts) = 2
  <2>1. PICK g : /\ g = get_stable_string(a, texts[1]) /\ AllocatorInv(g)
                 /\ Inside(a) /\ Len(texts[1]) < ALLOCATOR_SIZE => Inside(g)
    BY <1>3, <1>5
  <2>2. texts[2] \in Seq(Chars)
    BY <1>5
  <2>3. PICK h : h = get_stable_string(g, texts[2])
    OBVIOUS
  <2>4. AllocatorInv(h) /\ (Inside(g) /\ Len(texts[2]) < ALLOCATOR_SIZE => Inside(h))
    BY <2>1, <2>2, <2>3, PlacedBehind
  <2>5. Stored(a, texts) = h
    BY <1>5, <2>1, <2>3, StoredIs
  <2> QED
    BY <1>5, <2>1, <2>4, <2>5
<1> QED
  BY <1>1, <1>2, <1>4, <1>5

\* The strings kept of a token are no longer than it.
LEMMA PartsOfWord ==
  ASSUME NEW t \in Seq(Chars), NEW D
  PROVE  /\ Before(t, D) \in Seq(Chars) /\ Len(Before(t, D)) = First(t, D) - 1
         /\ \A i \in 1..(First(t, D) - 1) : Before(t, D)[i] = t[i]
         /\ Behind(t, D) \in Seq(Chars)
         /\ Len(Behind(t, D)) = IF First(t, D) <= Len(t) THEN Len(t) - First(t, D) ELSE 0
         /\ \A i \in 1..(Len(t) - First(t, D)) : Behind(t, D)[i] = t[First(t, D) + i]
<1> DEFINE f == First(t, D)
<1>1. f \in 1..(Len(t) + 1) /\ Len(t) \in Nat
  BY FirstIs
<1> HIDE DEF f
<1>2. /\ \A i \in 1..(f - 1) : t[i] \in Chars
      /\ \A i \in (f + 1)..Len(t) : t[i] \in Chars
  BY <1>1
<1>3. /\ SubSeq(t, 1, f - 1) \in Seq(Chars)
      /\ Len(SubSeq(t, 1, f - 1)) = IF 1 <= f - 1 THEN (f - 1) - 1 + 1 ELSE 0
      /\ \A i \in 1..((f - 1) - 1 + 1) : SubSeq(t, 1, f - 1)[i] = t[1 + i - 1]
  BY <1>1, <1>2, SubSeqProperties
<1>4. /\ SubSeq(t, f + 1, Len(t)) \in Seq(Chars)
      /\ Len(SubSeq(t, f + 1, Len(t))) = IF f + 1 <= Len(t) THEN Len(t) - (f + 1) + 1 ELSE 0
      /\ \A i \in 1..(Len(t) - (f + 1) + 1) : SubSeq(t, f + 1, Len(t))[i] = t[f + 1 + i - 1]
  BY <1>1, <1>2, SubSeqProperties
<1>5. Before(t, D) = SubSeq(t, 1, f - 1) /\ Behind(t, D) = SubSeq(t, f + 1, Len(t))
  BY DEF Before, Behind, f
<1>6. /\ Len(Before(t, D)) = f - 1
      /\ Len(Behind(t, D)) = IF f <= Len(t) THEN Len(t) - f ELSE 0
  BY <1>1, <1>3, <1>4, <1>5
<1>7. (f - 1) - 1 + 1 = f - 1 /\ \A i \in 1..(f - 1) : 1 + i - 1 = i
  BY <1>1
<1>8. Len(t) - (f + 1) + 1 = Len(t) - f /\ \A i \in 1..(Len(t) - f) : f + 1 + i - 1 = f + i
  BY <1>1
<1>9. \A i \in 1..(f - 1) : Before(t, D)[i] = t[i]
  BY <1>3, <1>5, <1>7
<1>10. \A i \in 1..(Len(t) - f) : Behind(t, D)[i] = t[f + i]
  BY <1>4, <1>5, <1>8
<1> QED
  BY <1>3, <1>4, <1>5, <1>6, <1>9, <1>10 DEF f

LEMMA StringsOfIs ==
  ASSUME NEW item, NEW word \in Seq(Chars)
  PROVE  /\ StringsOf(item, word) \in Seq(Seq(Chars)) /\ Len(StringsOf(item, word)) <= 2
         /\ \A i \in 1..Len(StringsOf(item, word)) : Len(StringsOf(item, word)[i]) <= Len(word)
<1>1. PICK D : D = {"/"}
  OBVIOUS
<1>2. PICK front, behind : front = Before(word, D) /\ behind = Behind(word, D)
  OBVIOUS
<1>3. /\ front \in Seq(Chars) /\ Len(front) <= Len(word)
      /\ behind \in Seq(Chars) /\ Len(behind) <= Len(word)
  <2>1. /\ front \in Seq(Chars) /\ Len(front) = First(word, D) - 1
        /\ behind \in Seq(Chars)
        /\ Len(behind) = IF First(word, D) <= Len(word) THEN Len(word) - First(word, D) ELSE 0
    BY <1>2, PartsOfWord
  <2>2. First(word, D) \in 1..(Len(word) + 1) /\ Len(word) \in Nat
    BY FirstIs
  <2> QED
    BY <2>1, <2>2
<1>4. StringsOf(item, word) \in {<< >>, <<word>>, <<front, behind>>}
  BY <1>1, <1>2 DEF StringsOf
<1>5. CASE StringsOf(item, word) = << >>
  BY <1>5
<1>6. CASE StringsOf(item, word) = <<word>>
  BY <1>6
<1>7. CASE StringsOf(item, word) = <<front, behind>>
  BY <1>3, <1>7
<1> QED
  BY <1>4, <1>5, <1>6, <1>7

LEMMA WordType == ParserInv /\ call = "got_token" => Word \in Seq(Chars)
<1> SUFFICES ASSUME ParserInv, call = "got_token" PROVE Word \in Seq(Chars)
  OBVIOUS
<1>1. buffer \in Seq(Chars)
  BY DEF ParserInv, ParserType
<1>2. PICK e \in Nat : StringAt(buffer, token, e)
  BY DEF ParserInv, TokenInv
<1>3. token # Null
  BY <1>2 DEF StringAt, Null
<1> QED
  BY <1>1, <1>2, <1>3, StringIs DEF Word, CString

\* Only Item keeps strings.
LEMMA AllocatorKept == [Next]_vars => Item \/ UNCHANGED allocator
<1> SUFFICES ASSUME [Next]_vars PROVE Item \/ UNCHANGED allocator
  OBVIOUS
<1>1. CASE MainStep
  BY <1>1 DEF MainStep, NextLine, FirstToken, SectionsOver, Comment, SectionToken, EnterSection,
     NoSection, Refuse, SectionRead, NoToken, Written, mainVars
<1>2. CASE Parse \/ Generate \/ Terminating \/ UNCHANGED vars
  BY <1>2 DEF Parse, Generate, Terminating, vars, mainVars
<1> QED
  BY <1>1, <1>2 DEF Next

LEMMA ItemAllocator ==
  ParserInv /\ AllocatorInv(allocator) /\ Item =>
    /\ AllocatorInv(allocator')
    /\ Inside(allocator) /\ Len(Word) < ALLOCATOR_SIZE => Inside(allocator')
<1> SUFFICES ASSUME ParserInv, AllocatorInv(allocator), Item
             PROVE  /\ AllocatorInv(allocator')
                    /\ Inside(allocator) /\ Len(Word) < ALLOCATOR_SIZE => Inside(allocator')
  OBVIOUS
<1>1. PICK w, texts : w = Word /\ texts = StringsOf(pending[1], w)
  OBVIOUS
<1>2. w \in Seq(Chars) /\ Len(w) \in Nat /\ ALLOCATOR_SIZE \in Nat
  <2>1. w \in Seq(Chars)
    BY <1>1, WordType DEF Item
  <2> QED
    BY <2>1, LenProperties, AllocatorAssumption
<1>3. /\ texts \in Seq(Seq(Chars)) /\ Len(texts) <= 2
      /\ \A i \in 1..Len(texts) : Len(texts[i]) <= Len(w)
  BY <1>1, <1>2, StringsOfIs
<1>4. PICK b : b = Stored(allocator, texts)
  OBVIOUS
<1>5. allocator' = b
  BY <1>1, <1>4 DEF Item
<1>6. PICK a : a = allocator
  OBVIOUS
<1>7. /\ AllocatorInv(Stored(a, texts))
      /\ Inside(a) /\ (\A i \in 1..Len(texts) : Len(texts[i]) < ALLOCATOR_SIZE)
           => Inside(Stored(a, texts))
  <2>1. AllocatorInv(a)
    BY <1>6
  <2> QED
    BY <1>3, <2>1, StoredKeeps
<1>8. ASSUME Len(w) < ALLOCATOR_SIZE, NEW i \in 1..Len(texts) PROVE Len(texts[i]) < ALLOCATOR_SIZE
  <2>1. PICK t : t = texts[i]
    OBVIOUS
  <2>2. t \in Seq(Chars)
    BY <1>3, <2>1
  <2>3. Len(t) \in Nat /\ Len(t) <= Len(w)
    BY <1>3, <2>1, <2>2, LenProperties
  <2> QED
    BY <1>2, <1>8, <2>1, <2>3
<1>9. AllocatorInv(b) /\ (Inside(a) /\ Len(w) < ALLOCATOR_SIZE => Inside(b))
  <2>1. b = Stored(a, texts)
    BY <1>4, <1>6
  <2>2. Len(w) < ALLOCATOR_SIZE => \A i \in 1..Len(texts) : Len(texts[i]) < ALLOCATOR_SIZE
    BY <1>8
  <2> QED
    BY <1>7, <2>1, <2>2
<1>10. a = allocator /\ b = allocator' /\ w = Word
  BY <1>1, <1>5, <1>6
<1> QED
  BY <1>9, <1>10

\* What is kept of the tokens stays as it is: only the first string of a buffer behind
\* the first one may be overwritten, which is where allocate() goes wrong.
THEOREM AllocatorInvariant == Spec => []AllocatorInv(allocator)
<1>1. Init => AllocatorInv(allocator)
  <2> SUFFICES ASSUME Init PROVE AllocatorInv(allocator)
    OBVIOUS
  <2>1. allocator = NewAllocator
    BY DEF Init, MainInit
  <2> QED
    BY <2>1, InitAllocator
<1>2. ParserInv /\ AllocatorInv(allocator) /\ [Next]_vars => AllocatorInv(allocator)'
  <2> SUFFICES ASSUME ParserInv, AllocatorInv(allocator), [Next]_vars PROVE AllocatorInv(allocator')
    BY DEF AllocatorInv, Apart, Overlap, Begins, Ends, StartsBuffer
  <2>1. CASE Item
    BY <2>1, ItemAllocator
  <2>2. CASE UNCHANGED allocator
    BY <2>2
  <2> QED
    BY <2>1, <2>2, AllocatorKept
<1> QED
  BY <1>1, <1>2, ParserInvariant, PTL DEF Spec

\* Two strings that are kept share no byte of a buffer, however many words a certificate
\* has, except where allocate() forgets the first string of a later buffer.
THEOREM StoredStringsApart == Spec => []StringsApart
<1>1. AllocatorInv(allocator) => StringsApart
  BY DEF AllocatorInv, StringsApart
<1> QED
  BY <1>1, AllocatorInvariant, PTL

(***************************************************************************)
(* Parts of texts.                                                         *)
(***************************************************************************)
\* The bytes from p on, without the one at q.
Segment(b, p, q) == SubSeq(b, p, q - 1)

LEMMA SegmentIs ==
  ASSUME NEW b \in Seq(Chars), NEW p \in Nat, NEW q \in Nat, 1 <= p, p <= q, q <= Len(b) + 1
  PROVE  /\ Segment(b, p, q) \in Seq(Chars)
         /\ Len(Segment(b, p, q)) = q - p
         /\ \A i \in 1..(q - p) : Segment(b, p, q)[i] = b[p + i - 1]
<1>1. \A i \in p..(q - 1) : b[i] \in Chars
  OBVIOUS
<1>2. /\ SubSeq(b, p, q - 1) \in Seq(Chars)
      /\ Len(SubSeq(b, p, q - 1)) = IF p <= q - 1 THEN (q - 1) - p + 1 ELSE 0
      /\ \A i \in 1..((q - 1) - p + 1) : SubSeq(b, p, q - 1)[i] = b[p + i - 1]
  BY <1>1, SubSeqProperties
<1>3. (q - 1) - p + 1 = q - p
  OBVIOUS
<1>4. Len(SubSeq(b, p, q - 1)) = q - p
  BY <1>2, <1>3
<1> QED
  BY <1>2, <1>3, <1>4 DEF Segment

LEMMA SegmentNone ==
  ASSUME NEW b, NEW p \in Nat
  PROVE  Segment(b, p, p) = << >>
BY SubSeqEmpty DEF Segment

\* Two segments have the same bytes.
Same(b, p, q, d, r, s) ==
  /\ b \in Seq(Chars) /\ d \in Seq(Chars)
  /\ p \in Nat /\ q \in Nat /\ r \in Nat /\ s \in Nat
  /\ 1 <= p /\ p <= q /\ q <= Len(b) + 1
  /\ 1 <= r /\ s <= Len(d) + 1 /\ s - r = q - p
  /\ \A i \in 0..(q - p - 1) : b[p + i] = d[r + i]

LEMMA SegmentSame ==
  ASSUME NEW b, NEW p, NEW q, NEW d, NEW r, NEW s, Same(b, p, q, d, r, s)
  PROVE  Segment(b, p, q) = Segment(d, r, s)
<1> USE DEF Same
<1>1. r <= s
  OBVIOUS
<1>2. /\ Segment(b, p, q) \in Seq(Chars)
      /\ Len(Segment(b, p, q)) = q - p
      /\ \A i \in 1..(q - p) : Segment(b, p, q)[i] = b[p + i - 1]
  BY SegmentIs
<1>3. /\ Segment(d, r, s) \in Seq(Chars)
      /\ Len(Segment(d, r, s)) = s - r
      /\ \A i \in 1..(s - r) : Segment(d, r, s)[i] = d[r + i - 1]
  BY <1>1, SegmentIs
<1>4. ASSUME NEW i \in 1..(q - p) PROVE b[p + i - 1] = d[r + i - 1]
  <2>1. i - 1 \in 0..(q - p - 1) /\ p + (i - 1) = p + i - 1 /\ r + (i - 1) = r + i - 1
    OBVIOUS
  <2> QED
    BY <2>1
<1>5. PICK x, y, n : x = Segment(b, p, q) /\ y = Segment(d, r, s) /\ n = q - p
  OBVIOUS
<1>6. /\ x \in Seq(Chars) /\ y \in Seq(Chars) /\ Len(x) = n /\ Len(y) = n
      /\ \A i \in 1..n : x[i] = y[i]
  BY <1>2, <1>3, <1>4, <1>5
<1>7. x = y
  BY <1>6, SeqEqual
<1> QED
  BY <1>5, <1>7

\* A segment split where a byte of a set is first.
LEMMA SegmentSplit ==
  ASSUME NEW b \in Seq(Chars), NEW p \in Nat, NEW c \in Nat, NEW e \in Nat, NEW D,
         1 <= p, p <= c, c <= e, e <= Len(b) + 1,
         \A j \in p..(c - 1) : b[j] \notin D,
         c < e => b[c] \in D
  PROVE  /\ First(Segment(b, p, e), D) = c - p + 1
         /\ Before(Segment(b, p, e), D) = Segment(b, p, c)
         /\ Behind(Segment(b, p, e), D) = IF c < e THEN Segment(b, c + 1, e) ELSE << >>
<1>1. PICK t : t = Segment(b, p, e)
  OBVIOUS
<1>2. PICK f : f = c - p + 1
  OBVIOUS
<1>3. /\ t \in Seq(Chars) /\ Len(t) = e - p
      /\ \A i \in 1..(e - p) : t[i] = b[p + i - 1]
  <2>1. b \in Seq(Chars) /\ p \in Nat /\ e \in Nat /\ 1 <= p /\ p <= e /\ e <= Len(b) + 1
    OBVIOUS
  <2>2. /\ Segment(b, p, e) \in Seq(Chars)
        /\ Len(Segment(b, p, e)) = e - p
        /\ \A i \in 1..(e - p) : Segment(b, p, e)[i] = b[p + i - 1]
    BY <2>1, SegmentIs, ZenonT(30)
  <2> QED
    BY <1>1, <2>2
<1>4. f \in 1..(Len(t) + 1)
  BY <1>2, <1>3
<1>5. f <= Len(t) => t[f] \in D
  <2> SUFFICES ASSUME f <= Len(t) PROVE t[f] \in D
    OBVIOUS
  <2>1. f \in 1..(e - p) /\ p + f - 1 = c /\ c < e
    BY <1>2, <1>3, <1>4
  <2> QED
    BY <1>3, <2>1
<1>6. \A j \in 1..(f - 1) : t[j] \notin D
  <2> SUFFICES ASSUME NEW j \in 1..(f - 1) PROVE t[j] \notin D
    OBVIOUS
  <2>1. j \in 1..(e - p) /\ p + j - 1 \in p..(c - 1)
    BY <1>2
  <2> QED
    BY <1>3, <2>1
<1>7. First(t, D) = f
  BY <1>3, <1>4, <1>5, <1>6, FirstOnly
<1>8. /\ Before(t, D) \in Seq(Chars) /\ Len(Before(t, D)) = f - 1
      /\ \A i \in 1..(f - 1) : Before(t, D)[i] = t[i]
      /\ Behind(t, D) \in Seq(Chars)
      /\ Len(Behind(t, D)) = IF f <= Len(t) THEN Len(t) - f ELSE 0
      /\ \A i \in 1..(Len(t) - f) : Behind(t, D)[i] = t[f + i]
  <2>1. /\ Before(t, D) \in Seq(Chars) /\ Len(Before(t, D)) = First(t, D) - 1
        /\ \A i \in 1..(First(t, D) - 1) : Before(t, D)[i] = t[i]
        /\ Behind(t, D) \in Seq(Chars)
        /\ Len(Behind(t, D)) = IF First(t, D) <= Len(t) THEN Len(t) - First(t, D) ELSE 0
        /\ \A i \in 1..(Len(t) - First(t, D)) : Behind(t, D)[i] = t[First(t, D) + i]
    BY <1>3, PartsOfWord
  <2> QED
    BY <1>7, <2>1
<1>9. Before(t, D) = Segment(b, p, c)
  <2>1. /\ Segment(b, p, c) \in Seq(Chars) /\ Len(Segment(b, p, c)) = c - p
        /\ \A i \in 1..(c - p) : Segment(b, p, c)[i] = b[p + i - 1]
    <3>1. c <= Len(b) + 1
      OBVIOUS
    <3> QED
      BY <3>1, SegmentIs, ZenonT(30)
  <2>2. f - 1 = c - p /\ \A i \in 1..(f - 1) : i \in 1..(c - p) /\ i \in 1..(e - p)
    BY <1>2
  <2>3. \A i \in 1..(f - 1) : Before(t, D)[i] = Segment(b, p, c)[i]
    BY <1>3, <1>8, <2>1, <2>2
  <2>4. PICK x, y, n : x = Before(t, D) /\ y = Segment(b, p, c) /\ n = f - 1
    OBVIOUS
  <2>5. /\ x \in Seq(Chars) /\ y \in Seq(Chars) /\ Len(x) = n /\ Len(y) = n
        /\ \A i \in 1..n : x[i] = y[i]
    BY <1>8, <2>1, <2>2, <2>3, <2>4
  <2>6. x = y
    BY <2>5, SeqEqual
  <2> QED
    BY <2>4, <2>6
<1>10. Behind(t, D) = IF c < e THEN Segment(b, c + 1, e) ELSE << >>
  <2>1. CASE c < e
    <3>1. /\ Segment(b, c + 1, e) \in Seq(Chars) /\ Len(Segment(b, c + 1, e)) = e - (c + 1)
          /\ \A i \in 1..(e - (c + 1)) : Segment(b, c + 1, e)[i] = b[c + 1 + i - 1]
      <4>1. c + 1 \in Nat /\ 1 <= c + 1 /\ c + 1 <= e
        BY <2>1
      <4> QED
        BY <4>1, SegmentIs, ZenonT(30)
    <3>2. f <= Len(t) /\ Len(t) - f = e - (c + 1)
      BY <1>2, <1>3, <2>1
    <3>3. ASSUME NEW i \in 1..(e - (c + 1)) PROVE t[f + i] = b[c + 1 + i - 1]
      <4>1. f + i \in 1..(e - p) /\ p + (f + i) - 1 = c + 1 + i - 1
        BY <1>2, <2>1
      <4>2. t[f + i] = b[p + (f + i) - 1]
        BY <1>3, <4>1
      <4> QED
        BY <4>1, <4>2
    <3>4. \A i \in 1..(e - (c + 1)) : Behind(t, D)[i] = Segment(b, c + 1, e)[i]
      BY <1>8, <3>1, <3>2, <3>3
    <3>5. Len(Behind(t, D)) = e - (c + 1)
      BY <1>8, <3>2
    <3>6. Behind(t, D) = Segment(b, c + 1, e)
      BY <1>8, <3>1, <3>4, <3>5, SeqEqual
    <3> QED
      BY <2>1, <3>6
  <2>2. CASE ~(c < e)
    <3>1. c = e /\ f = Len(t) + 1
      BY <1>2, <1>3, <2>2
    <3>2. Behind(t, D) = SubSeq(t, f + 1, Len(t))
      BY <1>7 DEF Behind
    <3>3. SubSeq(t, f + 1, Len(t)) = << >>
      <4>1. f + 1 \in Int /\ Len(t) \in Int /\ Len(t) < f + 1
        BY <1>2, <1>3, <3>1
      <4> QED
        BY <4>1, SubSeqEmpty
    <3> QED
      BY <2>2, <3>2, <3>3
  <2> QED
    BY <2>1, <2>2
<1> QED
  BY <1>1, <1>2, <1>7, <1>9, <1>10

\* A segment without the white space it begins with.
LEMMA SegmentTrim ==
  ASSUME NEW b \in Seq(Chars), NEW p \in Nat, NEW s \in Nat, NEW e \in Nat,
         1 <= p, p <= s, s <= e, e <= Len(b) + 1,
         \A j \in p..(s - 1) : b[j] \in Space,
         s = e \/ b[s] \notin Space
  PROVE  Trimmed(Segment(b, p, e)) = Segment(b, s, e)
<1>1. PICK t : t = Segment(b, p, e)
  OBVIOUS
<1>2. PICK i : i = s - p + 1
  OBVIOUS
<1>3. /\ t \in Seq(Chars) /\ Len(t) = e - p
      /\ \A k \in 1..(e - p) : t[k] = b[p + k - 1]
  <2>1. b \in Seq(Chars) /\ p \in Nat /\ e \in Nat /\ 1 <= p /\ p <= e /\ e <= Len(b) + 1
    OBVIOUS
  <2>2. /\ Segment(b, p, e) \in Seq(Chars)
        /\ Len(Segment(b, p, e)) = e - p
        /\ \A k \in 1..(e - p) : Segment(b, p, e)[k] = b[p + k - 1]
    BY <2>1, SegmentIs
  <2> QED
    BY <1>1, <2>2
<1>4. i \in 1..(Len(t) + 1)
  BY <1>2, <1>3
<1>5. i <= Len(t) => t[i] \notin Space
  <2> SUFFICES ASSUME i <= Len(t) PROVE t[i] \notin Space
    OBVIOUS
  <2>1. i \in 1..(e - p) /\ p + i - 1 = s /\ s # e
    BY <1>2, <1>3, <1>4
  <2> QED
    BY <1>3, <2>1
<1>6. \A j \in 1..(i - 1) : t[j] \in Space
  <2> SUFFICES ASSUME NEW j \in 1..(i - 1) PROVE t[j] \in Space
    OBVIOUS
  <2>1. j \in 1..(e - p) /\ p + j - 1 \in p..(s - 1)
    BY <1>2
  <2> QED
    BY <1>3, <2>1
<1>7. Trimmed(t) = SubSeq(t, i, Len(t))
  BY <1>3, <1>4, <1>5, <1>6, TrimmedOnly
<1>8. SubSeq(t, i, Len(t)) = Segment(t, i, Len(t) + 1)
  <2>1. (Len(t) + 1) - 1 = Len(t)
    BY <1>3
  <2> QED
    BY <2>1 DEF Segment
<1>9. Segment(t, i, Len(t) + 1) = Segment(b, s, e)
  <2>2. ASSUME NEW k \in 0..((Len(t) + 1) - i - 1) PROVE t[i + k] = b[s + k]
    <3>1. i + k \in 1..(e - p) /\ p + (i + k) - 1 = s + k
      BY <1>2, <1>3
    <3>2. t[i + k] = b[p + (i + k) - 1]
      BY <1>3, <3>1
    <3> QED
      BY <3>1, <3>2
  <2>3. PICK n : n = Len(t) + 1
    OBVIOUS
  <2>4. /\ i \in Nat /\ n \in Nat /\ 1 <= i /\ i <= n /\ n <= Len(t) + 1
        /\ s \in Nat /\ e \in Nat /\ 1 <= s /\ e <= Len(b) + 1 /\ e - s = n - i
        /\ t \in Seq(Chars) /\ b \in Seq(Chars)
    BY <1>2, <1>3, <1>4, <2>3
  <2>5. \A k \in 0..(n - i - 1) : t[i + k] = b[s + k]
    BY <2>2, <2>3
  <2>7. Same(t, i, n, b, s, e)
    BY <2>4, <2>5 DEF Same
  <2>6. Segment(t, i, n) = Segment(b, s, e)
    BY <2>7, SegmentSame
  <2> QED
    BY <2>3, <2>6
<1> QED
  BY <1>1, <1>7, <1>8, <1>9

LEMMA TrimSkips ==
  ASSUME NEW b \in Seq(Chars), NEW p \in Nat, NEW q \in Nat, NEW e \in Nat,
         1 <= p, p <= q, q <= e, e <= Len(b) + 1,
         \A j \in p..(q - 1) : b[j] \in Space
  PROVE  Trimmed(Segment(b, p, e)) = Trimmed(Segment(b, q, e))
<1> DEFINE S == {s \in q..e : s = e \/ b[s] \notin Space}
<1>1. PICK s \in S : \A j \in S : s <= j
  <2>1. S \in SUBSET (q..e) /\ e \in S
    OBVIOUS
  <2> HIDE DEF S
  <2> QED
    BY <2>1, FirstOf
<1>2. s \in Nat /\ q <= s /\ s <= e /\ (s = e \/ b[s] \notin Space)
  BY <1>1
<1>3. \A j \in q..(s - 1) : b[j] \in Space
  <2> SUFFICES ASSUME NEW j \in q..(s - 1), b[j] \notin Space PROVE FALSE
    OBVIOUS
  <2>1. j \in S /\ j < s
    BY <1>2
  <2> QED
    BY <1>1, <1>2, <2>1
<1>4. \A j \in p..(s - 1) : b[j] \in Space
  <2> SUFFICES ASSUME NEW j \in p..(s - 1) PROVE b[j] \in Space
    OBVIOUS
  <2>1. j \in p..(q - 1) \/ j \in q..(s - 1)
    BY <1>2
  <2> QED
    BY <1>3, <2>1
<1>5. 1 <= q /\ p <= s
  BY <1>2
<1>6. Trimmed(Segment(b, q, e)) = Segment(b, s, e)
  BY <1>2, <1>3, <1>5, SegmentTrim
<1>7. Trimmed(Segment(b, p, e)) = Segment(b, s, e)
  BY <1>2, <1>4, <1>5, SegmentTrim
<1> QED
  BY <1>6, <1>7

\* A text split where its first part is.
LEMMA SplitConcat ==
  ASSUME NEW t \in Seq(Chars), NEW u \in Seq(Chars), NEW D, First(t, D) <= Len(t)
  PROVE  /\ Before(t \o u, D) = Before(t, D)
         /\ Behind(t \o u, D) = Behind(t, D) \o u
<1>1. PICK f, n, m : f = First(t, D) /\ n = Len(t) /\ m = Len(u)
  OBVIOUS
<1>2. /\ n \in Nat /\ m \in Nat /\ f \in 1..n /\ t[f] \in D /\ \A j \in 1..(f - 1) : t[j] \notin D
  <2>1. f \in 1..(Len(t) + 1) /\ (f <= Len(t) => t[f] \in D) /\ \A j \in 1..(f - 1) : t[j] \notin D
    BY <1>1, FirstIs
  <2>2. n \in Nat /\ m \in Nat
    BY <1>1, LenProperties
  <2> QED
    BY <1>1, <2>1, <2>2
<1>3. PICK v : v = t \o u
  OBVIOUS
<1>4. /\ v \in Seq(Chars) /\ Len(v) = n + m
      /\ \A i \in 1..(n + m) : v[i] = IF i <= n THEN t[i] ELSE u[i - n]
  BY <1>1, <1>3, ConcatProperties
<1>5. \A i \in 1..n : v[i] = t[i]
  <2>1. \A i \in 1..n : i \in 1..(n + m) /\ i <= n
    BY <1>2
  <2> QED
    BY <1>4, <2>1
<1>6. First(v, D) = f
  <2>1. f \in 1..(Len(v) + 1) /\ (f <= Len(v) => v[f] \in D)
    BY <1>2, <1>4, <1>5
  <2>2. \A j \in 1..(f - 1) : v[j] \notin D
    BY <1>2, <1>5
  <2> QED
    BY <1>4, <2>1, <2>2, FirstOnly
<1>7. Before(v, D) = SubSeq(v, 1, f - 1) /\ Behind(v, D) = SubSeq(v, f + 1, Len(v))
  BY <1>6 DEF Before, Behind
<1>8. Before(t, D) = SubSeq(t, 1, f - 1) /\ Behind(t, D) = SubSeq(t, f + 1, Len(t))
  BY <1>1 DEF Before, Behind
<1>9. SubSeq(v, 1, f - 1) = SubSeq(t, 1, f - 1)
  <2>1. Segment(v, 1, f) = Segment(t, 1, f)
    <3>1. PICK p : p = 1
      OBVIOUS
    <3>2. /\ p \in Nat /\ f \in Nat /\ 1 <= p /\ p <= f /\ f <= Len(v) + 1 /\ f <= Len(t) + 1
          /\ f - p = f - p /\ v \in Seq(Chars) /\ t \in Seq(Chars)
      BY <1>1, <1>2, <1>4, <3>1
    <3>3. \A i \in 0..(f - p - 1) : p + i \in 1..n
      BY <1>2, <3>1
    <3>4. \A i \in 0..(f - p - 1) : v[p + i] = t[p + i]
      BY <1>5, <3>3
    <3>6. Same(v, p, f, t, p, f)
      BY <3>2, <3>4 DEF Same
    <3>5. Segment(v, p, f) = Segment(t, p, f)
      BY <3>6, SegmentSame
    <3> QED
      BY <3>1, <3>5
  <2> QED
    BY <2>1 DEF Segment
<1>10. SubSeq(v, f + 1, Len(v)) = SubSeq(t, f + 1, Len(t)) \o u
  <2>1. /\ Behind(t, D) \in Seq(Chars) /\ Len(Behind(t, D)) = n - f
        /\ \A i \in 1..(n - f) : Behind(t, D)[i] = t[f + i]
    <3>1. /\ Behind(t, D) \in Seq(Chars)
          /\ Len(Behind(t, D)) = IF First(t, D) <= Len(t) THEN Len(t) - First(t, D) ELSE 0
          /\ \A i \in 1..(Len(t) - First(t, D)) : Behind(t, D)[i] = t[First(t, D) + i]
      BY PartsOfWord
    <3> QED
      BY <1>1, <1>2, <3>1
  <2>2. /\ Behind(v, D) \in Seq(Chars) /\ Len(Behind(v, D)) = n + m - f
        /\ \A i \in 1..(n + m - f) : Behind(v, D)[i] = v[f + i]
    <3>1. /\ Behind(v, D) \in Seq(Chars)
          /\ Len(Behind(v, D)) = IF First(v, D) <= Len(v) THEN Len(v) - First(v, D) ELSE 0
          /\ \A i \in 1..(Len(v) - First(v, D)) : Behind(v, D)[i] = v[First(v, D) + i]
      BY <1>4, PartsOfWord
    <3>2. PICK g, l, k : g = First(v, D) /\ l = Len(v) /\ k = Behind(v, D)
      OBVIOUS
    <3>3. /\ k \in Seq(Chars) /\ Len(k) = IF g <= l THEN l - g ELSE 0
          /\ \A i \in 1..(l - g) : k[i] = v[g + i]
      BY <3>1, <3>2
    <3>4. g = f /\ l = n + m /\ g <= l
      BY <1>2, <1>4, <1>6, <3>2
    <3>5. Len(k) = l - g /\ l - g = n + m - f
      BY <1>2, <3>3, <3>4
    <3>6. \A i \in 1..(n + m - f) : k[i] = v[f + i]
      <4>1. \A i \in 1..(n + m - f) : k[i] = v[g + i]
        BY <3>3, <3>5
      <4> QED
        BY <3>4, <4>1
    <3> QED
      BY <3>2, <3>3, <3>5, <3>6
  <2>3. PICK r : r = Behind(t, D)
    OBVIOUS
  <2>4. /\ r \o u \in Seq(Chars) /\ Len(r \o u) = (n - f) + m
        /\ \A i \in 1..((n - f) + m) : (r \o u)[i] = IF i <= n - f THEN r[i] ELSE u[i - (n - f)]
    <3>1. r \in Seq(Chars) /\ u \in Seq(Chars) /\ Len(r) = n - f /\ Len(u) = m
      BY <1>1, <2>1, <2>3
    <3>2. /\ r \o u \in Seq(Chars) /\ Len(r \o u) = Len(r) + Len(u)
          /\ \A i \in 1..(Len(r) + Len(u)) :
               (r \o u)[i] = IF i <= Len(r) THEN r[i] ELSE u[i - Len(r)]
      BY <3>1, ConcatProperties
    <3> QED
      BY <3>1, <3>2
  <2>5. ASSUME NEW i \in 1..(n + m - f) PROVE v[f + i] = (r \o u)[i]
    <3>1. i \in 1..((n - f) + m) /\ f + i \in 1..(n + m)
      BY <1>2
    <3>2. CASE i <= n - f
      <4>1. f + i <= n /\ i \in 1..(n - f)
        BY <1>2, <3>2
      <4> QED
        BY <1>4, <2>1, <2>3, <2>4, <3>1, <3>2, <4>1
    <3>3. CASE ~(i <= n - f)
      <4>1. ~(f + i <= n) /\ (f + i) - n = i - (n - f)
        BY <1>2, <3>3
      <4> QED
        BY <1>4, <2>4, <3>1, <3>3, <4>1
    <3> QED
      BY <3>2, <3>3
  <2>6. n + m - f = (n - f) + m
    BY <1>2
  <2>7. Behind(v, D) = r \o u
    BY <2>2, <2>4, <2>5, <2>6, SeqEqual
  <2> QED
    BY <1>7, <1>8, <2>3, <2>7
<1> QED
  BY <1>3, <1>7, <1>8, <1>9, <1>10

\* A text without a byte of a set.
LEMMA SplitNone ==
  ASSUME NEW t \in Seq(Chars), NEW D, \A i \in 1..Len(t) : t[i] \notin D
  PROVE  Before(t, D) = t /\ Behind(t, D) = << >>
<1>1. PICK n : n = Len(t)
  OBVIOUS
<1>2. n \in Nat
  BY <1>1, LenProperties
<1>3. First(t, D) = n + 1
  <2>1. n + 1 \in 1..(Len(t) + 1) /\ ~(n + 1 <= Len(t)) /\ (n + 1) - 1 = Len(t)
    BY <1>1, <1>2
  <2> QED
    BY <2>1, FirstOnly
<1>4. Before(t, D) = SubSeq(t, 1, Len(t)) /\ Behind(t, D) = SubSeq(t, n + 2, n)
  <2>1. (n + 1) - 1 = n /\ (n + 1) + 1 = n + 2
    BY <1>2
  <2> QED
    BY <1>1, <1>3, <2>1 DEF Before, Behind
<1>5. SubSeq(t, n + 2, n) = << >>
  <2>1. n + 2 \in Int /\ n \in Int /\ n < n + 2
    BY <1>2
  <2> QED
    BY <2>1, SubSeqEmpty
<1> QED
  BY <1>4, <1>5, SubSeqFull

LEMMA NothingInNone ==
  /\ << >> \in Seq(Chars) /\ Len(<< >>) = 0
  /\ \A D : Before(<< >>, D) = << >> /\ Behind(<< >>, D) = << >>
  /\ Trimmed(<< >>) = << >>
<1>1. PICK t : t = << >>
  OBVIOUS
<1>2. t \in Seq(Chars) /\ Len(t) = 0
  BY <1>1
<1>3. ASSUME NEW D PROVE Before(t, D) = t /\ Behind(t, D) = << >>
  <2>1. \A i \in 1..Len(t) : t[i] \notin D
    BY <1>2
  <2> QED
    BY <1>2, <2>1, SplitNone
<1>4. Trimmed(t) = SubSeq(t, 1, Len(t))
  <2>1. 1 \in 1..(Len(t) + 1) /\ ~(1 <= Len(t)) /\ \A j \in 1..(1 - 1) : t[j] \in Space
    BY <1>2
  <2> QED
    BY <1>2, <2>1, TrimmedOnly
<1> QED
  BY <1>1, <1>2, <1>3, <1>4, SubSeqFull

(***************************************************************************)
(* The stream of tokens.                                                   *)
(***************************************************************************)
StringOf(b, p) == IF p = Null THEN << >> ELSE SubSeq(b, p, CutAt(b, p, {}) - 1)

LEMMA StringOfIs ==
  ASSUME NEW b \in Seq(Chars), NEW p, NEW e, StringAt(b, p, e)
  PROVE  /\ p \in Nat /\ e \in Nat /\ 1 <= p /\ p <= e /\ e <= Len(b)
         /\ StringOf(b, p) = Segment(b, p, e)
         /\ StringOf(b, p) \in Seq(Chars) /\ Len(StringOf(b, p)) = e - p
         /\ \A i \in 1..(e - p) : StringOf(b, p)[i] # NUL /\ StringOf(b, p)[i] = b[p + i - 1]
<1>1. p \in Nat /\ p >= 1 /\ e \in p..Len(b) /\ e \in Nat /\ \A i \in p..(e - 1) : b[i] # NUL
  BY DEF StringAt
<1>2. StringOf(b, p) = Segment(b, p, e)
  <2>1. CutAt(b, p, {}) = e
    BY StringIs
  <2>2. p # Null
    BY <1>1 DEF Null
  <2> QED
    BY <2>1, <2>2 DEF StringOf, Segment
<1>3. /\ SubSeq(b, p, e - 1) \in Seq(Chars) /\ Len(SubSeq(b, p, e - 1)) = e - p
      /\ \A i \in 1..(e - p) : SubSeq(b, p, e - 1)[i] = b[p + i - 1]
  BY StringIs
<1>4. \A i \in 1..(e - p) : p + i - 1 \in p..(e - 1)
  BY <1>1
<1> QED
  BY <1>1, <1>2, <1>3, <1>4 DEF Segment

LEMMA NoString == \A b : StringOf(b, Null) = << >>
BY DEF StringOf

\* What strsep() cuts a string into.
LEMMA CutsSegments ==
  ASSUME NEW b \in Seq(Chars), NEW p, NEW D, NEW d, NEW rest, NEW e, NEW c, Cuts(b, p, D, d, rest, e, c)
  PROVE  /\ StringOf(b, p) = Segment(b, p, e) /\ StringOf(b, p) \in Seq(Chars)
         /\ Len(StringOf(b, p)) = e - p
         /\ First(StringOf(b, p), D) = c - p + 1
         /\ StringOf(d, p) = Segment(b, p, c)
         /\ Before(StringOf(b, p), D) = StringOf(d, p)
         /\ StringOf(d, rest) = IF c < e THEN Segment(b, c + 1, e) ELSE << >>
         /\ Behind(StringOf(b, p), D) = StringOf(d, rest)
<1>1. /\ p \in Nat /\ p >= 1 /\ e \in Nat /\ c \in Nat /\ rest \in Nat /\ c \in 1..Len(b)
      /\ StringAt(d, p, c)
      /\ rest # Null => /\ c < e /\ rest = c + 1 /\ StringAt(d, rest, e)
  BY CutsIs
<1>2. /\ StringAt(b, p, e) /\ c \in p..e
      /\ b[c] \in D \union {NUL} /\ \A j \in p..(c - 1) : b[j] \notin D \union {NUL}
      /\ b[c] = NUL <=> c = e
      /\ d \in Seq(Chars) /\ Len(d) = Len(b)
      /\ \A j \in 1..Len(b) : d[j] = IF j = c THEN NUL ELSE b[j]
      /\ rest = IF c = e THEN Null ELSE c + 1
  BY DEF Cuts
<1>3. /\ StringOf(b, p) = Segment(b, p, e) /\ StringOf(b, p) \in Seq(Chars)
      /\ Len(StringOf(b, p)) = e - p /\ e <= Len(b) /\ Len(b) \in Nat
  BY <1>2, StringOfIs, LenProperties
<1>4. /\ First(Segment(b, p, e), D) = c - p + 1
      /\ Before(Segment(b, p, e), D) = Segment(b, p, c)
      /\ Behind(Segment(b, p, e), D) = IF c < e THEN Segment(b, c + 1, e) ELSE << >>
  <2>1. /\ 1 <= p /\ p <= c /\ c <= e /\ e <= Len(b) + 1
        /\ \A j \in p..(c - 1) : b[j] \notin D
        /\ c < e => b[c] \in D
    BY <1>1, <1>2, <1>3
  <2>2. p \in Nat /\ c \in Nat /\ e \in Nat /\ b \in Seq(Chars)
    BY <1>1
  <2> QED
    BY <2>1, <2>2, SegmentSplit
<1>5. StringOf(d, p) = Segment(b, p, c)
  <2>1. StringOf(d, p) = Segment(d, p, c)
    BY <1>1, <1>2, StringOfIs
  <2>2. \A i \in 0..(c - p - 1) : p + i \in 1..Len(b) /\ p + i # c
    BY <1>1, <1>2
  <2>3. Same(d, p, c, b, p, c)
    BY <1>1, <1>2, <2>2 DEF Same
  <2> QED
    BY <2>1, <2>3, SegmentSame
<1>6. StringOf(d, rest) = IF c < e THEN Segment(b, c + 1, e) ELSE << >>
  <2>1. CASE c = e
    <3>1. rest = Null /\ ~(c < e)
      BY <1>1, <1>2, <2>1
    <3> QED
      BY <3>1, NoString
  <2>2. CASE c # e
    <3>1. rest = c + 1 /\ c < e /\ StringAt(d, rest, e)
      BY <1>1, <1>2, <2>2 DEF Null
    <3>2. StringOf(d, rest) = Segment(d, rest, e)
      BY <1>2, <3>1, StringOfIs
    <3>3. \A i \in 0..(e - rest - 1) : rest + i \in 1..Len(b) /\ rest + i # c
      BY <1>1, <1>2, <1>3, <3>1, SMTT(30)
    <3>4. Same(d, rest, e, b, rest, e)
      BY <1>1, <1>2, <1>3, <3>1, <3>3 DEF Same
    <3>5. Segment(d, rest, e) = Segment(b, rest, e)
      BY <3>4, SegmentSame
    <3> QED
      BY <3>1, <3>2, <3>5
  <2> QED
    BY <2>1, <2>2
<1> QED
  BY <1>3, <1>4, <1>5, <1>6

NL == {"\n"}

\* What module TokenStream is about, and the names it gives it.
asked == call \in {"token", "token_line"}

StreamVars == <<StreamInput, StreamLine, StreamToken, asked>>

LEMMA UnreadIs ==
  ASSUME ParserType
  PROVE  /\ Unread = Segment(file, position + 1, Len(file) + 1)
         /\ Unread \in Seq(Chars) /\ Len(Unread) = Len(file) - position
         /\ file \in Seq(Chars) /\ Len(file) \in Nat /\ position \in 0..Len(file)
<1>1. file \in Seq(Chars) /\ Len(file) \in Nat /\ position \in 0..Len(file)
  BY TextsType DEF ParserType
<1>2. PICK q : q = Len(file) + 1
  OBVIOUS
<1>3. /\ position + 1 \in Nat /\ q \in Nat /\ 1 <= position + 1 /\ position + 1 <= q
      /\ q <= Len(file) + 1 /\ q - 1 = Len(file) /\ q - (position + 1) = Len(file) - position
  BY <1>1, <1>2
<1>4. /\ Segment(file, position + 1, q) \in Seq(Chars)
      /\ Len(Segment(file, position + 1, q)) = q - (position + 1)
  BY <1>1, <1>3, SegmentIs
<1>5. Unread = Segment(file, position + 1, q)
  BY <1>3 DEF Unread, Segment
<1> QED
  BY <1>1, <1>2, <1>3, <1>4, <1>5

LEMMA CutLineMaps == ParserInv /\ CutLine => UNCHANGED StreamVars /\ (NoneAhead' <=> NoneAhead)
<1> SUFFICES ASSUME ParserInv, CutLine PROVE UNCHANGED StreamVars /\ (NoneAhead' <=> NoneAhead)
  OBVIOUS
<1>1. /\ InGetLine /\ looking /\ ~looking' /\ call' = call /\ file' = file /\ position' = position
      /\ ParserType /\ NextLineInv /\ buffer \in Seq(Chars)
  BY DEF CutLine, ParserInv, ParserType
<1>2. StreamToken = << >> /\ StreamToken' = << >> /\ asked' = asked
  BY <1>1 DEF StreamToken, asked, InGetLine
<1>3. PICK u : u = Unread
  OBVIOUS
<1>4. Unread' = u
  BY <1>1, <1>3 DEF Unread
<1>5. /\ Unfinished /\ Ahead = StringOf(buffer, next_line) \o u
      /\ StreamInput = Behind(Ahead, NL) /\ StreamLine = Trimmed(Before(Ahead, NL))
  BY <1>1, <1>3 DEF Unfinished, Ahead, CString, StringOf, StreamInput, StreamLine, NL
<1>6. ASSUME next_line' = Null, StringOf(buffer', line') = StringOf(buffer, next_line)
      PROVE  UNCHANGED <<StreamInput, StreamLine>> /\ (NoneAhead' <=> NoneAhead)
  <2>1. Unfinished' /\ Ahead' = StringOf(buffer', line') \o u
    BY <1>1, <1>4, <1>6 DEF Unfinished, Ahead, CString, StringOf, InGetLine
  <2>2. Ahead' = Ahead
    BY <1>5, <1>6, <2>1
  <2>3. StreamInput' = Behind(Ahead', NL) /\ StreamLine' = Trimmed(Before(Ahead', NL))
    BY <2>1 DEF StreamInput, StreamLine, NL
  <2> QED
    BY <1>5, <2>1, <2>2, <2>3 DEF NoneAhead
<1>7. CASE next_line = Null
  <2>1. next_line' = Null /\ line' = Null
    BY <1>7 DEF CutLine
  <2> QED
    BY <1>2, <1>6, <1>7, <2>1, NoString DEF StreamVars
<1>8. CASE next_line # Null
  <2>1. PICK e, c \in Nat : Cuts(buffer, next_line, {"\n"}, buffer', next_line', e, c)
    BY <1>1, <1>8, CutLineIs
  <2>2. line' = next_line
    BY <1>1, <1>8, CutLineIs
  <2>3. PICK b, d, p, rest : b = buffer /\ d = buffer' /\ p = next_line /\ rest = next_line'
    OBVIOUS
  <2>4. b \in Seq(Chars) /\ Cuts(b, p, NL, d, rest, e, c)
    BY <1>1, <2>1, <2>3 DEF NL
  <2>5. PICK s : s = StringOf(b, p)
    OBVIOUS
  <2>6. /\ s = Segment(b, p, e) /\ s \in Seq(Chars)
        /\ Len(s) = e - p
        /\ First(s, NL) = c - p + 1
        /\ StringOf(d, p) = Segment(b, p, c)
        /\ Before(s, NL) = StringOf(d, p)
        /\ Behind(s, NL) = StringOf(d, rest)
    BY <2>4, <2>5, CutsSegments
  <2>7. p \in Nat /\ c \in p..e /\ rest = IF c = e THEN Null ELSE c + 1
    BY <2>4 DEF Cuts, StringAt
  <2>8. CASE c = e
    <3>1. next_line' = Null /\ StringOf(buffer', line') = StringOf(buffer, next_line)
      BY <2>2, <2>3, <2>5, <2>6, <2>7, <2>8
    <3> QED
      BY <1>2, <1>6, <3>1 DEF StreamVars
  <2>9. CASE c # e
    <3>1. next_line' # Null
      BY <2>3, <2>7, <2>9 DEF Null
    <3>2. /\ ~Unfinished' /\ Ahead' = StringOf(d, rest) \o u
          /\ StreamInput' = Ahead' /\ StreamLine' = Trimmed(StringOf(d, p))
      BY <1>1, <1>4, <2>2, <2>3, <3>1
         DEF Unfinished, Ahead, CString, StringOf, StreamInput, StreamLine
    <3>3. u \in Seq(Chars)
      BY <1>1, <1>3, UnreadIs
    <3>4. First(s, NL) <= Len(s)
      BY <2>6, <2>7, <2>9
    <3>5. Before(s \o u, NL) = Before(s, NL) /\ Behind(s \o u, NL) = Behind(s, NL) \o u
      BY <2>6, <3>3, <3>4, SplitConcat
    <3>6. Ahead = s \o u
      BY <1>5, <2>3, <2>5
    <3>7. ~NoneAhead /\ ~NoneAhead'
      <4>1. Len(s) > 0 /\ Len(u) \in Nat
        BY <1>1, <1>3, <2>6, <2>7, <2>9, UnreadIs
      <4>2. Len(s \o u) = Len(s) + Len(u)
        BY <2>6, <3>3, ConcatProperties
      <4>3. s \o u # << >>
        BY <2>6, <4>1, <4>2, NothingInNone
      <4> QED
        BY <3>2, <3>6, <4>3 DEF NoneAhead
    <3> QED
      BY <1>2, <1>5, <2>6, <3>2, <3>5, <3>6, <3>7 DEF StreamVars
  <2> QED
    BY <2>8, <2>9
<1> QED
  BY <1>7, <1>8

\* The hypothesis of what follows: a certificate is a text, in which no string ends.
NoNul == \A text \in Texts : \A i \in 1..Len(text) : text[i] # NUL

\* The line that has been begun and the bytes read behind it are one string.
LEMMA RefillMaps == NoNul /\ ParserInv /\ Refill =>
        UNCHANGED StreamVars /\ (NoneAhead' <=> NoneAhead)
<1> SUFFICES ASSUME NoNul, ParserInv, Refill 
             PROVE  UNCHANGED StreamVars /\ (NoneAhead' <=> NoneAhead)
  OBVIOUS
<1>1. /\ InGetLine /\ ~looking /\ looking' /\ call' = call /\ file' = file
      /\ next_line = Null /\ next_line' = 1
      /\ ParserType /\ LineInv /\ buffer \in Seq(Chars)
  BY DEF Refill, ParserInv, ParserType
<1>2. StreamToken = << >> /\ StreamToken' = << >> /\ asked' = asked
  BY <1>1 DEF StreamToken, asked, InGetLine
<1>3. PICK s, u, m : s = CString(line) /\ u = Unread /\ m = Len(s)
  OBVIOUS
<1>4. /\ Unfinished /\ Ahead = s \o u
      /\ StreamInput = Behind(Ahead, NL) /\ StreamLine = Trimmed(Before(Ahead, NL))
  BY <1>1, <1>3 DEF Unfinished, Ahead, StreamInput, StreamLine, NL
<1>5. /\ Unfinished' /\ Ahead' = StringOf(buffer', next_line') \o Unread'
      /\ StreamInput' = Behind(Ahead', NL) /\ StreamLine' = Trimmed(Before(Ahead', NL))
  BY <1>1 DEF Unfinished, Ahead, StreamInput, StreamLine, NL, InGetLine, CString, StringOf
<1>6. PICK n \in 0..(Len(file) - position) :
        /\ m \in Nat
        /\ position' = position + n
        /\ buffer' \in Seq(Chars) /\ m + n + 1 <= Len(buffer')
        /\ \A i \in 1..m : buffer'[i] = s[i]
        /\ \A i \in 1..n : buffer'[m + i] = file[position + i]
        /\ buffer'[m + n + 1] = NUL
  BY <1>3, RefillIs
<1>7. /\ u = Segment(file, position + 1, Len(file) + 1)
      /\ u \in Seq(Chars) /\ Len(u) = Len(file) - position
      /\ file \in Seq(Chars) /\ Len(file) \in Nat /\ position \in 0..Len(file)
  BY <1>1, <1>3, UnreadIs
<1>8. s \in Seq(Chars) /\ \A i \in 1..m : s[i] # NUL
  <2>1. CASE line = Null
    <3>1. s = << >> /\ m = 0
      BY <1>3, <2>1 DEF CString
    <3> QED
      BY <3>1
  <2>2. CASE line # Null
    <3>1. PICK e \in Nat : StringAt(buffer, line, e)
      BY <1>1, <2>2 DEF LineInv
    <3>2. s = StringOf(buffer, line)
      BY <1>3 DEF CString, StringOf
    <3>3. PICK b, p : b = buffer /\ p = line
      OBVIOUS
    <3>4. /\ StringOf(b, p) \in Seq(Chars) /\ Len(StringOf(b, p)) = e - p
          /\ \A i \in 1..(e - p) : StringOf(b, p)[i] # NUL
      BY <1>1, <3>1, <3>3, StringOfIs
    <3>5. s = StringOf(b, p)
      BY <3>2, <3>3
    <3> QED
      BY <1>3, <3>4, <3>5
  <2> QED
    BY <2>1, <2>2
<1>9. \A i \in 1..Len(file) : file[i] # NUL
  BY <1>1 DEF NoNul, ParserType
<1>10. PICK d, e : d = buffer' /\ e = m + n + 1
  OBVIOUS
<1>11. e \in Nat /\ d \in Seq(Chars) /\ e <= Len(d) /\ Len(d) \in Nat /\ n \in Nat
  BY <1>6, <1>7, <1>10, LenProperties
<1>12. StringAt(d, 1, e)
  <2>1. e \in 1..Len(d) /\ d[e] = NUL
    BY <1>6, <1>10, <1>11
  <2>2. ASSUME NEW i \in 1..(e - 1) PROVE d[i] # NUL
    <3>1. CASE i <= m
      <4>1. i \in 1..m
        BY <3>1
      <4> QED
        BY <1>6, <1>8, <1>10, <4>1
    <3>2. CASE ~(i <= m)
      <4>1. i - m \in 1..n /\ m + (i - m) = i
        BY <1>6, <1>10, <1>11, <3>2
      <4>2. position + (i - m) \in 1..Len(file)
        BY <1>6, <1>7, <4>1
      <4> QED
        BY <1>6, <1>9, <1>10, <4>1, <4>2
    <3> QED
      BY <3>1, <3>2
  <2> QED
    BY <2>1, <2>2 DEF StringAt
<1> DEFINE chunk == Segment(file, position + 1, position + n + 1)
           rest == Segment(file, position + n + 1, Len(file) + 1)
<1>13. /\ chunk \in Seq(Chars) /\ Len(chunk) = n
       /\ \A i \in 1..n : chunk[i] = file[position + i]
  <2>1. PICK q, r : q = position + 1 /\ r = position + n + 1
    OBVIOUS
  <2>2. q \in Nat /\ r \in Nat /\ 1 <= q /\ q <= r /\ r <= Len(file) + 1 /\ r - q = n
    BY <1>6, <1>7, <2>1
  <2>3. /\ Segment(file, q, r) \in Seq(Chars) /\ Len(Segment(file, q, r)) = r - q
        /\ \A i \in 1..(r - q) : Segment(file, q, r)[i] = file[q + i - 1]
    BY <1>7, <2>2, SegmentIs
  <2>4. \A i \in 1..n : q + i - 1 = position + i
    BY <1>7, <2>1
  <2>5. chunk = Segment(file, q, r)
    BY <2>1
  <2> QED
    BY <2>2, <2>3, <2>4, <2>5
<1>14. StringOf(buffer', next_line') = s \o chunk
  <2>1. PICK t : t = StringOf(d, 1)
    OBVIOUS
  <2>2. t \in Seq(Chars) /\ Len(t) = e - 1 /\ \A i \in 1..(e - 1) : t[i] = d[1 + i - 1]
    BY <1>11, <1>12, <2>1, StringOfIs
  <2>3. e - 1 = m + n /\ \A i \in 1..(m + n) : 1 + i - 1 = i
    BY <1>6, <1>10, <1>11
  <2>4. t \in Seq(Chars) /\ Len(t) = m + n /\ \A i \in 1..(m + n) : t[i] = d[i]
    BY <2>2, <2>3
  <2> HIDE DEF chunk
  <2>5. PICK v : v = s \o chunk
    OBVIOUS
  <2>6. /\ v \in Seq(Chars) /\ Len(v) = m + n
        /\ \A i \in 1..(m + n) : v[i] = IF i <= m THEN s[i] ELSE chunk[i - m]
    <3>1. /\ s \o chunk \in Seq(Chars) /\ Len(s \o chunk) = Len(s) + Len(chunk)
          /\ \A i \in 1..(Len(s) + Len(chunk)) :
               (s \o chunk)[i] = IF i <= Len(s) THEN s[i] ELSE chunk[i - Len(s)]
      BY <1>8, <1>13, ConcatProperties
    <3> QED
      BY <1>3, <1>13, <2>5, <3>1
  <2>7. ASSUME NEW i \in 1..(m + n) PROVE t[i] = v[i]
    <3>1. CASE i <= m
      <4>1. i \in 1..m
        BY <3>1
      <4> QED
        BY <1>6, <1>10, <2>4, <2>6, <3>1, <4>1
    <3>2. CASE ~(i <= m)
      <4>1. i - m \in 1..n /\ m + (i - m) = i
        BY <1>6, <1>11, <3>2
      <4>2. d[i] = chunk[i - m]
        BY <1>6, <1>10, <1>13, <4>1
      <4> QED
        BY <2>4, <2>6, <3>2, <4>2
    <3> QED
      BY <3>1, <3>2
  <2>8. t = v
    BY <2>4, <2>6, <2>7, SeqEqual
  <2> QED
    BY <1>1, <1>10, <2>1, <2>5, <2>8
<1>15. Unread' = rest /\ rest \in Seq(Chars)
  <2>1. PICK q, r : q = position + n + 1 /\ r = Len(file) + 1
    OBVIOUS
  <2>2. /\ q \in Nat /\ r \in Nat /\ 1 <= q /\ q <= r /\ r <= Len(file) + 1 /\ r - 1 = Len(file)
    BY <1>6, <1>7, <2>1
  <2>3. Segment(file, q, r) \in Seq(Chars)
    BY <1>7, <2>2, SegmentIs
  <2>4. Unread' = SubSeq(file, q, r - 1)
    BY <1>1, <1>6, <2>1, <2>2 DEF Unread
  <2> QED
    BY <2>1, <2>3, <2>4 DEF Segment
<1>16. chunk \o rest = u
  <2>1. PICK q, k, l : q = position + 1 /\ k = position + n /\ l = Len(file)
    OBVIOUS
  <2>2. q \in 1..(Len(file) + 1) /\ k \in (q - 1)..Len(file) /\ l \in k..Len(file)
    BY <1>6, <1>7, <2>1
  <2>3. SubSeq(file, q, k) \o SubSeq(file, k + 1, l) = SubSeq(file, q, l)
    BY <1>7, <2>2, ConcatAdjacentSubSeq
  <2>4. (position + n + 1) - 1 = k /\ position + n + 1 = k + 1 /\ (Len(file) + 1) - 1 = l
    BY <1>6, <1>7, <2>1
  <2> QED
    BY <1>7, <2>1, <2>3, <2>4 DEF Segment
<1> HIDE DEF chunk, rest
<1>17. (s \o chunk) \o rest = s \o (chunk \o rest)
  BY <1>8, <1>13, <1>15, ConcatAssociative, SMTT(30)
<1>18. Ahead' = Ahead
  BY <1>4, <1>5, <1>14, <1>15, <1>16, <1>17
<1> QED
  BY <1>2, <1>4, <1>5, <1>18 DEF StreamVars, NoneAhead

(***************************************************************************)
(* The steps of the stream, in the variables it is mapped to.              *)
(***************************************************************************)
TakesLine == StreamLine' = Trimmed(Before(StreamInput, NL)) /\ StreamInput' = Behind(StreamInput, NL)

GetsLine == ~asked /\ TakesLine /\ StreamToken' = << >> /\ UNCHANGED asked

Asks == ~asked /\ asked' /\ StreamToken' = << >> /\ UNCHANGED <<StreamInput, StreamLine>>

SkipsLine == /\ asked /\ StreamLine = << >> /\ StreamInput # << >>
             /\ TakesLine
             /\ UNCHANGED <<StreamToken, asked>>

GivesToken == /\ asked /\ StreamLine # << >>
              /\ StreamToken' = Before(StreamLine, Separators)
              /\ StreamLine' = Trimmed(Behind(StreamLine, Separators))
              /\ ~asked'
              /\ UNCHANGED StreamInput

EndsFile == /\ asked /\ StreamLine = << >> /\ StreamInput = << >>
            /\ ~asked'
            /\ UNCHANGED <<StreamInput, StreamLine, StreamToken>>

Forgets == ~asked /\ StreamToken' = << >> /\ UNCHANGED <<StreamInput, StreamLine, asked>>

StreamStep == GetsLine \/ Asks \/ SkipsLine \/ GivesToken \/ EndsFile \/ Forgets \/ UNCHANGED StreamVars

\* Nothing is missing at the end of the file: get_line returns what is left of it.
LEMMA LeaveGetLineMaps == ParserInv /\ LeaveGetLine => EndsFile \/ UNCHANGED StreamVars
<1> SUFFICES ASSUME ParserInv, LeaveGetLine PROVE EndsFile \/ UNCHANGED StreamVars
  OBVIOUS
<1>1. /\ InGetLine /\ ~looking /\ (next_line # Null \/ eof)
      /\ UNCHANGED <<file, position, buffer, next_line, token, looking>>
      /\ ParserType /\ LineInv /\ EofInv /\ buffer \in Seq(Chars)
      /\ call' \in {"got_line", "no_line", "token", "no_token"}
  BY DEF LeaveGetLine, ParserInv, ParserType
<1>2. StreamToken = << >> /\ StreamToken' = << >>
  BY <1>1 DEF StreamToken, InGetLine
<1>3. ~Unfinished' /\ StreamInput' = CString(next_line) \o Unread /\ StreamLine' = Trimmed(CString(line)')
  BY <1>1 DEF Unfinished, InGetLine, StreamInput, StreamLine, Ahead, CString, Unread
<1>4. CASE next_line # Null
  <2>1. ~Unfinished /\ StreamInput = CString(next_line) \o Unread /\ StreamLine = Trimmed(CString(line))
    BY <1>1, <1>4 DEF Unfinished, StreamInput, StreamLine, Ahead
  <2>2. line' = line /\ asked' = asked
    BY <1>4 DEF LeaveGetLine, asked
  <2>3. CString(line)' = CString(line)
    BY <1>1, <2>2 DEF CString
  <2> QED
    BY <1>2, <1>3, <2>1, <2>2, <2>3 DEF StreamVars
<1>5. CASE next_line = Null
  <2>1. PICK s : s = CString(line)
    OBVIOUS
  <2>2. Unread = << >>
    <3>1. eof /\ position = Len(file)
      BY <1>1, <1>5 DEF EofInv
    <3>2. position + 1 \in Int /\ Len(file) \in Int /\ Len(file) < position + 1
      BY <1>1, <3>1, UnreadIs
    <3> QED
      BY <3>2, SubSeqEmpty DEF Unread
  <2>3. s \in Seq(Chars) /\ (\A i \in 1..Len(s) : s[i] \notin NL)
    <3>1. CASE line = Null
      <4>1. s = << >>
        BY <2>1, <3>1 DEF CString
      <4> QED
        BY <4>1
    <3>2. CASE line # Null
      <4>1. PICK e \in Nat : StringAt(buffer, line, e) /\ \A i \in line..(e - 1) : buffer[i] # "\n"
        BY <1>1, <1>5, <3>2 DEF LineInv
      <4>2. PICK b, p : b = buffer /\ p = line
        OBVIOUS
      <4>3. /\ StringOf(b, p) \in Seq(Chars) /\ Len(StringOf(b, p)) = e - p
            /\ \A i \in 1..(e - p) : StringOf(b, p)[i] = b[p + i - 1]
            /\ p \in Nat
        BY <1>1, <4>1, <4>2, StringOfIs
      <4>4. s = StringOf(b, p)
        BY <2>1, <4>2 DEF CString, StringOf
      <4>5. \A i \in 1..(e - p) : p + i - 1 \in p..(e - 1)
        BY <4>3
      <4>6. \A i \in 1..(e - p) : b[p + i - 1] # "\n"
        BY <4>1, <4>2, <4>5
      <4> QED
        BY <4>3, <4>4, <4>6 DEF NL
    <3> QED
      BY <3>1, <3>2
  <2>4. Before(s, NL) = s /\ Behind(s, NL) = << >>
    BY <2>3, SplitNone
  <2>5. s \o << >> = s /\ CString(next_line) = << >> /\ << >> \o << >> = << >>
    BY <1>5, <2>3, ConcatEmptySeq, NothingInNone DEF CString
  <2>6. Unfinished /\ Ahead = s
    BY <1>1, <1>5, <2>1, <2>2, <2>5 DEF Unfinished, Ahead
  <2>7. StreamInput = << >> /\ StreamLine = Trimmed(s) /\ StreamInput' = << >>
    BY <1>3, <2>2, <2>4, <2>5, <2>6 DEF StreamInput, StreamLine, NL
  <2>8. CASE line' = line
    <3>1. CString(line)' = s
      BY <1>1, <2>1, <2>8 DEF CString
    <3>2. CASE asked' = asked
      BY <1>2, <1>3, <2>7, <3>1, <3>2 DEF StreamVars
    <3>3. CASE asked' # asked
      <4>1. asked /\ ~asked' /\ s = << >>
        BY <1>1, <1>5, <2>1, <3>3 DEF LeaveGetLine, asked, InGetLine
      <4> QED
        BY <1>2, <1>3, <2>7, <3>1, <4>1, NothingInNone DEF EndsFile
    <3> QED
      BY <3>2, <3>3
  <2>9. CASE line' # line
    <3>1. asked /\ ~asked' /\ s = << >> /\ line' = Null
      BY <1>1, <1>5, <2>1, <2>9 DEF LeaveGetLine, asked, InGetLine
    <3>2. CString(line)' = << >>
      BY <3>1 DEF CString
    <3> QED
      BY <1>2, <1>3, <2>7, <3>1, <3>2, NothingInNone DEF EndsFile
  <2> QED
    BY <2>8, <2>9
<1> QED
  BY <1>4, <1>5

\* get_line is called from where no line has been begun.
LEMMA GetLineMaps ==
  ASSUME ParserInv, ~InGetLine, NEW caller \in {"line", "token_line"}, get_line(caller)
  PROVE  TakesLine /\ StreamToken' = << >>
<1>1. /\ call' = caller /\ looking'
      /\ UNCHANGED <<file, position, buffer, next_line, line, token>>
  BY DEF get_line
<1>2. StreamInput = CString(next_line) \o Unread
  BY DEF StreamInput, Unfinished, Ahead
<1>3. Unfinished' /\ Ahead' = CString(next_line) \o Unread
  BY <1>1 DEF Unfinished, InGetLine, Ahead, CString, Unread
<1>4. StreamInput' = Behind(Ahead', NL) /\ StreamLine' = Trimmed(Before(Ahead', NL))
  BY <1>3 DEF StreamInput, StreamLine, NL
<1>5. StreamToken' = << >>
  BY <1>1 DEF StreamToken
<1> QED
  BY <1>2, <1>3, <1>4, <1>5 DEF TakesLine

LEMMA NeedLineMaps == ParserInv /\ NeedLine => SkipsLine \/ UNCHANGED StreamVars
<1> SUFFICES ASSUME ParserInv, NeedLine PROVE SkipsLine \/ UNCHANGED StreamVars
  OBVIOUS
<1>1. call = "token" /\ call' = "token_line" /\ line = Null /\ get_line("token_line")
  BY DEF NeedLine, get_line
<1>2. asked /\ asked' = asked /\ StreamToken = << >> /\ ~InGetLine
  BY <1>1 DEF asked, StreamToken, InGetLine
<1>3. TakesLine /\ StreamToken' = << >>
  BY <1>1, <1>2, GetLineMaps
<1>4. StreamLine = << >>
  BY <1>1, <1>2, NothingInNone DEF StreamLine, Unfinished, CString
<1>5. CASE StreamInput = << >>
  BY <1>2, <1>3, <1>4, <1>5, NothingInNone DEF StreamVars, TakesLine
<1>6. CASE StreamInput # << >>
  BY <1>2, <1>3, <1>4, <1>6 DEF SkipsLine
<1> QED
  BY <1>5, <1>6

\* A byte in front of a string is none of its bytes.
LEMMA StringKept ==
  ASSUME NEW b \in Seq(Chars), NEW d \in Seq(Chars), Len(d) = Len(b), NEW c \in Nat,
         \A j \in 1..Len(b) : d[j] = IF j = c THEN NUL ELSE b[j],
         NEW p, NEW e, StringAt(b, p, e), c < p
  PROVE  StringOf(d, p) = StringOf(b, p)
<1>1. StringAt(d, p, e) /\ \A j \in p..e : d[j] = b[j]
  BY StringElsewhere
<1>2. /\ p \in Nat /\ e \in Nat /\ 1 <= p /\ p <= e /\ e <= Len(b)
      /\ StringOf(b, p) = Segment(b, p, e)
  BY StringOfIs
<1>3. StringOf(d, p) = Segment(d, p, e)
  BY <1>1, StringOfIs
<1>4. Len(b) \in Nat /\ Len(d) \in Nat
  BY LenProperties
<1>5. \A i \in 0..(e - p - 1) : p + i \in p..e
  BY <1>2
<1>6. Same(d, p, e, b, p, e)
  BY <1>1, <1>2, <1>4, <1>5 DEF Same
<1> QED
  BY <1>2, <1>3, <1>6, SegmentSame

\* An iteration of the loop of get_token skips white space, or gives the next word.
LEMMA NextPieceMaps == ParserInv /\ NextPiece => GivesToken \/ UNCHANGED StreamVars
<1> SUFFICES ASSUME ParserInv, NextPiece PROVE GivesToken \/ UNCHANGED StreamVars
  OBVIOUS
<1>1. /\ call = "token" /\ line # Null
      /\ UNCHANGED <<file, position, next_line, looking>>
      /\ ParserType /\ NextLineInv /\ LineInv /\ buffer \in Seq(Chars) /\ next_line \in Nat
  BY DEF NextPiece, ParserInv, ParserType
<1>2. PICK e, c, start \in Nat :
        /\ Cuts(buffer, line, Separators, buffer', line', e, c)
        /\ next_line # Null => e < next_line
        /\ start \in line..c
        /\ start = c \/ buffer[start] \notin Space
        /\ \A j \in line..(start - 1) : buffer[j] \in Space
        /\ token' = start
        /\ call' = IF start = c THEN "token" ELSE "got_token"
  BY <1>1, PieceIs
<1>3. PICK b, d, p, rest : b = buffer /\ d = buffer' /\ p = line /\ rest = line'
  OBVIOUS
<1>4. b \in Seq(Chars) /\ Cuts(b, p, Separators, d, rest, e, c)
  BY <1>1, <1>2, <1>3
<1>5. /\ StringAt(b, p, e) /\ p \in Nat /\ 1 <= p /\ c \in p..e
      /\ b[c] \in Separators \union {NUL} /\ \A j \in p..(c - 1) : b[j] \notin Separators \union {NUL}
      /\ b[c] = NUL <=> c = e
      /\ d \in Seq(Chars) /\ Len(d) = Len(b)
      /\ \A j \in 1..Len(b) : d[j] = IF j = c THEN NUL ELSE b[j]
      /\ rest = IF c = e THEN Null ELSE c + 1
      /\ e <= Len(b) /\ Len(b) \in Nat
  BY <1>4 DEF Cuts, StringAt
<1>6. /\ StringOf(b, p) = Segment(b, p, e)
      /\ StringOf(d, rest) = IF c < e THEN Segment(b, c + 1, e) ELSE << >>
  BY <1>4, CutsSegments
<1>7. /\ ~Unfinished /\ StreamInput = StringOf(b, next_line) \o Unread
      /\ StreamLine = Trimmed(StringOf(b, p)) /\ StreamToken = << >> /\ asked
  BY <1>1, <1>3
     DEF Unfinished, InGetLine, StreamInput, StreamLine, StreamToken, Ahead, CString, StringOf, asked
<1>8. call' \in {"token", "got_token"}
  BY <1>2
<1>9. /\ ~Unfinished' /\ StreamInput' = StringOf(d, next_line) \o Unread
      /\ StreamLine' = Trimmed(StringOf(d, rest))
  <2>1. ~Unfinished'
    BY <1>8 DEF Unfinished, InGetLine
  <2> QED
    BY <1>1, <1>3, <2>1 DEF StreamInput, StreamLine, Ahead, CString, StringOf, Unread
<1>10. StreamInput' = StreamInput
  <2>1. CASE next_line = Null
    BY <1>7, <1>9, <2>1, NoString
  <2>2. CASE next_line # Null
    <3>1. PICK f \in Nat : StringAt(b, next_line, f)
      BY <1>1, <1>3, <2>2 DEF NextLineInv
    <3>2. c < next_line
      BY <1>1, <1>2, <1>5, <2>2
    <3>3. PICK q : q = next_line
      OBVIOUS
    <3>4. /\ b \in Seq(Chars) /\ d \in Seq(Chars) /\ Len(d) = Len(b) /\ c \in Nat
          /\ \A j \in 1..Len(b) : d[j] = IF j = c THEN NUL ELSE b[j]
          /\ StringAt(b, q, f) /\ c < q
      BY <1>4, <1>5, <3>1, <3>2, <3>3
    <3>5. StringOf(d, q) = StringOf(b, q)
      BY <3>4, StringKept
    <3> QED
      BY <1>7, <1>9, <3>3, <3>5
  <2> QED
    BY <2>1, <2>2
<1>11. start \in p..c /\ (start = c \/ b[start] \notin Space) /\ \A j \in p..(start - 1) : b[j] \in Space
  BY <1>2, <1>3
<1>12. CASE start = c
  <2>1. Trimmed(StringOf(b, p)) = Trimmed(StringOf(d, rest))
    <3>1. CASE c = e
      <4>1. /\ p \in Nat /\ e \in Nat /\ 1 <= p /\ p <= e /\ e <= Len(b) + 1
            /\ \A j \in p..(e - 1) : b[j] \in Space
        BY <1>5, <1>11, <1>12, <3>1
      <4>2. Trimmed(Segment(b, p, e)) = Segment(b, e, e)
        BY <1>4, <4>1, SegmentTrim
      <4>3. Segment(b, e, e) = << >>
        BY SegmentNone
      <4>4. StringOf(d, rest) = << >>
        BY <1>5, <1>6, <3>1
      <4> QED
        BY <1>6, <4>2, <4>3, <4>4, NothingInNone
    <3>2. CASE c # e
      <4>1. PICK q : q = c + 1
        OBVIOUS
      <4>2. p \in Nat /\ q \in Nat /\ e \in Nat /\ 1 <= p /\ p <= q /\ q <= e /\ e <= Len(b) + 1
        BY <1>5, <3>2, <4>1
      <4>3. b[c] \in Space
        BY <1>5, <3>2 DEF Space
      <4>4. \A j \in p..(q - 1) : b[j] \in Space
        <5>1. \A j \in p..(q - 1) : j = c \/ j \in p..(start - 1)
          BY <1>5, <1>12, <4>1
        <5> QED
          BY <1>11, <4>3, <5>1
      <4>5. Trimmed(Segment(b, p, e)) = Trimmed(Segment(b, q, e))
        BY <1>4, <4>2, <4>4, TrimSkips
      <4>6. StringOf(d, rest) = Segment(b, q, e)
        BY <1>5, <1>6, <3>2, <4>1
      <4> QED
        BY <1>6, <4>5, <4>6
    <3> QED
      BY <3>1, <3>2
  <2>2. call' = "token"
    BY <1>2, <1>12
  <2>3. StreamToken' = << >> /\ asked' = asked
    BY <1>1, <2>2 DEF StreamToken, asked
  <2> QED
    BY <1>7, <1>9, <1>10, <2>1, <2>3 DEF StreamVars
<1>13. CASE start # c
  <2>1. start \in Nat /\ 1 <= start /\ p <= start /\ start < c /\ start <= e /\ e <= Len(b) + 1
    BY <1>5, <1>11, <1>13
  <2>2. PICK w : w = Segment(b, start, e)
    OBVIOUS
  <2>3. StreamLine = w
    <3>1. Trimmed(Segment(b, p, e)) = Segment(b, start, e)
      <4>1. /\ p \in Nat /\ start \in Nat /\ e \in Nat
            /\ 1 <= p /\ p <= start /\ start <= e /\ e <= Len(b) + 1
        BY <1>5, <2>1
      <4>2. (\A j \in p..(start - 1) : b[j] \in Space) /\ (start = e \/ b[start] \notin Space)
        BY <1>11, <1>13
      <4> QED
        BY <1>4, <4>1, <4>2, SegmentTrim
    <3> QED
      BY <1>6, <1>7, <2>2, <3>1
  <2>4. /\ First(w, Separators) = c - start + 1
        /\ Before(w, Separators) = Segment(b, start, c)
        /\ Behind(w, Separators) = IF c < e THEN Segment(b, c + 1, e) ELSE << >>
    <3>1. /\ start \in Nat /\ c \in Nat /\ e \in Nat
          /\ 1 <= start /\ start <= c /\ c <= e /\ e <= Len(b) + 1
      BY <1>5, <2>1
    <3>2. \A j \in start..(c - 1) : j \in p..(c - 1)
      BY <1>5, <2>1
    <3>3. (\A j \in start..(c - 1) : b[j] \notin Separators) /\ (c < e => b[c] \in Separators)
      BY <1>5, <3>1, <3>2
    <3>4. /\ First(Segment(b, start, e), Separators) = c - start + 1
          /\ Before(Segment(b, start, e), Separators) = Segment(b, start, c)
          /\ Behind(Segment(b, start, e), Separators) =
               IF c < e THEN Segment(b, c + 1, e) ELSE << >>
      BY <1>4, <3>1, <3>3, SegmentSplit
    <3> QED
      BY <2>2, <3>4
  <2>5. w # << >>
    <3>1. Len(w) = e - start
      <4>1. /\ start \in Nat /\ e \in Nat /\ 1 <= start /\ start <= e /\ e <= Len(b) + 1
        BY <2>1
      <4> QED
        BY <1>4, <2>2, <4>1, SegmentIs
    <3>2. e - start > 0
      BY <1>5, <2>1
    <3> QED
      BY <3>1, <3>2, NothingInNone
  <2>6. call' = "got_token" /\ token' = start
    BY <1>2, <1>13
  <2>7. StreamToken' = Segment(b, start, c)
    <3>1. StringAt(d, start, c)
      <4>1. \A i \in start..(c - 1) : i \in p..(c - 1) /\ i \in 1..Len(b) /\ i # c
        BY <1>5, <2>1
      <4>2. c \in start..Len(d) /\ c \in 1..Len(b)
        BY <1>5, <2>1
      <4> QED
        BY <1>5, <2>1, <4>1, <4>2 DEF StringAt
    <3>2. StringOf(d, start) = Segment(d, start, c)
      BY <1>5, <3>1, StringOfIs
    <3>3. \A i \in 0..(c - start - 1) : start + i \in 1..Len(b) /\ start + i # c
      BY <1>5, <2>1
    <3>4. Same(d, start, c, b, start, c)
      BY <1>4, <1>5, <2>1, <3>3 DEF Same
    <3>5. Segment(d, start, c) = Segment(b, start, c)
      BY <3>4, SegmentSame
    <3>6. StreamToken' = StringOf(d, start)
      BY <1>3, <2>6 DEF StreamToken, CString, StringOf
    <3> QED
      BY <3>2, <3>5, <3>6
  <2>8. ~asked'
    BY <2>6 DEF asked
  <2>9. StreamLine' = Trimmed(Behind(w, Separators))
    BY <1>6, <1>9, <2>4
  <2> QED
    BY <1>7, <1>10, <2>3, <2>4, <2>5, <2>7, <2>8, <2>9 DEF GivesToken
<1> QED
  BY <1>12, <1>13

LEMMA CallsMaps ==
  ASSUME ParserInv, ~InGetLine, ~asked, NEW next \in {"idle", "token"}, Calls(next)
  PROVE  Asks \/ Forgets
<1>1. call' = next /\ UNCHANGED <<file, position, buffer, next_line, line, token, looking>>
  BY DEF Calls
<1>2. ~Unfinished /\ ~Unfinished' /\ StreamToken' = << >>
  BY <1>1 DEF Unfinished, InGetLine, StreamToken
<1>3. UNCHANGED <<StreamInput, StreamLine>>
  BY <1>1, <1>2 DEF StreamInput, StreamLine, Ahead, CString, Unread
<1>4. asked' \/ asked' = asked
  BY <1>1 DEF asked
<1> QED
  BY <1>2, <1>3, <1>4 DEF Asks, Forgets

\* What a reader cuts its token into is not what is ahead.
LEMMA ItemMaps == ParserInv /\ Item => Asks \/ Forgets
<1> SUFFICES ASSUME ParserInv, Item PROVE Asks \/ Forgets
  OBVIOUS
<1>1. /\ call = "got_token" /\ call' \in {"idle", "token"} /\ (buffer' = buffer \/ buffer' = CutSlash)
      /\ UNCHANGED <<file, position, next_line, line, token, looking>>
      /\ ParserType /\ NextLineInv /\ LineInv /\ TokenInv /\ buffer \in Seq(Chars)
      /\ next_line \in Nat /\ line \in Nat
  BY DEF Item, ParserInv, ParserType
<1>2. ~Unfinished /\ ~Unfinished' /\ ~asked /\ StreamToken' = << >>
  BY <1>1 DEF Unfinished, InGetLine, asked, StreamToken
<1>3. /\ StreamInput = StringOf(buffer, next_line) \o Unread
      /\ StreamLine = Trimmed(StringOf(buffer, line))
      /\ StreamInput' = StringOf(buffer', next_line) \o Unread
      /\ StreamLine' = Trimmed(StringOf(buffer', line))
  BY <1>1, <1>2 DEF StreamInput, StreamLine, Ahead, CString, StringOf, Unread
<1>4. /\ StringOf(buffer', next_line) = StringOf(buffer, next_line)
      /\ StringOf(buffer', line) = StringOf(buffer, line)
  <2>1. CASE buffer' = CutSlash
    <3>1. PICK e, c \in Nat :
            /\ \E rest : Cuts(buffer, token, {"/"}, buffer', rest, e, c)
            /\ line # Null => e < line
            /\ next_line # Null => e < next_line
      BY <1>1, <2>1, SlashIs
    <3>2. PICK b, d : b = buffer /\ d = buffer'
      OBVIOUS
    <3>3. /\ b \in Seq(Chars) /\ d \in Seq(Chars) /\ Len(d) = Len(b) /\ c <= e
          /\ \A j \in 1..Len(b) : d[j] = IF j = c THEN NUL ELSE b[j]
      BY <1>1, <3>1, <3>2 DEF Cuts
    <3>4. ASSUME NEW p \in Nat, p # Null => e < p, p # Null => \E f \in Nat : StringAt(b, p, f)
          PROVE  StringOf(d, p) = StringOf(b, p)
      <4>1. CASE p = Null
        BY <4>1, NoString
      <4>2. CASE p # Null
        <5>1. PICK f \in Nat : StringAt(b, p, f)
          BY <3>4, <4>2
        <5>2. c < p
          BY <3>1, <3>3, <3>4, <4>2
        <5> QED
          BY <3>3, <5>1, <5>2, StringKept
      <4> QED
        BY <4>1, <4>2
    <3>5. /\ next_line # Null => \E f \in Nat : StringAt(b, next_line, f)
          /\ line # Null => \E f \in Nat : StringAt(b, line, f)
      BY <1>1, <3>2 DEF NextLineInv, LineInv, InGetLine
    <3> QED
      BY <1>1, <3>1, <3>2, <3>4, <3>5
  <2>2. CASE buffer' = buffer
    BY <2>2
  <2> QED
    BY <1>1, <2>1, <2>2
<1>5. UNCHANGED <<StreamInput, StreamLine>>
  BY <1>3, <1>4
<1>6. asked' \/ asked' = asked
  BY <1>1 DEF asked
<1> QED
  BY <1>2, <1>5, <1>6 DEF Asks, Forgets

\* The names of the stream, for the same operators of texts.
LEMMA SameTexts ==
  /\ \A t, D : Stream!Before(t, D) = Before(t, D) /\ Stream!Behind(t, D) = Behind(t, D)
  /\ \A t : Stream!Trimmed(t) = Trimmed(t)
  /\ Stream!Separators = Separators
<1>1. Stream!Separators = Separators /\ Stream!Space = Space
  BY DEF Stream!Separators, Separators, Stream!Space, Space
<1>2. \A t, D : Stream!First(t, D) = First(t, D)
  BY DEF Stream!First, First
<1>3. \A t : Stream!Trimmed(t) = Trimmed(t)
  BY <1>1 DEF Stream!Trimmed, Trimmed
<1> QED
  BY <1>1, <1>2, <1>3 DEF Stream!Before, Before, Stream!Behind, Behind

LEMMA StreamSteps == StreamStep => [Stream!Next]_(Stream!vars)
<1> SUFFICES ASSUME StreamStep PROVE [Stream!Next]_(Stream!vars)
  OBVIOUS
<1>1. CASE GetsLine
  BY <1>1, SameTexts DEF GetsLine, TakesLine, NL, asked, Stream!Next, Stream!GetLine, Stream!TakeLine
<1>2. CASE Asks
  BY <1>2 DEF Asks, asked, Stream!Next, Stream!Ask
<1>3. CASE SkipsLine
  BY <1>3, SameTexts DEF SkipsLine, TakesLine, NL, asked, Stream!Next, Stream!SkipLine, Stream!TakeLine
<1>4. CASE GivesToken
  BY <1>4, SameTexts DEF GivesToken, asked, Stream!Next, Stream!GiveToken
<1>5. CASE EndsFile
  BY <1>5 DEF EndsFile, asked, Stream!Next, Stream!EndOfFile
<1>6. CASE Forgets
  BY <1>6 DEF Forgets, asked, Stream!Next, Stream!Forget
<1>7. CASE UNCHANGED StreamVars
  BY <1>7 DEF StreamVars, asked, Stream!vars
<1> QED
  BY <1>1, <1>2, <1>3, <1>4, <1>5, <1>6, <1>7 DEF StreamStep

LEMMA StreamKept == UNCHANGED parserVars => UNCHANGED StreamVars
<1> SUFFICES ASSUME UNCHANGED parserVars PROVE UNCHANGED StreamVars
  OBVIOUS
<1>1. /\ Unfinished' = Unfinished /\ CString(line)' = CString(line)
      /\ CString(next_line)' = CString(next_line) /\ CString(token)' = CString(token)
      /\ Unread' = Unread /\ looking' = looking /\ call' = call
  BY DEF parserVars, Unfinished, InGetLine, CString, Unread
<1>2. Ahead' = Ahead
  BY <1>1 DEF parserVars, Ahead, Unfinished, InGetLine, CString, Unread
<1>3. StreamInput' = StreamInput /\ StreamLine' = StreamLine
  BY <1>1, <1>2 DEF StreamInput, StreamLine
<1>4. StreamToken' = StreamToken /\ asked' = asked
  BY <1>1 DEF StreamToken, asked
<1> QED
  BY <1>3, <1>4 DEF StreamVars

LEMMA NextMaps == NoNul /\ CallInv /\ ParserInv /\ [Next]_vars => StreamStep
<1> SUFFICES ASSUME NoNul, CallInv, ParserInv, [Next]_vars PROVE StreamStep
  OBVIOUS
<1>1. CASE NextLine
  <2>1. call = "idle" /\ get_line("line") /\ call' = "line"
    BY <1>1 DEF NextLine, get_line
  <2>2. ~InGetLine /\ ~asked /\ asked' = asked
    BY <2>1 DEF InGetLine, asked
  <2>3. TakesLine /\ StreamToken' = << >>
    BY <2>1, <2>2, GetLineMaps
  <2> QED
    BY <2>2, <2>3 DEF StreamStep, GetsLine
<1>2. CASE FirstToken
  BY <1>2, CallsMaps DEF StreamStep, FirstToken, InGetLine, asked
<1>3. CASE SectionsOver
  BY <1>3, CallsMaps DEF StreamStep, SectionsOver, InGetLine, asked
<1>4. CASE Comment
  BY <1>4, CallsMaps DEF StreamStep, Comment, InGetLine, asked
<1>5. CASE SectionToken
  BY <1>5, CallsMaps DEF StreamStep, SectionToken, InGetLine, asked
<1>6. CASE EnterSection
  BY <1>6, CallsMaps DEF StreamStep, EnterSection, InGetLine, asked, CallInv
<1>7. CASE Item
  BY <1>7, ItemMaps DEF StreamStep
<1>8. CASE Refuse
  BY <1>8, CallsMaps DEF StreamStep, Refuse, InGetLine, asked
<1>9. CASE NoToken
  BY <1>9, CallsMaps DEF StreamStep, NoToken, InGetLine, asked
<1>10. CASE Parse
  <2>1. CASE CutLine
    BY <2>1, CutLineMaps DEF StreamStep
  <2>2. CASE Refill
    BY <2>2, RefillMaps DEF StreamStep
  <2>3. CASE LeaveGetLine
    BY <2>3, LeaveGetLineMaps DEF StreamStep
  <2>4. CASE NeedLine
    BY <2>4, NeedLineMaps DEF StreamStep
  <2>5. CASE NextPiece
    BY <2>5, NextPieceMaps DEF StreamStep
  <2> QED
    BY <1>10, <2>1, <2>2, <2>3, <2>4, <2>5 DEF Parse, ParserStep
<1>11. CASE UNCHANGED parserVars
  BY <1>11, StreamKept DEF StreamStep
<1> QED
  BY <1>1, <1>2, <1>3, <1>4, <1>5, <1>6, <1>7, <1>8, <1>9, <1>10, <1>11
     DEF Next, MainStep, Generate, NoSection, SectionRead, Written, Terminating, vars

LEMMA InitInput == Init => StreamInput = file /\ StreamLine = << >> /\ StreamToken = << >> /\ ~asked
<1> SUFFICES ASSUME Init PROVE StreamInput = file /\ StreamLine = << >> /\ StreamToken = << >> /\ ~asked
  OBVIOUS
<1>1. /\ ParserInit /\ ParserInv /\ call = "idle" /\ next_line = 1 /\ line = Null
      /\ file \in Texts /\ position = 0
  BY InitParser DEF Init, ParserInit
<1>2. ~Unfinished /\ StreamToken = << >> /\ ~asked
  BY <1>1 DEF Unfinished, InGetLine, StreamToken, asked
<1>3. StringOf(buffer, next_line) = << >>
  <2>1. /\ buffer \in Seq(Chars) /\ Len(buffer) \in Nat /\ 1 <= Len(buffer) /\ buffer[1] = NUL
    <3>1. buffer = [i \in 1..(BUFFER_SIZE + 1) |-> NUL] /\ BUFFER_SIZE \in Nat
      BY <1>1, ParserAssumption DEF ParserInit
    <3> QED
      BY <3>1, TextsType
  <2>2. StringAt(buffer, 1, 1)
    BY <2>1 DEF StringAt
  <2>3. PICK p : p = next_line
    OBVIOUS
  <2>4. StringOf(buffer, p) = Segment(buffer, p, 1)
    BY <1>1, <2>1, <2>2, <2>3, StringOfIs
  <2> QED
    BY <1>1, <2>3, <2>4, SegmentNone
<1>4. Unread = file
  <2>1. file \in Seq(Chars) /\ 0 + 1 = 1
    BY <1>1, TextsType
  <2> QED
    BY <1>1, <2>1, SubSeqFull DEF Unread
<1>5. StreamInput = file
  <2>1. << >> \o file = file
    BY <1>1, TextsType, ConcatEmptySeq
  <2> QED
    BY <1>2, <1>3, <1>4, <2>1 DEF StreamInput, Ahead, CString, StringOf
<1>6. StreamLine = << >>
  BY <1>1, <1>2, NothingInNone DEF StreamLine, CString
<1> QED
  BY <1>2, <1>5, <1>6

LEMMA InitMaps == Init => Stream!Init
<1> SUFFICES ASSUME Init PROVE Stream!Init
  OBVIOUS
<1>1. file \in Texts
  BY DEF Init, ParserInit
<1> QED
  BY <1>1, InitInput DEF Stream!Init, asked

\* Whatever pieces read() returns a file in, and wherever they end, the parser gives the
\* lines and tokens of the file, each once, whole and in order, and nothing at the end of
\* the file only.
THEOREM ParserImplementsStream ==
  ASSUME NoNul
  PROVE  Spec => ReadsTheStream
<1>1. Init => Stream!Init
  BY InitMaps
<1>2. CallInv /\ ParserInv /\ [Next]_vars => [Stream!Next]_(Stream!vars)
  BY NextMaps, StreamSteps
<1> QED
  BY <1>1, <1>2, ParserInvariant, PTL DEF Spec, ReadsTheStream, Stream!Spec

(***************************************************************************)
(* What is given is a word of the file, which is what the allocator has to *)
(* make room for.                                                          *)
(***************************************************************************)
IsPiece(f, p, q) == p \in Nat /\ q \in Nat /\ 1 <= p /\ p <= q /\ q <= Len(f) + 1

\* A text is a piece of another, perhaps without bytes of a set.
PieceOf(t, f) == \E p, q : IsPiece(f, p, q) /\ t = Segment(f, p, q)

WordOf(t, f) ==
  \E p, q : /\ IsPiece(f, p, q) /\ t = Segment(f, p, q)
            /\ \A i \in p..(q - 1) : f[i] \notin Separators

LEMMA NoneOf ==
  ASSUME NEW f \in Seq(Chars)
  PROVE  PieceOf(<< >>, f) /\ WordOf(<< >>, f)
<1>1. PICK p : p = 1
  OBVIOUS
<1>2. IsPiece(f, p, p) /\ \A i \in p..(p - 1) : f[i] \notin Separators
  BY <1>1 DEF IsPiece
<1>3. Segment(f, p, p) = << >>
  BY <1>1, SegmentNone
<1> QED
  BY <1>2, <1>3 DEF PieceOf, WordOf

LEMMA PiecesOf ==
  ASSUME NEW f \in Seq(Chars), NEW t, PieceOf(t, f), NEW D
  PROVE  /\ PieceOf(Before(t, D), f) /\ PieceOf(Behind(t, D), f)
         /\ D = Separators => WordOf(Before(t, D), f)
<1>1. PICK p, q : IsPiece(f, p, q) /\ t = Segment(f, p, q)
  BY DEF PieceOf
<1>2. p \in Nat /\ q \in Nat /\ 1 <= p /\ p <= q /\ q <= Len(f) + 1 /\ Len(f) \in Nat
  BY <1>1, LenProperties DEF IsPiece
<1> DEFINE S == {c \in p..q : c = q \/ f[c] \in D}
<1>3. PICK c \in S : \A j \in S : c <= j
  <2>1. S \in SUBSET (p..q) /\ q \in S
    BY <1>2
  <2> HIDE DEF S
  <2> QED
    BY <1>2, <2>1, FirstOf
<1>4. c \in Nat /\ p <= c /\ c <= q /\ (c < q => f[c] \in D)
  BY <1>2, <1>3
<1>5. \A j \in p..(c - 1) : f[j] \notin D
  <2> SUFFICES ASSUME NEW j \in p..(c - 1), f[j] \in D PROVE FALSE
    OBVIOUS
  <2>1. j \in S /\ j < c
    BY <1>2, <1>4
  <2> QED
    BY <1>2, <1>3, <1>4, <2>1
<1>6. /\ Before(t, D) = Segment(f, p, c)
      /\ Behind(t, D) = IF c < q THEN Segment(f, c + 1, q) ELSE << >>
  <2>1. /\ First(Segment(f, p, q), D) = c - p + 1
        /\ Before(Segment(f, p, q), D) = Segment(f, p, c)
        /\ Behind(Segment(f, p, q), D) = IF c < q THEN Segment(f, c + 1, q) ELSE << >>
    BY <1>2, <1>4, <1>5, SegmentSplit
  <2> QED
    BY <1>1, <2>1
<1>7. IsPiece(f, p, c)
  BY <1>2, <1>4 DEF IsPiece
<1>8. PieceOf(Before(t, D), f)
  BY <1>6, <1>7 DEF PieceOf
<1>9. PieceOf(Behind(t, D), f)
  <2>1. CASE c < q
    <3>1. PICK r : r = c + 1
      OBVIOUS
    <3>2. IsPiece(f, r, q)
      BY <1>2, <1>4, <2>1, <3>1 DEF IsPiece
    <3> QED
      BY <1>6, <2>1, <3>1, <3>2 DEF PieceOf
  <2>2. CASE ~(c < q)
    BY <1>6, <2>2, NoneOf
  <2> QED
    BY <2>1, <2>2
<1>10. D = Separators => WordOf(Before(t, D), f)
  BY <1>5, <1>6, <1>7 DEF WordOf
<1> QED
  BY <1>8, <1>9, <1>10

LEMMA TrimmedPiece ==
  ASSUME NEW f \in Seq(Chars), NEW t, PieceOf(t, f)
  PROVE  PieceOf(Trimmed(t), f)
<1>1. PICK p, q : IsPiece(f, p, q) /\ t = Segment(f, p, q)
  BY DEF PieceOf
<1>2. p \in Nat /\ q \in Nat /\ 1 <= p /\ p <= q /\ q <= Len(f) + 1 /\ Len(f) \in Nat
  BY <1>1, LenProperties DEF IsPiece
<1> DEFINE S == {c \in p..q : c = q \/ f[c] \notin Space}
<1>3. PICK c \in S : \A j \in S : c <= j
  <2>1. S \in SUBSET (p..q) /\ q \in S
    BY <1>2
  <2> HIDE DEF S
  <2> QED
    BY <1>2, <2>1, FirstOf
<1>4. c \in Nat /\ p <= c /\ c <= q /\ (c = q \/ f[c] \notin Space)
  BY <1>2, <1>3
<1>5. \A j \in p..(c - 1) : f[j] \in Space
  <2> SUFFICES ASSUME NEW j \in p..(c - 1), f[j] \notin Space PROVE FALSE
    OBVIOUS
  <2>1. j \in S /\ j < c
    BY <1>2, <1>4
  <2> QED
    BY <1>2, <1>3, <1>4, <2>1
<1>6. Trimmed(Segment(f, p, q)) = Segment(f, c, q)
  BY <1>2, <1>4, <1>5, SegmentTrim
<1>7. IsPiece(f, c, q)
  BY <1>2, <1>4 DEF IsPiece
<1> QED
  BY <1>1, <1>6, <1>7 DEF PieceOf

\* The stream is made of pieces of the file.
PiecesInv ==
  /\ file \in Seq(Chars)
  /\ PieceOf(StreamInput, file)
  /\ PieceOf(StreamLine, file)
  /\ WordOf(StreamToken, file)

LEMMA InitPieces == Init => PiecesInv
<1> SUFFICES ASSUME Init PROVE PiecesInv
  OBVIOUS
<1>1. StreamInput = file /\ StreamLine = << >> /\ StreamToken = << >>
  BY InitInput
<1>2. file \in Seq(Chars)
  BY TextsType DEF Init, ParserInit
<1>4. PieceOf(file, file)
  <2>1. PICK p, q : p = 1 /\ q = Len(file) + 1
    OBVIOUS
  <2>2. q - 1 = Len(file) /\ IsPiece(file, p, q)
    BY <1>2, <2>1, LenProperties DEF IsPiece
  <2>3. Segment(file, p, q) = file
    BY <1>2, <2>1, <2>2, SubSeqFull DEF Segment
  <2> QED
    BY <2>2, <2>3 DEF PieceOf
<1> QED
  BY <1>1, <1>2, <1>4, NoneOf DEF PiecesInv

LEMMA NextPieces == PiecesInv /\ StreamStep /\ file' = file => PiecesInv'
<1> SUFFICES ASSUME PiecesInv, StreamStep, file' = file PROVE PiecesInv'
  OBVIOUS
<1>1. /\ file \in Seq(Chars) /\ PieceOf(StreamInput, file) /\ PieceOf(StreamLine, file)
      /\ WordOf(StreamToken, file)
  BY DEF PiecesInv
<1>2. SUFFICES /\ PieceOf(StreamInput', file) /\ PieceOf(StreamLine', file)
               /\ WordOf(StreamToken', file)
  BY <1>1 DEF PiecesInv, PieceOf, WordOf, IsPiece
<1>3. ASSUME TakesLine PROVE PieceOf(StreamInput', file) /\ PieceOf(StreamLine', file)
  <2>1. PieceOf(Before(StreamInput, NL), file) /\ PieceOf(Behind(StreamInput, NL), file)
    BY <1>1, PiecesOf
  <2> QED
    BY <1>1, <1>3, <2>1, TrimmedPiece DEF TakesLine
<1>4. CASE GetsLine
  BY <1>1, <1>3, <1>4, NoneOf DEF GetsLine
<1>5. CASE Asks
  BY <1>1, <1>5, NoneOf DEF Asks
<1>6. CASE SkipsLine
  BY <1>1, <1>3, <1>6 DEF SkipsLine
<1>7. CASE GivesToken
  <2>1. /\ WordOf(Before(StreamLine, Separators), file)
        /\ PieceOf(Behind(StreamLine, Separators), file)
    BY <1>1, PiecesOf
  <2> QED
    BY <1>1, <1>7, <2>1, TrimmedPiece DEF GivesToken
<1>8. CASE EndsFile
  BY <1>1, <1>8 DEF EndsFile
<1>9. CASE Forgets
  BY <1>1, <1>9, NoneOf DEF Forgets
<1>10. CASE UNCHANGED StreamVars
  BY <1>1, <1>10 DEF StreamVars
<1> QED
  BY <1>4, <1>5, <1>6, <1>7, <1>8, <1>9, <1>10 DEF StreamStep

LEMMA FileKept == [Next]_vars => file' = file
BY DEF Next, MainStep, NextLine, FirstToken, SectionsOver, Comment, SectionToken, EnterSection,
   NoSection, Item, Refuse, SectionRead, NoToken, Written, Parse, ParserStep, CutLine, Refill,
   LeaveGetLine, NeedLine, NextPiece, Generate, Terminating, Calls, get_line, vars, parserVars

\* The other hypothesis: a buffer of the allocator holds a word of the file, and a NUL.
WordsFit ==
  \A text \in Texts : \A p, q \in Nat :
    1 <= p /\ p <= q /\ q <= Len(text) + 1 /\ (\A i \in p..(q - 1) : text[i] \notin Separators)
      => q - p < ALLOCATOR_SIZE

LEMMA WordFits ==
  ASSUME WordsFit, ParserInv, PiecesInv, call = "got_token"
  PROVE  Len(Word) < ALLOCATOR_SIZE
<1>1. StreamToken = Word
  BY DEF StreamToken, Word
<1>2. PICK p, q : /\ IsPiece(file, p, q) /\ Word = Segment(file, p, q)
                  /\ \A i \in p..(q - 1) : file[i] \notin Separators
  BY <1>1 DEF PiecesInv, WordOf
<1>3. p \in Nat /\ q \in Nat /\ 1 <= p /\ p <= q /\ q <= Len(file) + 1
  BY <1>2 DEF IsPiece
<1>4. file \in Texts /\ file \in Seq(Chars)
  BY DEF ParserInv, ParserType, PiecesInv
<1>5. q - p < ALLOCATOR_SIZE
  BY <1>2, <1>3, <1>4 DEF WordsFit
<1>6. Len(Segment(file, p, q)) = q - p
  BY <1>3, <1>4, SegmentIs
<1> QED
  BY <1>2, <1>5, <1>6

LEMMA PointersInBuffer ==
  ParserInv => /\ InBuffer(next_line)
               /\ InBuffer(line) \/ (InGetLine /\ looking)
<1> SUFFICES ASSUME ParserInv
             PROVE  /\ InBuffer(next_line)
                    /\ InBuffer(line) \/ (InGetLine /\ looking)
  OBVIOUS
<1>1. ASSUME NEW p, NEW e, StringAt(buffer, p, e) PROVE InBuffer(p)
  BY <1>1 DEF StringAt, InBuffer
<1>2. NextLineInv /\ LineInv
  BY DEF ParserInv
<1>3. InBuffer(next_line)
  <2>1. CASE next_line = Null
    BY <2>1 DEF InBuffer
  <2>2. CASE next_line # Null
    BY <1>1, <1>2, <2>2 DEF NextLineInv
  <2> QED
    BY <2>1, <2>2
<1>4. InBuffer(line) \/ (InGetLine /\ looking)
  <2>1. CASE line = Null
    BY <2>1 DEF InBuffer
  <2>2. CASE line # Null
    BY <1>1, <1>2, <2>2 DEF LineInv
  <2> QED
    BY <2>1, <2>2
<1> QED
  BY <1>3, <1>4

LEMMA TypeFromParts == CallInv /\ ParserInv /\ OutputInv /\ Inside(allocator) => TypeOK
<1> SUFFICES ASSUME CallInv, ParserInv, OutputInv, Inside(allocator) PROVE TypeOK
  OBVIOUS
<1>1. /\ file \in Texts /\ position \in 0..Len(file)
      /\ Len(buffer) <= capacity /\ allocation \in Nat
      /\ next_line \in Nat /\ line \in Nat /\ token \in Nat
      /\ eof \in BOOLEAN /\ looking \in BOOLEAN
      /\ call \in {"idle", "line", "got_line", "no_line", "token", "token_line", "got_token", "no_token"}
  BY DEF ParserInv, ParserType, Calls8
<1>2. InBuffer(next_line) /\ (InBuffer(line) \/ (InGetLine /\ looking))
  BY PointersInBuffer
<1>3. /\ pc \in {"lines", "first", "compare", "items", "print", "read", "done", "refused", "crashed"}
      /\ misled \in BOOLEAN
  BY DEF CallInv
<1>4. tested \in 1..(Len(Sections) + 1)
  <2>1. Len(Sections) = 7
    BY DEF Sections
  <2> QED
    BY <2>1 DEF CallInv
<1>5. /\ output_buffer_watermark \in 0..OUTPUT_BUFFER_LENGTH
      /\ output \in {"closed", "open", "closing", "failed"}
  BY DEF OutputInv, OutputType
<1> QED
  BY <1>1, <1>2, <1>3, <1>4, <1>5 DEF TypeOK

\* Every variable keeps its type; the pointers of the parser point to strings in its
\* buffer; and no string that is kept reaches over the end of a buffer of the allocator,
\* if a buffer holds the longest word of the file.
THEOREM TypeCorrect ==
  ASSUME NoNul, WordsFit
  PROVE  Spec => []TypeOK
<1> DEFINE IInv == PiecesInv /\ AllocatorInv(allocator) /\ Inside(allocator)
<1>1. Init => IInv
  <2> SUFFICES ASSUME Init PROVE IInv
    OBVIOUS
  <2>1. allocator = NewAllocator
    BY DEF Init, MainInit
  <2> QED
    BY <2>1, InitPieces, InitAllocator
<1>2. CallInv /\ ParserInv /\ IInv /\ [Next]_vars => IInv'
  <2> SUFFICES ASSUME CallInv, ParserInv, IInv, [Next]_vars PROVE IInv'
    OBVIOUS
  <2>1. PiecesInv'
    BY NextMaps, FileKept, NextPieces
  <2>2. AllocatorInv(allocator') /\ Inside(allocator')
    <3>1. CASE Item
      <4>1. Len(Word) < ALLOCATOR_SIZE
        BY <3>1, WordFits DEF Item
      <4> QED
        BY <3>1, <4>1, ItemAllocator
    <3>2. CASE UNCHANGED allocator
      BY <3>2
    <3> QED
      BY <3>1, <3>2, AllocatorKept
  <2> QED
    BY <2>1, <2>2 DEF AllocatorInv, Apart, Overlap, Begins, Ends, StartsBuffer, Inside
<1>3. CallInv /\ ParserInv /\ OutputInv /\ IInv => TypeOK
  BY TypeFromParts
<1> QED
  BY <1>1, <1>2, <1>3, ParserInvariant, OutputInvariant, PTL DEF Spec

(***************************************************************************)
(* The reading of a text.                                                  *)
(***************************************************************************)
Step(at, in, li, ask, wd, tst, pend, cert, sz) ==
  [at |-> at, input |-> in, line |-> li, asked |-> ask, word |-> wd,
   tested |-> tst, pending |-> pend, certificate |-> cert, sizes |-> sz]

\* The values of asked, by names that are no formulas.
Yes == TRUE
No == FALSE
Some(t) == t # << >>

LEMMA StepParts ==
  ASSUME NEW a, NEW i, NEW l, NEW k, NEW w, NEW t, NEW p, NEW c, NEW z, NEW s,
         s = Step(a, i, l, k, w, t, p, c, z)
  PROVE  /\ s.at = a /\ s.input = i /\ s.line = l /\ s.asked = k /\ s.word = w
         /\ s.tested = t /\ s.pending = p /\ s.certificate = c /\ s.sizes = z
BY DEF Step

LEMMA LineTakenIs ==
  ASSUME NEW a, NEW i, NEW l, NEW k, NEW w, NEW t, NEW p, NEW c, NEW z, NEW s,
         s = Step(a, i, l, k, w, t, p, c, z)
  PROVE  LineTaken(s) = Step(a, Behind(i, NL), Trimmed(Before(i, NL)), k, w, t, p, c, z)
<1>1. s.input = i
  BY StepParts
<1>2. PICK x, y : x = Trimmed(Before(i, NL)) /\ y = Behind(i, NL)
  OBVIOUS
<1>3. PICK r : r = [s EXCEPT !.line = x]
  OBVIOUS
<1>4. LineTaken(s) = [r EXCEPT !.input = y]
  BY <1>1, <1>2, <1>3 DEF LineTaken, NL
<1>5. r = Step(a, i, x, k, w, t, p, c, z)
  BY <1>3 DEF Step
<1> QED
  BY <1>2, <1>4, <1>5 DEF Step

LEMMA WordGivenIs ==
  ASSUME NEW a, NEW i, NEW l, NEW k, NEW w, NEW t, NEW p, NEW c, NEW z, NEW s,
         s = Step(a, i, l, k, w, t, p, c, z)
  PROVE  WordGiven(s) = Step(a, i, Trimmed(Behind(l, Separators)), No, Before(l, Separators),
                             t, p, c, z)
<1>1. s.line = l
  BY StepParts
<1>2. PICK x, y : x = Before(l, Separators) /\ y = Trimmed(Behind(l, Separators))
  OBVIOUS
<1>3. PICK r : r = [s EXCEPT !.word = x]
  OBVIOUS
<1>4. PICK q : q = [r EXCEPT !.line = y]
  OBVIOUS
<1>5. WordGiven(s) = [q EXCEPT !.asked = FALSE]
  BY <1>1, <1>2, <1>3, <1>4 DEF WordGiven
<1>6. r = Step(a, i, l, k, x, t, p, c, z)
  BY <1>3 DEF Step
<1>7. q = Step(a, i, y, k, x, t, p, c, z)
  BY <1>4, <1>6 DEF Step
<1> QED
  BY <1>2, <1>5, <1>7 DEF Step, No

LEMMA WithoutWordIs ==
  ASSUME NEW a, NEW i, NEW l, NEW k, NEW w, NEW t, NEW p, NEW c, NEW z, NEW s,
         s = Step(a, i, l, k, w, t, p, c, z)
  PROVE  WithoutWord(s) =
           Step(IF a = "items" /\ p[1] \in Checked THEN "refused" ELSE "crashed",
                i, l, No, w, t, p, c, z)
<1>1. s.at = a /\ s.pending = p
  BY StepParts
<1>2. PICK x : x = IF a = "items" /\ p[1] \in Checked THEN "refused" ELSE "crashed"
  OBVIOUS
<1>3. PICK r : r = [s EXCEPT !.asked = FALSE]
  OBVIOUS
<1>4. WithoutWord(s) = [r EXCEPT !.at = x]
  BY <1>1, <1>2, <1>3 DEF WithoutWord
<1>5. r = Step(a, i, l, No, w, t, p, c, z)
  BY <1>3 DEF Step, No
<1> QED
  BY <1>2, <1>4, <1>5 DEF Step

LEMMA LineReadIs ==
  ASSUME NEW a, NEW i, NEW l, NEW k, NEW w, NEW t, NEW p, NEW c, NEW z, NEW s,
         s = Step(a, i, l, k, w, t, p, c, z)
  PROVE  LineRead(s) = Step(IF i = << >> THEN "over" ELSE "first", Behind(i, NL),
                            Trimmed(Before(i, NL)), Some(i), w, t, p, c, z)
<1>1. s.input = i
  BY StepParts
<1>2. PICK q : q = LineTaken(s)
  OBVIOUS
<1>3. PICK x, y : x = Trimmed(Before(i, NL)) /\ y = Behind(i, NL)
  OBVIOUS
<1>4. q = Step(a, y, x, k, w, t, p, c, z)
  BY <1>2, <1>3, LineTakenIs
<1>5. PICK b, d : b = (IF i = << >> THEN "over" ELSE "first") /\ d = Some(i)
  OBVIOUS
<1>6. PICK r : r = [q EXCEPT !.at = b]
  OBVIOUS
<1>7. LineRead(s) = [r EXCEPT !.asked = d]
  BY <1>1, <1>2, <1>5, <1>6 DEF LineRead, Some
<1>8. r = Step(b, y, x, k, w, t, p, c, z)
  BY <1>4, <1>6 DEF Step
<1>9. LineRead(s) = Step(b, y, x, d, w, t, p, c, z)
  BY <1>7, <1>8 DEF Step
<1> QED
  BY <1>3, <1>5, <1>9

LEMMA FirstWordReadIs ==
  ASSUME NEW a, NEW i, NEW l, NEW k, NEW w, NEW t, NEW p, NEW c, NEW z, NEW s,
         s = Step(a, i, l, k, w, t, p, c, z)
  PROVE  /\ w = <<"%">> => FirstWordRead(s) = Step("lines", i, l, k, << >>, t, p, c, z)
         /\ w # <<"%">> => FirstWordRead(s) = Step("compare", i, l, k, w, 1, p, c, z)
<1>1. s.word = w
  BY StepParts
<1>2. PICK r : r = [s EXCEPT !.at = "lines"]
  OBVIOUS
<1>3. PICK q : q = [s EXCEPT !.at = "compare"]
  OBVIOUS
<1>4. /\ w = <<"%">> => FirstWordRead(s) = [r EXCEPT !.word = << >>]
      /\ w # <<"%">> => FirstWordRead(s) = [q EXCEPT !.tested = 1]
  BY <1>1, <1>2, <1>3 DEF FirstWordRead
<1>5. r = Step("lines", i, l, k, w, t, p, c, z) /\ q = Step("compare", i, l, k, w, t, p, c, z)
  BY <1>2, <1>3 DEF Step
<1> QED
  BY <1>4, <1>5 DEF Step

LEMMA SectionEnteredIs ==
  ASSUME NEW a, NEW i, NEW l, NEW k, NEW w, NEW t, NEW p, NEW c, NEW z, NEW s,
         s = Step(a, i, l, k, w, t, p, c, z)
  PROVE  /\ Named(s) = {} => SectionEntered(s) = Step("lines", i, l, k, << >>, t, p, c, z)
         /\ \A j : Named(s) # {} /\ j = Min(Named(s)) =>
              SectionEntered(s) = Step("items", i, l, Yes, << >>, j + 1, SectionItems[Sections[j]],
                                       Append(c, <<Sections[j]>>), z)
<1>1. s.certificate = c
  BY StepParts
<1>2. ASSUME Named(s) = {}
      PROVE  SectionEntered(s) = Step("lines", i, l, k, << >>, t, p, c, z)
  <2>1. PICK r : r = [s EXCEPT !.at = "lines"]
    OBVIOUS
  <2>2. SectionEntered(s) = [r EXCEPT !.word = << >>]
    BY <1>2, <2>1 DEF SectionEntered
  <2>3. r = Step("lines", i, l, k, w, t, p, c, z)
    BY <2>1 DEF Step
  <2> QED
    BY <2>2, <2>3 DEF Step
<1>3. ASSUME NEW j, Named(s) # {}, j = Min(Named(s))
      PROVE  SectionEntered(s) = Step("items", i, l, Yes, << >>, j + 1, SectionItems[Sections[j]],
                                      Append(c, <<Sections[j]>>), z)
  <2>1. PICK x, y, d : x = j + 1 /\ y = SectionItems[Sections[j]] /\ d = Append(c, <<Sections[j]>>)
    OBVIOUS
  <2>2. SectionEntered(s) = [s EXCEPT !.at = "items", !.tested = x, !.pending = y, !.certificate = d,
                                      !.word = << >>, !.asked = TRUE]
    BY <1>1, <1>3, <2>1 DEF SectionEntered
  <2>3. PICK r1 : r1 = [s EXCEPT !.at = "items"]
    OBVIOUS
  <2>4. PICK r2 : r2 = [r1 EXCEPT !.tested = x]
    OBVIOUS
  <2>5. PICK r3 : r3 = [r2 EXCEPT !.pending = y]
    OBVIOUS
  <2>6. PICK r4 : r4 = [r3 EXCEPT !.certificate = d]
    OBVIOUS
  <2>7. PICK r5 : r5 = [r4 EXCEPT !.word = << >>]
    OBVIOUS
  <2>8. SectionEntered(s) = [r5 EXCEPT !.asked = TRUE]
    BY <2>2, <2>3, <2>4, <2>5, <2>6, <2>7
  <2>9. r2 = Step("items", i, l, k, w, x, p, c, z)
    <3>1. r1 = Step("items", i, l, k, w, t, p, c, z)
      BY <2>3 DEF Step
    <3> QED
      BY <2>4, <3>1 DEF Step
  <2>10. r4 = Step("items", i, l, k, w, x, y, d, z)
    <3>1. r3 = Step("items", i, l, k, w, x, y, c, z)
      BY <2>5, <2>9 DEF Step
    <3> QED
      BY <2>6, <3>1 DEF Step
  <2>11. r5 = Step("items", i, l, k, << >>, x, y, d, z)
    BY <2>7, <2>10 DEF Step
  <2>12. SectionEntered(s) = Step("items", i, l, Yes, << >>, x, y, d, z)
    BY <2>8, <2>11 DEF Step, Yes
  <2> QED
    BY <2>1, <2>12
<1> QED
  BY <1>2, <1>3

LEMMA ItemReadIs ==
  ASSUME NEW a, NEW i, NEW l, NEW k, NEW w, NEW t, NEW p, NEW c, NEW z, NEW s,
         s = Step(a, i, l, k, w, t, p, c, z)
  PROVE  /\ After(p[1], w) = Error => ItemRead(s) = Step("refused", i, l, k, << >>, t, p, c, z)
         /\ After(p[1], w) # Error =>
              ItemRead(s) = Step(a, i, l, Some(After(p[1], w) \o Tail(p)), << >>, t,
                                 After(p[1], w) \o Tail(p), Append(c, w), SizesAfter(z, p[1], w))
<1>1. s.certificate = c /\ s.word = w /\ s.pending = p /\ s.sizes = z
  BY StepParts
<1>2. ASSUME After(p[1], w) = Error
      PROVE  ItemRead(s) = Step("refused", i, l, k, << >>, t, p, c, z)
  <2>1. PICK r : r = [s EXCEPT !.at = "refused"]
    OBVIOUS
  <2>2. ItemRead(s) = [r EXCEPT !.word = << >>]
    BY <1>1, <1>2, <2>1 DEF ItemRead
  <2>3. r = Step("refused", i, l, k, w, t, p, c, z)
    BY <2>1 DEF Step
  <2> QED
    BY <2>2, <2>3 DEF Step
<1>3. ASSUME NEW rest, After(p[1], w) # Error, rest = After(p[1], w) \o Tail(p)
      PROVE  ItemRead(s) = Step(a, i, l, Some(rest), << >>, t, rest, Append(c, w),
                                SizesAfter(z, p[1], w))
  <2>1. PICK more, y, d : more = Some(rest) /\ y = SizesAfter(z, p[1], w) /\ d = Append(c, w)
    OBVIOUS
  <2>2. ItemRead(s) = [s EXCEPT !.pending = rest, !.certificate = d, !.sizes = y, !.word = << >>,
                                !.asked = more]
    BY <1>1, <1>3, <2>1 DEF ItemRead, Some
  <2>3. PICK r1 : r1 = [s EXCEPT !.pending = rest]
    OBVIOUS
  <2>4. PICK r2 : r2 = [r1 EXCEPT !.certificate = d]
    OBVIOUS
  <2>5. PICK r3 : r3 = [r2 EXCEPT !.sizes = y]
    OBVIOUS
  <2>6. PICK r4 : r4 = [r3 EXCEPT !.word = << >>]
    OBVIOUS
  <2>7. ItemRead(s) = [r4 EXCEPT !.asked = more]
    BY <2>2, <2>3, <2>4, <2>5, <2>6
  <2>8. r2 = Step(a, i, l, k, w, t, rest, d, z)
    <3>1. r1 = Step(a, i, l, k, w, t, rest, c, z)
      BY <2>3 DEF Step
    <3> QED
      BY <2>4, <3>1 DEF Step
  <2>9. r4 = Step(a, i, l, k, << >>, t, rest, d, y)
    <3>1. r3 = Step(a, i, l, k, w, t, rest, d, y)
      BY <2>5, <2>8 DEF Step
    <3> QED
      BY <2>6, <3>1 DEF Step
  <2>10. ItemRead(s) = Step(a, i, l, more, << >>, t, rest, d, y)
    BY <2>7, <2>9 DEF Step
  <2> QED
    BY <2>1, <2>10
<1> QED
  BY <1>2, <1>3

LEMMA SectionOverIs ==
  ASSUME NEW a, NEW i, NEW l, NEW k, NEW w, NEW t, NEW p, NEW c, NEW z, NEW s,
         s = Step(a, i, l, k, w, t, p, c, z)
  PROVE  SectionOver(s) = Step(IF SizesAgree(z, Sections[t - 1]) THEN "compare" ELSE "refused",
                               i, l, k, w, t, p, c, z)
<1>1. s.sizes = z /\ s.tested = t
  BY StepParts
<1>2. PICK x : x = IF SizesAgree(z, Sections[t - 1]) THEN "compare" ELSE "refused"
  OBVIOUS
<1>3. SectionOver(s) = [s EXCEPT !.at = x]
  BY <1>1, <1>2 DEF SectionOver
<1> QED
  BY <1>2, <1>3 DEF Step

(***************************************************************************)
(* Where main() is in the reading.                                         *)
(***************************************************************************)
\* Before it looks for a second section of one name, main() has a token that is still
\* where the buffer has it.
SectionInv ==
  /\ pc = "items" => tested > 1
  /\ pc = "compare" /\ tested = 1 => section = Pointer /\ \E e : StringAt(buffer, token, e)

LEMMA InitSection == Init => SectionInv
BY DEF Init, MainInit, SectionInv

LEMMA NextSection == CallInv /\ ParserInv /\ SectionInv /\ [Next]_vars => SectionInv'
<1> SUFFICES ASSUME CallInv, ParserInv, SectionInv, [Next]_vars PROVE SectionInv'
  OBVIOUS
<1>1. CASE SectionToken
  <2>1. /\ pc' = "compare" /\ section' = Pointer /\ UNCHANGED <<buffer, token, allocation>>
        /\ call = "got_token"
    BY <1>1 DEF SectionToken, Calls
  <2>2. \E e : StringAt(buffer, token, e)
    BY <2>1 DEF ParserInv, TokenInv
  <2> QED
    BY <2>1, <2>2 DEF SectionInv, Pointer
<1>2. CASE EnterSection
  <2>1. PICK i : i = Min(Matching)
    OBVIOUS
  <2>2. i \in 1..7
    BY <1>2, <2>1, FirstMatching DEF EnterSection, CallInv
  <2>3. pc' = "items" /\ tested' = i + 1
    BY <1>2, <2>1 DEF EnterSection
  <2> QED
    BY <2>2, <2>3 DEF SectionInv
<1>3. CASE Item
  BY <1>3 DEF Item, SectionInv
<1>4. CASE SectionRead
  BY <1>4 DEF SectionRead, SectionInv
<1>5. CASE Parse
  <2>1. pc \in {"lines", "first", "items"} /\ UNCHANGED <<pc, tested>>
    BY <1>5 DEF Parse, mainVars, ParserStep, CutLine, Refill, LeaveGetLine, NeedLine, NextPiece,
                InGetLine, CallInv
  <2> QED
    BY <2>1 DEF SectionInv
<1>6. CASE UNCHANGED <<pc, tested, section, buffer, token, allocation>>
  BY <1>6 DEF SectionInv, Pointer
<1>7. CASE pc' \notin {"items", "compare"}
  BY <1>7 DEF SectionInv
<1>8. NextLine \/ NoToken \/ FirstToken \/ SectionsOver \/ Comment \/ NoSection \/ Refuse \/ Written =>
        pc' \notin {"items", "compare"}
  BY DEF NextLine, mainVars, NoToken, FirstToken, SectionsOver, Comment, NoSection, Refuse, Written
<1> QED
  BY <1>1, <1>2, <1>3, <1>4, <1>5, <1>6, <1>7, <1>8
     DEF Next, MainStep, Generate, Terminating, vars, mainVars, parserVars

LEMMA NamesWord ==
  ASSUME ParserInv, SectionInv, pc = "compare", tested = 1, NEW name, name # NUL
  PROVE  Names(name) <=> Word = <<name>>
<1>1. section.allocation = allocation /\ section.at = token
  BY DEF SectionInv, Pointer
<1>2. PICK b, p : b = buffer /\ p = token
  OBVIOUS
<1>3. PICK e : StringAt(b, p, e)
  BY <1>2 DEF SectionInv
<1>4. b \in Seq(Chars)
  BY <1>2 DEF ParserInv, ParserType
<1>5. PICK w : w = StringOf(b, p)
  OBVIOUS
<1>6. Word = w
  BY <1>2, <1>5 DEF Word, CString, StringOf
<1>7. /\ p \in Nat /\ e \in Nat /\ 1 <= p /\ p <= e /\ e <= Len(b) /\ Len(b) \in Nat
      /\ w \in Seq(Chars) /\ Len(w) = e - p
      /\ \A i \in 1..(e - p) : w[i] = b[p + i - 1]
  BY <1>3, <1>4, <1>5, StringOfIs, LenProperties
<1>8. b[e] = NUL /\ \A i \in p..(e - 1) : b[i] # NUL
  BY <1>3 DEF StringAt
<1>9. Names(name) <=> p < Len(b) /\ b[p] = name /\ b[p + 1] = NUL
  BY <1>1, <1>2 DEF Names
<1>10. ASSUME p < Len(b), b[p] = name, b[p + 1] = NUL PROVE w = <<name>>
  <2>1. p # e
    BY <1>8, <1>10
  <2>2. p + 1 = e
    <3>1. p + 1 <= e
      BY <1>7, <2>1
    <3>2. p + 1 \notin p..(e - 1)
      BY <1>8, <1>10
    <3> QED
      BY <1>7, <3>1, <3>2
  <2>3. e - p = 1 /\ 1 \in 1..(e - p) /\ p + 1 - 1 = p
    BY <1>7, <2>2
  <2>4. Len(w) = 1 /\ w[1] = name
    <3>1. w[1] = b[p + 1 - 1]
      BY <1>7, <2>3
    <3> QED
      BY <1>7, <1>10, <2>3, <3>1
  <2> QED
    BY <1>7, <2>4
<1>11. ASSUME w = <<name>> PROVE p < Len(b) /\ b[p] = name /\ b[p + 1] = NUL
  <2>1. Len(w) = 1 /\ w[1] = name
    BY <1>11
  <2>2. e - p = 1
    BY <1>7, <2>1
  <2>3. e = p + 1 /\ 1 \in 1..(e - p) /\ p + 1 - 1 = p
    BY <1>7, <2>2
  <2>4. w[1] = b[p + 1 - 1]
    BY <1>7, <2>3
  <2> QED
    BY <1>7, <1>8, <2>1, <2>3, <2>4
<1> QED
  BY <1>6, <1>9, <1>10, <1>11

\* There is no line at the end of the file only.
LEMMA LeaveGetLineEnds ==
  ASSUME ParserInv, call = "line", LeaveGetLine
  PROVE  call' \in {"got_line", "no_line"} /\ (call' = "no_line" <=> NoneAhead)
<1>1. /\ InGetLine /\ ~looking /\ (next_line # Null \/ eof)
      /\ call' = IF next_line # Null \/ CString(line) # << >> THEN "got_line" ELSE "no_line"
      /\ ParserType /\ EofInv /\ LineInv
  BY DEF LeaveGetLine, ParserInv, InGetLine
<1>2. CASE next_line # Null
  BY <1>1, <1>2 DEF NoneAhead, Unfinished
<1>3. CASE next_line = Null
  <2>1. Unread = << >>
    <3>1. eof /\ position = Len(file)
      BY <1>1, <1>3 DEF EofInv
    <3>2. position + 1 \in Int /\ Len(file) \in Int /\ Len(file) < position + 1
      BY <1>1, <3>1, UnreadIs
    <3> QED
      BY <3>2, SubSeqEmpty DEF Unread
  <2>2. PICK s : s = CString(line)
    OBVIOUS
  <2>3. s \in Seq(Chars)
    BY <1>1, <2>2, LineString DEF ParserInv
  <2>4. s \o << >> = s
    BY <2>3, ConcatEmptySeq
  <2>5. Unfinished /\ Ahead = s
    BY <1>1, <1>3, <2>1, <2>2, <2>4 DEF Unfinished, Ahead
  <2> QED
    BY <1>1, <1>3, <2>2, <2>5 DEF NoneAhead
<1> QED
  BY <1>1, <1>2, <1>3

LEMMA ReaderIs ==
  Reader = Step(ReaderAt, StreamInput, StreamLine, ReaderAsked, ReaderWord, tested, pending,
                certificate, sizes)
BY DEF Reader, Step

LEMMA ReadOnIs ==
  ASSUME NEW a, NEW i, NEW l, NEW k, NEW w, NEW t, NEW p, NEW c, NEW z, NEW s,
         s = Step(a, i, l, k, w, t, p, c, z)
  PROVE  /\ k /\ l # << >> => ReadOn(s) = WordGiven(s)
         /\ k /\ l = << >> /\ i # << >> => ReadOn(s) = LineTaken(s)
         /\ k /\ l = << >> /\ i = << >> => ReadOn(s) = WithoutWord(s)
         /\ ~k /\ a = "lines" => ReadOn(s) = LineRead(s)
         /\ ~k /\ a = "first" => ReadOn(s) = FirstWordRead(s)
         /\ ~k /\ a = "compare" => ReadOn(s) = SectionEntered(s)
         /\ ~k /\ a = "items" /\ p # << >> => ReadOn(s) = ItemRead(s)
         /\ ~k /\ a = "items" /\ p = << >> => ReadOn(s) = SectionOver(s)
<1>1. s.at = a /\ s.input = i /\ s.line = l /\ s.asked = k /\ s.pending = p
  BY StepParts
<1> QED
  BY <1>1 DEF ReadOn, TokenRead

\* Where main() is, by its own variables.
ReaderPlace ==
  /\ pc = "lines" /\ call = "idle" => ReaderAt = "lines" /\ ReaderAsked = No
  /\ pc = "lines" /\ call # "idle" =>
       /\ ReaderAt = IF AtEnd THEN "over" ELSE "first"
       /\ ReaderAsked = IF AtEnd THEN No ELSE Yes
  /\ pc \in {"first", "items"} /\ call # "no_token" => ReaderAt = pc
  /\ pc \in {"first", "items"} /\ call = "no_token" =>
       ReaderAt = IF pc = "items" /\ pending[1] \in Checked THEN "refused" ELSE "crashed"
  /\ pc \in {"read", "print", "done"} => ReaderAt = "over"
  /\ pc \in {"compare", "refused", "crashed"} => ReaderAt = pc
  /\ pc # "lines" => ReaderAsked = IF call \in {"token", "token_line"} THEN Yes ELSE No
  /\ ReaderWord = IF call = "got_token" \/ (pc = "compare" /\ tested = 1) THEN Word ELSE << >>

LEMMA ReaderPlaceIs == CallInv => ReaderPlace
<1> SUFFICES ASSUME CallInv PROVE ReaderPlace
  OBVIOUS
<1>1. pc = "lines" => call \notin {"no_token", "token", "token_line"}
  BY DEF CallInv
<1>2. pc \notin {"lines", "first", "items"} => call = "idle"
  BY DEF CallInv
<1>3. /\ pc = "lines" /\ call = "idle" => ReaderAsked = No
      /\ pc = "lines" /\ call # "idle" => ReaderAsked = IF AtEnd THEN No ELSE Yes
      /\ pc # "lines" => ReaderAsked = IF call \in {"token", "token_line"} THEN Yes ELSE No
  BY <1>1 DEF ReaderAsked, Yes, No
<1>4. /\ pc = "lines" /\ call = "idle" => ReaderAt = "lines"
      /\ pc = "lines" /\ call # "idle" => ReaderAt = IF AtEnd THEN "over" ELSE "first"
  BY <1>1 DEF ReaderAt
<1>5. pc \in {"first", "items"} /\ call # "no_token" => ReaderAt = pc
  BY DEF ReaderAt
<1>6. pc \in {"first", "items"} /\ call = "no_token" =>
        ReaderAt = IF pc = "items" /\ pending[1] \in Checked THEN "refused" ELSE "crashed"
  BY DEF ReaderAt
<1>7. pc \in {"read", "print", "done"} => ReaderAt = "over"
  BY <1>2 DEF ReaderAt
<1>8. pc \in {"compare", "refused", "crashed"} => ReaderAt = pc
  BY <1>2 DEF ReaderAt
<1> QED
  BY <1>3, <1>4, <1>5, <1>6, <1>7, <1>8 DEF ReaderPlace, ReaderWord

LEMMA ReaderPlaceNext == CallInv' => ReaderPlace'
BY ReaderPlaceIs, PTL

\* What is read next, by where main() is.
LEMMA ReaderReads ==
         /\ ReaderAsked /\ StreamLine # << >> =>
              ReadOn(Reader) = Step(ReaderAt, StreamInput, Trimmed(Behind(StreamLine, Separators)), No,
                                    Before(StreamLine, Separators), tested, pending, certificate, sizes)
         /\ ReaderAsked /\ StreamLine = << >> /\ StreamInput # << >> =>
              ReadOn(Reader) = Step(ReaderAt, Behind(StreamInput, NL), Trimmed(Before(StreamInput, NL)),
                                    ReaderAsked, ReaderWord, tested, pending, certificate, sizes)
         /\ ReaderAsked /\ StreamLine = << >> /\ StreamInput = << >> =>
              ReadOn(Reader) = Step(IF ReaderAt = "items" /\ pending[1] \in Checked THEN "refused" ELSE "crashed",
                                    StreamInput, StreamLine, No, ReaderWord, tested, pending,
                                    certificate, sizes)
         /\ ~ReaderAsked /\ ReaderAt = "lines" =>
              ReadOn(Reader) = Step(IF StreamInput = << >> THEN "over" ELSE "first", Behind(StreamInput, NL),
                                    Trimmed(Before(StreamInput, NL)), Some(StreamInput), ReaderWord,
                                    tested, pending, certificate, sizes)
         /\ ~ReaderAsked /\ ReaderAt = "first" =>
              /\ ReaderWord = <<"%">> =>
                   ReadOn(Reader) = Step("lines", StreamInput, StreamLine, ReaderAsked, << >>, tested,
                                         pending, certificate, sizes)
              /\ ReaderWord # <<"%">> =>
                   ReadOn(Reader) = Step("compare", StreamInput, StreamLine, ReaderAsked, ReaderWord, 1,
                                         pending, certificate, sizes)
         /\ ~ReaderAsked /\ ReaderAt = "compare" =>
              /\ Named(Reader) = {} =>
                   ReadOn(Reader) = Step("lines", StreamInput, StreamLine, ReaderAsked, << >>, tested,
                                         pending, certificate, sizes)
              /\ \A j : Named(Reader) # {} /\ j = Min(Named(Reader)) =>
                   ReadOn(Reader) = Step("items", StreamInput, StreamLine, Yes, << >>, j + 1,
                                         SectionItems[Sections[j]], Append(certificate, <<Sections[j]>>), sizes)
         /\ ~ReaderAsked /\ ReaderAt = "items" /\ pending # << >> =>
              /\ After(pending[1], ReaderWord) = Error =>
                   ReadOn(Reader) = Step("refused", StreamInput, StreamLine, ReaderAsked, << >>, tested,
                                         pending, certificate, sizes)
              /\ After(pending[1], ReaderWord) # Error =>
                   ReadOn(Reader) = Step(ReaderAt, StreamInput, StreamLine,
                                         Some(After(pending[1], ReaderWord) \o Tail(pending)), << >>, tested,
                                         After(pending[1], ReaderWord) \o Tail(pending),
                                         Append(certificate, ReaderWord),
                                         SizesAfter(sizes, pending[1], ReaderWord))
         /\ ~ReaderAsked /\ ReaderAt = "items" /\ pending = << >> =>
              ReadOn(Reader) = Step(IF SizesAgree(sizes, Sections[tested - 1]) THEN "compare" ELSE "refused",
                                    StreamInput, StreamLine, ReaderAsked, ReaderWord, tested, pending,
                                    certificate, sizes)
<1>1. PICK s, a, i, l, k, w, t, p, c, z :
        /\ s = Reader /\ a = ReaderAt /\ i = StreamInput /\ l = StreamLine /\ k = ReaderAsked
        /\ w = ReaderWord /\ t = tested /\ p = pending /\ c = certificate /\ z = sizes
  OBVIOUS
<1>2. s = Step(a, i, l, k, w, t, p, c, z)
  BY <1>1, ReaderIs
<1>3. /\ k /\ l # << >> => ReadOn(s) = WordGiven(s)
      /\ k /\ l = << >> /\ i # << >> => ReadOn(s) = LineTaken(s)
      /\ k /\ l = << >> /\ i = << >> => ReadOn(s) = WithoutWord(s)
      /\ ~k /\ a = "lines" => ReadOn(s) = LineRead(s)
      /\ ~k /\ a = "first" => ReadOn(s) = FirstWordRead(s)
      /\ ~k /\ a = "compare" => ReadOn(s) = SectionEntered(s)
      /\ ~k /\ a = "items" /\ p # << >> => ReadOn(s) = ItemRead(s)
      /\ ~k /\ a = "items" /\ p = << >> => ReadOn(s) = SectionOver(s)
  BY <1>2, ReadOnIs
<1>4. WordGiven(s) = Step(a, i, Trimmed(Behind(l, Separators)), No, Before(l, Separators), t, p, c, z)
  BY <1>2, WordGivenIs
<1>5. LineTaken(s) = Step(a, Behind(i, NL), Trimmed(Before(i, NL)), k, w, t, p, c, z)
  BY <1>2, LineTakenIs
<1>6. WithoutWord(s) = Step(IF a = "items" /\ p[1] \in Checked THEN "refused" ELSE "crashed",
                            i, l, No, w, t, p, c, z)
  BY <1>2, WithoutWordIs
<1>7. LineRead(s) = Step(IF i = << >> THEN "over" ELSE "first", Behind(i, NL),
                         Trimmed(Before(i, NL)), Some(i), w, t, p, c, z)
  BY <1>2, LineReadIs
<1>8. /\ w = <<"%">> => FirstWordRead(s) = Step("lines", i, l, k, << >>, t, p, c, z)
      /\ w # <<"%">> => FirstWordRead(s) = Step("compare", i, l, k, w, 1, p, c, z)
  BY <1>2, FirstWordReadIs
<1>9. /\ Named(s) = {} => SectionEntered(s) = Step("lines", i, l, k, << >>, t, p, c, z)
      /\ \A j : Named(s) # {} /\ j = Min(Named(s)) =>
           SectionEntered(s) = Step("items", i, l, Yes, << >>, j + 1, SectionItems[Sections[j]],
                                    Append(c, <<Sections[j]>>), z)
  BY <1>2, SectionEnteredIs
<1>10. /\ After(p[1], w) = Error => ItemRead(s) = Step("refused", i, l, k, << >>, t, p, c, z)
       /\ After(p[1], w) # Error =>
            ItemRead(s) = Step(a, i, l, Some(After(p[1], w) \o Tail(p)), << >>, t,
                               After(p[1], w) \o Tail(p), Append(c, w), SizesAfter(z, p[1], w))
  BY <1>2, ItemReadIs
<1>11. SectionOver(s) = Step(IF SizesAgree(z, Sections[t - 1]) THEN "compare" ELSE "refused",
                             i, l, k, w, t, p, c, z)
  BY <1>2, SectionOverIs
<1>12. /\ k /\ l # << >> =>
            ReadOn(s) = Step(a, i, Trimmed(Behind(l, Separators)), No, Before(l, Separators), t, p, c, z)
       /\ k /\ l = << >> /\ i # << >> =>
            ReadOn(s) = Step(a, Behind(i, NL), Trimmed(Before(i, NL)), k, w, t, p, c, z)
       /\ k /\ l = << >> /\ i = << >> =>
            ReadOn(s) = Step(IF a = "items" /\ p[1] \in Checked THEN "refused" ELSE "crashed",
                             i, l, No, w, t, p, c, z)
       /\ ~k /\ a = "lines" =>
            ReadOn(s) = Step(IF i = << >> THEN "over" ELSE "first", Behind(i, NL),
                             Trimmed(Before(i, NL)), Some(i), w, t, p, c, z)
  BY <1>3, <1>4, <1>5, <1>6, <1>7
<1>13. /\ ~k /\ a = "first" =>
            /\ w = <<"%">> => ReadOn(s) = Step("lines", i, l, k, << >>, t, p, c, z)
            /\ w # <<"%">> => ReadOn(s) = Step("compare", i, l, k, w, 1, p, c, z)
       /\ ~k /\ a = "compare" =>
            /\ Named(s) = {} => ReadOn(s) = Step("lines", i, l, k, << >>, t, p, c, z)
            /\ \A j : Named(s) # {} /\ j = Min(Named(s)) =>
                 ReadOn(s) = Step("items", i, l, Yes, << >>, j + 1, SectionItems[Sections[j]],
                                  Append(c, <<Sections[j]>>), z)
  BY <1>3, <1>8, <1>9
<1>14. /\ ~k /\ a = "items" /\ p # << >> =>
            /\ After(p[1], w) = Error => ReadOn(s) = Step("refused", i, l, k, << >>, t, p, c, z)
            /\ After(p[1], w) # Error =>
                 ReadOn(s) = Step(a, i, l, Some(After(p[1], w) \o Tail(p)), << >>, t,
                                  After(p[1], w) \o Tail(p), Append(c, w), SizesAfter(z, p[1], w))
       /\ ~k /\ a = "items" /\ p = << >> =>
            ReadOn(s) = Step(IF SizesAgree(z, Sections[t - 1]) THEN "compare" ELSE "refused",
                             i, l, k, w, t, p, c, z)
  BY <1>3, <1>10, <1>11
<1> QED
  BY <1>1, <1>12, <1>13, <1>14

LEMMA ReaderNextIs ==
  Reader' = Step(ReaderAt', StreamInput', StreamLine', ReaderAsked', ReaderWord', tested',
                 pending', certificate', sizes')
BY DEF Reader, Step

ReadStep == Reader' = Reader \/ Reader' = ReadOn(Reader)

LEMMA NextLineReads == CallInv /\ CallInv' /\ ParserInv /\ NextLine => ReadStep
<1> SUFFICES ASSUME CallInv, CallInv', ParserInv, NextLine PROVE Reader' = ReadOn(Reader)
  BY DEF ReadStep
<1>1. /\ pc = "lines" /\ pc' = "lines" /\ call = "idle" /\ call' = "line" /\ get_line("line")
      /\ UNCHANGED <<tested, pending, certificate, sizes>>
  BY DEF NextLine, get_line, mainVars
<1>2. TakesLine
  BY <1>1, GetLineMaps DEF InGetLine
<1>3. AtEnd' <=> StreamInput = << >>
  <2>1. StreamInput = CString(next_line) \o Unread
    BY <1>1 DEF StreamInput, Unfinished, InGetLine, Ahead
  <2>2. Unfinished' /\ Ahead' = CString(next_line) \o Unread
    BY <1>1 DEF get_line, Unfinished, InGetLine, Ahead, CString, Unread
  <2> QED
    BY <1>1, <2>1, <2>2 DEF AtEnd, NoneAhead
<1>4. ReaderWord = << >> /\ ReaderWord' = << >>
  BY <1>1 DEF ReaderWord
<1>5. ReaderAt = "lines" /\ ~ReaderAsked
  BY <1>1, ReaderPlaceIs DEF ReaderPlace, No
<1>6. /\ ReaderAt' = IF StreamInput = << >> THEN "over" ELSE "first"
      /\ ReaderAsked' = Some(StreamInput)
  BY <1>1, <1>3, ReaderPlaceNext DEF ReaderPlace, Some, Yes, No
<1>7. ReadOn(Reader) = Step(IF StreamInput = << >> THEN "over" ELSE "first", Behind(StreamInput, NL),
                             Trimmed(Before(StreamInput, NL)), Some(StreamInput), ReaderWord,
                             tested, pending, certificate, sizes)
  BY <1>5, ReaderReads
<1> QED
  BY <1>1, <1>2, <1>4, <1>6, <1>7, ReaderNextIs DEF TakesLine

\* Where nothing is read.
LEMMA ReaderSame ==
  /\ UNCHANGED <<tested, pending, certificate, sizes, StreamInput, StreamLine>>
  /\ ReaderAt' = ReaderAt /\ ReaderAsked' = ReaderAsked /\ ReaderWord' = ReaderWord
  => ReadStep
BY DEF Reader, ReadStep

LEMMA FirstTokenReads == CallInv /\ CallInv' /\ ParserInv /\ FirstToken => ReadStep
<1> SUFFICES ASSUME CallInv, CallInv', ParserInv, FirstToken PROVE ReadStep
  OBVIOUS
<1>1. /\ pc = "lines" /\ pc' = "first" /\ call = "got_line" /\ call' = "token" /\ Calls("token")
      /\ UNCHANGED <<tested, pending, certificate, sizes>>
  BY DEF FirstToken, Calls
<1>2. UNCHANGED <<StreamInput, StreamLine>>
  BY <1>1, CallsMaps DEF InGetLine, asked, Asks, Forgets
<1>3. ~AtEnd
  BY <1>1 DEF AtEnd
<1>4. ReaderAt = "first" /\ ReaderAsked = Yes /\ ReaderWord = << >>
  BY <1>1, <1>3, ReaderPlaceIs DEF ReaderPlace
<1>5. ReaderAt' = "first" /\ ReaderAsked' = Yes /\ ReaderWord' = << >>
  BY <1>1, ReaderPlaceNext DEF ReaderPlace
<1> QED
  BY <1>1, <1>2, <1>4, <1>5, ReaderSame

LEMMA SectionsOverReads == CallInv /\ CallInv' /\ ParserInv /\ SectionsOver => ReadStep
<1> SUFFICES ASSUME CallInv, CallInv', ParserInv, SectionsOver PROVE ReadStep
  OBVIOUS
<1>1. /\ pc = "lines" /\ pc' \in {"print", "read"} /\ call = "no_line" /\ call' = "idle" /\ Calls("idle")
      /\ UNCHANGED <<tested, pending, certificate, sizes>>
  BY DEF SectionsOver, Calls
<1>2. UNCHANGED <<StreamInput, StreamLine>>
  BY <1>1, CallsMaps DEF InGetLine, asked, Asks, Forgets
<1>3. AtEnd
  BY <1>1 DEF AtEnd
<1>4. ReaderAt = "over" /\ ReaderAsked = No /\ ReaderWord = << >>
  BY <1>1, <1>3, ReaderPlaceIs DEF ReaderPlace
<1>5. ReaderAt' = "over" /\ ReaderAsked' = No /\ ReaderWord' = << >>
  BY <1>1, ReaderPlaceNext DEF ReaderPlace
<1> QED
  BY <1>1, <1>2, <1>4, <1>5, ReaderSame

LEMMA CommentReads == CallInv /\ CallInv' /\ ParserInv /\ Comment => ReadStep
<1> SUFFICES ASSUME CallInv, CallInv', ParserInv, Comment PROVE Reader' = ReadOn(Reader)
  BY DEF ReadStep
<1>1. /\ pc = "first" /\ pc' = "lines" /\ call = "got_token" /\ call' = "idle" /\ Calls("idle")
      /\ Word = <<"%">> /\ UNCHANGED <<tested, pending, certificate, sizes>>
  BY DEF Comment, Calls
<1>2. UNCHANGED <<StreamInput, StreamLine>>
  BY <1>1, CallsMaps DEF InGetLine, asked, Asks, Forgets
<1>3. ReaderAt = "first" /\ ReaderAsked = No /\ ReaderWord = <<"%">>
  BY <1>1, ReaderPlaceIs DEF ReaderPlace
<1>4. ReaderAt' = "lines" /\ ReaderAsked' = No /\ ReaderWord' = << >>
  BY <1>1, ReaderPlaceNext DEF ReaderPlace
<1>5. ~ReaderAsked
  BY <1>3 DEF No
<1>6. ReadOn(Reader) = Step("lines", StreamInput, StreamLine, ReaderAsked, << >>, tested,
                            pending, certificate, sizes)
  BY <1>3, <1>5, ReaderReads
<1> QED
  BY <1>1, <1>2, <1>3, <1>4, <1>6, ReaderNextIs

LEMMA SectionTokenReads == CallInv /\ CallInv' /\ ParserInv /\ SectionToken => ReadStep
<1> SUFFICES ASSUME CallInv, CallInv', ParserInv, SectionToken PROVE Reader' = ReadOn(Reader)
  BY DEF ReadStep
<1>1. /\ pc = "first" /\ pc' = "compare" /\ call = "got_token" /\ call' = "idle" /\ Calls("idle")
      /\ Word # <<"%">> /\ tested' = 1 /\ UNCHANGED <<pending, certificate, sizes, buffer, token>>
  BY DEF SectionToken, Calls
<1>2. UNCHANGED <<StreamInput, StreamLine>>
  BY <1>1, CallsMaps DEF InGetLine, asked, Asks, Forgets
<1>3. ReaderAt = "first" /\ ReaderAsked = No /\ ReaderWord = Word
  BY <1>1, ReaderPlaceIs DEF ReaderPlace
<1>4. ReaderAt' = "compare" /\ ReaderAsked' = No /\ ReaderWord' = Word'
  BY <1>1, ReaderPlaceNext DEF ReaderPlace
<1>5. Word' = Word
  BY <1>1 DEF Word, CString
<1>6. ~ReaderAsked
  BY <1>3 DEF No
<1>7. ReadOn(Reader) = Step("compare", StreamInput, StreamLine, ReaderAsked, ReaderWord, 1,
                            pending, certificate, sizes)
  BY <1>1, <1>3, <1>6, ReaderReads
<1> QED
  BY <1>1, <1>2, <1>3, <1>4, <1>5, <1>7, ReaderNextIs

LEMMA SectionNames ==
  /\ Len(Sections) = 7
  /\ \A i \in 1..7 : Sections[i] # NUL /\ << >> # <<Sections[i]>>
<1>1. /\ Sections[1] = "V" /\ Sections[2] = "I" /\ Sections[3] = "O" /\ Sections[4] = "C"
      /\ Sections[5] = "R" /\ Sections[6] = "S" /\ Sections[7] = "D" /\ Len(Sections) = 7
  BY DEF Sections
<1>2. \A i \in 1..7 : i = 1 \/ i = 2 \/ i = 3 \/ i = 4 \/ i = 5 \/ i = 6 \/ i = 7
  OBVIOUS
<1>3. \A i \in 1..7 : Sections[i] # NUL
  BY <1>1, <1>2 DEF NUL
<1>4. \A x : << >> # <<x>>
  OBVIOUS
<1> QED
  BY <1>1, <1>3, <1>4

\* The first comparisons find what the word names; the others, if not misled, nothing.
LEMMA NamedIs ==
  ASSUME CallInv, ParserInv, SectionInv, pc = "compare"
  PROVE  /\ tested = 1 => Named(Reader) = Matching
         /\ tested > 1 => Named(Reader) = {}
<1>1. tested \in 1..8
  BY DEF CallInv
<1>2. \A i \in tested..7 : i \in 1..7
  BY <1>1
<1>3. Reader.word = ReaderWord /\ Reader.tested = tested
  BY DEF Reader
<1>4. call = "idle"
  BY DEF CallInv
<1>5. ReaderWord = IF tested = 1 THEN Word ELSE << >>
  BY <1>4 DEF ReaderWord
<1>6. PICK w : w = ReaderWord
  OBVIOUS
<1>7. Named(Reader) = {i \in tested..7 : w = <<Sections[i]>>}
  BY <1>3, <1>6, SectionNames DEF Named
<1>8. CASE tested = 1
  <2>1. w = Word
    BY <1>5, <1>6, <1>8
  <2>2. \A i \in tested..7 : Names(Sections[i]) <=> w = <<Sections[i]>>
    BY <1>2, <1>8, <2>1, NamesWord, SectionNames
  <2>3. Matching = {i \in tested..7 : Names(Sections[i])}
    BY SectionNames DEF Matching
  <2> QED
    BY <1>7, <1>8, <2>2, <2>3
<1>9. CASE tested > 1
  <2>1. w = << >>
    BY <1>1, <1>5, <1>6, <1>9
  <2>2. \A i \in tested..7 : w # <<Sections[i]>>
    BY <1>2, <2>1, SectionNames
  <2> QED
    BY <1>7, <1>9, <2>2
<1> QED
  BY <1>1, <1>8, <1>9

LEMMA EnterSectionReads ==
  CallInv /\ CallInv' /\ ParserInv /\ SectionInv /\ EnterSection => misled' \/ ReadStep
<1> SUFFICES ASSUME CallInv, CallInv', ParserInv, SectionInv, EnterSection PROVE misled' \/ ReadStep
  OBVIOUS
<1>1. PICK j : j = Min(Matching)
  OBVIOUS
<1>2. /\ pc = "compare" /\ pc' = "items" /\ call' = "token" /\ Calls("token") /\ Matching # {}
      /\ tested' = j + 1 /\ pending' = SectionItems[Sections[j]]
      /\ certificate' = Append(certificate, <<Sections[j]>>) /\ sizes' = sizes
      /\ misled' = (misled \/ tested > 1)
  BY <1>1 DEF EnterSection, Calls
<1>3. CASE tested > 1
  BY <1>2, <1>3
<1>4. CASE tested = 1
  <2>1. call = "idle"
    BY <1>2 DEF CallInv
  <2>2. UNCHANGED <<StreamInput, StreamLine>>
    BY <1>2, <2>1, CallsMaps DEF InGetLine, asked, Asks, Forgets
  <2>3. ReaderAt = "compare" /\ ReaderAsked = No
    BY <1>2, <2>1, ReaderPlaceIs DEF ReaderPlace
  <2>4. ReaderAt' = "items" /\ ReaderAsked' = Yes /\ ReaderWord' = << >>
    BY <1>2, ReaderPlaceNext DEF ReaderPlace
  <2>5. ~ReaderAsked
    BY <2>3 DEF No
  <2>6. Named(Reader) # {} /\ j = Min(Named(Reader))
    BY <1>1, <1>2, <1>4, NamedIs
  <2>7. ReadOn(Reader) = Step("items", StreamInput, StreamLine, Yes, << >>, j + 1,
                              SectionItems[Sections[j]], Append(certificate, <<Sections[j]>>), sizes)
    BY <2>3, <2>5, <2>6, ReaderReads
  <2> QED
    BY <1>2, <2>2, <2>4, <2>7, ReaderNextIs DEF ReadStep
<1> QED
  BY <1>3, <1>4 DEF CallInv

LEMMA NoSectionReads ==
  CallInv /\ CallInv' /\ ParserInv /\ SectionInv /\ NoSection => ReadStep
<1> SUFFICES ASSUME CallInv, CallInv', ParserInv, SectionInv, NoSection PROVE Reader' = ReadOn(Reader)
  BY DEF ReadStep
<1>1. /\ pc = "compare" /\ pc' = "lines" /\ Matching = {}
      /\ UNCHANGED <<tested, pending, certificate, sizes, parserVars>>
  BY DEF NoSection
<1>2. call = "idle" /\ call' = "idle"
  BY <1>1 DEF CallInv, parserVars
<1>3. UNCHANGED <<StreamInput, StreamLine>>
  BY <1>1, StreamKept DEF StreamVars
<1>4. ReaderAt = "compare" /\ ReaderAsked = No
  BY <1>1, <1>2, ReaderPlaceIs DEF ReaderPlace
<1>5. ReaderAt' = "lines" /\ ReaderAsked' = No /\ ReaderWord' = << >>
  BY <1>1, <1>2, ReaderPlaceNext DEF ReaderPlace
<1>6. ~ReaderAsked
  BY <1>4 DEF No
<1>7. Named(Reader) = {}
  BY <1>1, NamedIs DEF CallInv
<1>8. ReadOn(Reader) = Step("lines", StreamInput, StreamLine, ReaderAsked, << >>, tested,
                            pending, certificate, sizes)
  BY <1>4, <1>6, <1>7, ReaderReads
<1> QED
  BY <1>1, <1>3, <1>4, <1>5, <1>8, ReaderNextIs

LEMMA ItemReads == CallInv /\ CallInv' /\ ParserInv /\ Item => ReadStep
<1> SUFFICES ASSUME CallInv, CallInv', ParserInv, Item PROVE Reader' = ReadOn(Reader)
  BY DEF ReadStep
<1>1. PICK next : next = After(pending[1], Word)
  OBVIOUS
<1>2. /\ pc = "items" /\ pc' = "items" /\ call = "got_token" /\ pending # << >> /\ next # Error
      /\ tested' = tested /\ pending' = next \o Tail(pending)
      /\ certificate' = Append(certificate, Word) /\ sizes' = SizesAfter(sizes, pending[1], Word)
      /\ call' = IF pending' = << >> THEN "idle" ELSE "token"
  BY <1>1 DEF Item
<1>3. UNCHANGED <<StreamInput, StreamLine>>
  BY ItemMaps DEF Asks, Forgets
<1>4. ReaderAt = "items" /\ ReaderAsked = No /\ ReaderWord = Word
  BY <1>2, ReaderPlaceIs DEF ReaderPlace
<1>5. /\ ReaderAt' = "items" /\ ReaderWord' = << >>
      /\ ReaderAsked' = IF pending' = << >> THEN No ELSE Yes
  BY <1>2, ReaderPlaceNext DEF ReaderPlace
<1>6. ReaderAsked' = Some(pending')
  BY <1>5 DEF Some, Yes, No
<1>7. ~ReaderAsked
  BY <1>4 DEF No
<1>8. ReadOn(Reader) = Step(ReaderAt, StreamInput, StreamLine, Some(next \o Tail(pending)), << >>, tested,
                            next \o Tail(pending), Append(certificate, ReaderWord),
                            SizesAfter(sizes, pending[1], ReaderWord))
  BY <1>1, <1>2, <1>4, <1>7, ReaderReads
<1> QED
  BY <1>2, <1>3, <1>4, <1>5, <1>6, <1>8, ReaderNextIs

LEMMA RefuseReads == CallInv /\ CallInv' /\ ParserInv /\ Refuse => ReadStep
<1> SUFFICES ASSUME CallInv, CallInv', ParserInv, Refuse PROVE Reader' = ReadOn(Reader)
  BY DEF ReadStep
<1>1. /\ pc = "items" /\ pc' = "refused" /\ call = "got_token" /\ call' = "idle" /\ Calls("idle")
      /\ pending # << >> /\ After(pending[1], Word) = Error
      /\ UNCHANGED <<tested, pending, certificate, sizes>>
  BY DEF Refuse, Calls
<1>2. UNCHANGED <<StreamInput, StreamLine>>
  BY <1>1, CallsMaps DEF InGetLine, asked, Asks, Forgets
<1>3. ReaderAt = "items" /\ ReaderAsked = No /\ ReaderWord = Word
  BY <1>1, ReaderPlaceIs DEF ReaderPlace
<1>4. ReaderAt' = "refused" /\ ReaderAsked' = No /\ ReaderWord' = << >>
  BY <1>1, ReaderPlaceNext DEF ReaderPlace
<1>5. ~ReaderAsked
  BY <1>3 DEF No
<1>6. ReadOn(Reader) = Step("refused", StreamInput, StreamLine, ReaderAsked, << >>, tested,
                            pending, certificate, sizes)
  BY <1>1, <1>3, <1>5, ReaderReads
<1> QED
  BY <1>1, <1>2, <1>3, <1>4, <1>6, ReaderNextIs

LEMMA SectionReadReads ==
  CallInv /\ CallInv' /\ ParserInv /\ SectionInv /\ SectionRead => ReadStep
<1> SUFFICES ASSUME CallInv, CallInv', ParserInv, SectionInv, SectionRead PROVE Reader' = ReadOn(Reader)
  BY DEF ReadStep
<1>1. /\ pc = "items" /\ pending = << >>
      /\ pc' = IF SizesAgree(sizes, Sections[tested - 1]) THEN "compare" ELSE "refused"
      /\ UNCHANGED <<tested, pending, certificate, sizes, parserVars>>
  BY DEF SectionRead
<1>2. call = "idle" /\ call' = "idle"
  BY <1>1 DEF CallInv, parserVars
<1>3. UNCHANGED <<StreamInput, StreamLine>>
  BY <1>1, StreamKept DEF StreamVars
<1>4. ReaderAt = "items" /\ ReaderAsked = No /\ ReaderWord = << >>
  BY <1>1, <1>2, ReaderPlaceIs DEF ReaderPlace
<1>5. tested' # 1
  BY <1>1 DEF SectionInv
<1>6. ReaderAt' = pc' /\ ReaderAsked' = No /\ ReaderWord' = << >>
  BY <1>1, <1>2, <1>5, ReaderPlaceNext DEF ReaderPlace
<1>7. ~ReaderAsked
  BY <1>4 DEF No
<1>8. ReadOn(Reader) = Step(IF SizesAgree(sizes, Sections[tested - 1]) THEN "compare" ELSE "refused",
                            StreamInput, StreamLine, ReaderAsked, ReaderWord, tested, pending,
                            certificate, sizes)
  BY <1>1, <1>4, <1>7, ReaderReads
<1> QED
  BY <1>1, <1>3, <1>4, <1>6, <1>8, ReaderNextIs

LEMMA NoTokenReads == CallInv /\ CallInv' /\ ParserInv /\ NoToken => ReadStep
<1> SUFFICES ASSUME CallInv, CallInv', ParserInv, NoToken PROVE ReadStep
  OBVIOUS
<1>1. /\ call = "no_token" /\ call' = "idle" /\ Calls("idle")
      /\ pc' = IF pc = "items" /\ pending[1] \in Checked THEN "refused" ELSE "crashed"
      /\ UNCHANGED <<tested, pending, certificate, sizes>>
  BY DEF NoToken, Calls
<1>2. UNCHANGED <<StreamInput, StreamLine>>
  BY <1>1, CallsMaps DEF InGetLine, asked, Asks, Forgets
<1>3. pc \in {"first", "items"}
  BY <1>1 DEF CallInv
<1>4. ReaderAt = pc' /\ ReaderAsked = No /\ ReaderWord = << >>
  BY <1>1, <1>3, ReaderPlaceIs DEF ReaderPlace
<1>5. ReaderAt' = pc' /\ ReaderAsked' = No /\ ReaderWord' = << >>
  BY <1>1, ReaderPlaceNext DEF ReaderPlace
<1> QED
  BY <1>1, <1>2, <1>4, <1>5, ReaderSame

LEMMA WrittenReads == CallInv /\ CallInv' /\ ParserInv /\ Written => ReadStep
<1> SUFFICES ASSUME CallInv, CallInv', ParserInv, Written PROVE ReadStep
  OBVIOUS
<1>1. /\ pc = "print" /\ pc' = "done" /\ UNCHANGED <<tested, pending, certificate, sizes, parserVars>>
  BY DEF Written
<1>2. call = "idle" /\ call' = "idle"
  BY <1>1 DEF CallInv, parserVars
<1>3. UNCHANGED <<StreamInput, StreamLine>>
  BY <1>1, StreamKept DEF StreamVars
<1>4. ReaderAt = "over" /\ ReaderAsked = No /\ ReaderWord = << >>
  BY <1>1, <1>2, ReaderPlaceIs DEF ReaderPlace
<1>5. ReaderAt' = "over" /\ ReaderAsked' = No /\ ReaderWord' = << >>
  BY <1>1, <1>2, ReaderPlaceNext DEF ReaderPlace
<1> QED
  BY <1>1, <1>3, <1>4, <1>5, ReaderSame

\* While get_line looks for a newline, nothing is read.
LEMMA LookingReads ==
  ASSUME CallInv, CallInv', InGetLine, call' = call, UNCHANGED <<mainVars, StreamVars>>,
         NoneAhead' <=> NoneAhead
  PROVE  ReadStep
<1>1. UNCHANGED <<pc, tested, pending, certificate, sizes, StreamInput, StreamLine>>
  BY DEF mainVars, StreamVars
<1>2. /\ call \in {"line", "token_line"} /\ pc \in {"lines", "first", "items"}
      /\ pc = "lines" <=> call = "line"
  BY DEF InGetLine, CallInv, TokenCalls
<1>3. AtEnd' <=> AtEnd
  BY <1>2 DEF AtEnd, NoneAhead
<1>4. ReaderAt' = ReaderAt /\ ReaderAsked' = ReaderAsked
  <2>1. CASE pc = "lines"
    <3>1. ReaderAt = (IF AtEnd THEN "over" ELSE "first") /\ ReaderAsked = (IF AtEnd THEN No ELSE Yes)
      BY <1>2, <2>1, ReaderPlaceIs DEF ReaderPlace
    <3>2. ReaderAt' = (IF AtEnd' THEN "over" ELSE "first") /\ ReaderAsked' = (IF AtEnd' THEN No ELSE Yes)
      BY <1>1, <1>2, <2>1, ReaderPlaceNext DEF ReaderPlace
    <3> QED
      BY <1>3, <3>1, <3>2
  <2>2. CASE pc # "lines"
    <3>1. ReaderAt = pc /\ ReaderAsked = Yes
      BY <1>2, <2>2, ReaderPlaceIs DEF ReaderPlace
    <3>2. ReaderAt' = pc /\ ReaderAsked' = Yes
      BY <1>1, <1>2, <2>2, ReaderPlaceNext DEF ReaderPlace
    <3> QED
      BY <3>1, <3>2
  <2> QED
    BY <2>1, <2>2
<1>5. ReaderWord = << >> /\ ReaderWord' = << >>
  BY <1>1, <1>2 DEF ReaderWord
<1> QED
  BY <1>1, <1>4, <1>5, ReaderSame

LEMMA CutLineReads ==
  ASSUME CallInv, CallInv', ParserInv, CutLine, UNCHANGED mainVars
  PROVE  ReadStep
<1>1. InGetLine /\ call' = call
  BY DEF CutLine
<1>2. UNCHANGED StreamVars /\ (NoneAhead' <=> NoneAhead)
  BY CutLineMaps
<1> QED
  BY <1>1, <1>2, LookingReads

LEMMA RefillReads ==
  ASSUME NoNul, CallInv, CallInv', ParserInv, Refill, UNCHANGED mainVars
  PROVE  ReadStep
<1>1. InGetLine /\ call' = call
  BY DEF Refill
<1>2. UNCHANGED StreamVars /\ (NoneAhead' <=> NoneAhead)
  BY RefillMaps
<1> QED
  BY <1>1, <1>2, LookingReads

LEMMA LeaveGetLineReads ==
  ASSUME CallInv, CallInv', ParserInv, LeaveGetLine, UNCHANGED mainVars
  PROVE  ReadStep
<1>1. UNCHANGED <<pc, tested, pending, certificate, sizes>>
  BY DEF mainVars
<1>2. /\ call \in {"line", "token_line"} /\ pc \in {"lines", "first", "items"}
      /\ pc = "lines" <=> call = "line"
      /\ call = "token_line" => call' \in {"token", "no_token"}
  BY DEF LeaveGetLine, InGetLine, CallInv, TokenCalls
<1>3. EndsFile \/ UNCHANGED StreamVars
  BY LeaveGetLineMaps
<1>4. ReaderWord = << >> /\ ReaderWord' = << >>
  <2>1. call' # "got_token" /\ pc' # "compare"
    BY <1>1, <1>2 DEF LeaveGetLine, InGetLine
  <2> QED
    BY <1>2, <2>1 DEF ReaderWord
<1>5. CASE call = "line"
  <2>1. call' \in {"got_line", "no_line"} /\ (call' = "no_line" <=> NoneAhead)
    BY <1>5, LeaveGetLineEnds
  <2>2. UNCHANGED <<StreamInput, StreamLine>>
    BY <1>3, <1>5 DEF EndsFile, asked, StreamVars
  <2>3. AtEnd' <=> AtEnd
    BY <1>5, <2>1 DEF AtEnd, NoneAhead
  <2>4. ReaderAt = (IF AtEnd THEN "over" ELSE "first") /\ ReaderAsked = (IF AtEnd THEN No ELSE Yes)
    BY <1>2, <1>5, ReaderPlaceIs DEF ReaderPlace
  <2>5. ReaderAt' = (IF AtEnd' THEN "over" ELSE "first") /\ ReaderAsked' = (IF AtEnd' THEN No ELSE Yes)
    BY <1>1, <1>2, <1>5, <2>1, ReaderPlaceNext DEF ReaderPlace
  <2>6. ReaderAt' = ReaderAt /\ ReaderAsked' = ReaderAsked
    BY <2>3, <2>4, <2>5
  <2> QED
    BY <1>1, <1>4, <2>2, <2>6, ReaderSame
<1>6. CASE call = "token_line" /\ call' = "token"
  <2>1. UNCHANGED <<StreamInput, StreamLine>>
    BY <1>3, <1>6 DEF EndsFile, asked, StreamVars
  <2>2. ReaderAt = pc /\ ReaderAsked = Yes
    BY <1>2, <1>6, ReaderPlaceIs DEF ReaderPlace
  <2>3. ReaderAt' = pc /\ ReaderAsked' = Yes
    BY <1>1, <1>2, <1>6, ReaderPlaceNext DEF ReaderPlace
  <2> QED
    BY <1>1, <1>4, <2>1, <2>2, <2>3, ReaderSame
<1>7. CASE call = "token_line" /\ call' = "no_token"
  <2>1. StreamLine = << >> /\ StreamInput = << >> /\ UNCHANGED <<StreamInput, StreamLine>>
    BY <1>3, <1>7 DEF EndsFile, asked, StreamVars
  <2>2. ReaderAt = pc /\ ReaderAsked = Yes
    BY <1>2, <1>7, ReaderPlaceIs DEF ReaderPlace
  <2>3. /\ ReaderAt' = IF pc = "items" /\ pending[1] \in Checked THEN "refused" ELSE "crashed"
        /\ ReaderAsked' = No
    BY <1>1, <1>2, <1>7, ReaderPlaceNext DEF ReaderPlace
  <2>4. ReaderAsked
    BY <2>2 DEF Yes
  <2>5. ReadOn(Reader) =
          Step(IF ReaderAt = "items" /\ pending[1] \in Checked THEN "refused" ELSE "crashed",
               StreamInput, StreamLine, No, ReaderWord, tested, pending, certificate, sizes)
    BY <2>1, <2>4, ReaderReads
  <2> QED
    BY <1>1, <1>4, <2>1, <2>2, <2>3, <2>5, ReaderNextIs DEF ReadStep
<1> QED
  BY <1>2, <1>5, <1>6, <1>7

LEMMA NeedLineReads ==
  ASSUME CallInv, CallInv', ParserInv, NeedLine, UNCHANGED mainVars
  PROVE  ReadStep
<1>1. UNCHANGED <<pc, tested, pending, certificate, sizes>>
  BY DEF mainVars
<1>2. call = "token" /\ call' = "token_line" /\ pc \in {"first", "items"}
  BY DEF NeedLine, get_line, CallInv
<1>3. ReaderAt = pc /\ ReaderAsked = Yes /\ ReaderWord = << >>
  BY <1>2, ReaderPlaceIs DEF ReaderPlace
<1>4. ReaderAt' = pc /\ ReaderAsked' = Yes /\ ReaderWord' = << >>
  BY <1>1, <1>2, ReaderPlaceNext DEF ReaderPlace
<1>5. SkipsLine \/ UNCHANGED StreamVars
  BY NeedLineMaps
<1>6. CASE SkipsLine
  <2>1. ReaderAsked
    BY <1>3 DEF Yes
  <2>2. StreamLine = << >> /\ StreamInput # << >> /\ TakesLine
    BY <1>6 DEF SkipsLine
  <2>3. ReadOn(Reader) = Step(ReaderAt, Behind(StreamInput, NL), Trimmed(Before(StreamInput, NL)),
                              ReaderAsked, ReaderWord, tested, pending, certificate, sizes)
    BY <2>1, <2>2, ReaderReads
  <2> QED
    BY <1>1, <1>3, <1>4, <2>2, <2>3, ReaderNextIs DEF ReadStep, TakesLine
<1>7. CASE UNCHANGED StreamVars
  BY <1>1, <1>3, <1>4, <1>7, ReaderSame DEF StreamVars
<1> QED
  BY <1>5, <1>6, <1>7

LEMMA NextPieceReads ==
  ASSUME CallInv, CallInv', ParserInv, NextPiece, UNCHANGED mainVars
  PROVE  ReadStep
<1>1. UNCHANGED <<pc, tested, pending, certificate, sizes>>
  BY DEF mainVars
<1>2. call = "token" /\ call' \in {"token", "got_token"} /\ pc \in {"first", "items"}
  BY DEF NextPiece, CallInv
<1>3. ReaderAt = pc /\ ReaderAsked = Yes /\ ReaderWord = << >>
  BY <1>2, ReaderPlaceIs DEF ReaderPlace
<1>4. /\ ReaderAt' = pc /\ ReaderAsked' = (IF call' = "token" THEN Yes ELSE No)
      /\ ReaderWord' = IF call' = "token" THEN << >> ELSE Word'
  BY <1>1, <1>2, ReaderPlaceNext DEF ReaderPlace
<1>5. GivesToken \/ UNCHANGED StreamVars
  BY NextPieceMaps
<1>6. CASE GivesToken
  <2>1. ReaderAsked
    BY <1>3 DEF Yes
  <2>2. call' = "got_token" /\ StreamToken' = Word'
    BY <1>2, <1>6 DEF GivesToken, asked, StreamToken, Word
  <2>3. /\ StreamLine # << >> /\ StreamToken' = Before(StreamLine, Separators)
        /\ StreamLine' = Trimmed(Behind(StreamLine, Separators)) /\ StreamInput' = StreamInput
    BY <1>6 DEF GivesToken
  <2>4. ReadOn(Reader) = Step(ReaderAt, StreamInput, Trimmed(Behind(StreamLine, Separators)), No,
                              Before(StreamLine, Separators), tested, pending, certificate, sizes)
    BY <2>1, <2>3, ReaderReads
  <2> QED
    BY <1>1, <1>3, <1>4, <2>2, <2>3, <2>4, ReaderNextIs DEF ReadStep
<1>7. CASE UNCHANGED StreamVars
  <2>1. call' = "token"
    BY <1>2, <1>7 DEF StreamVars, asked
  <2> QED
    BY <1>1, <1>3, <1>4, <1>7, <2>1, ReaderSame DEF StreamVars
<1> QED
  BY <1>5, <1>6, <1>7

LEMMA NothingReads ==
  ASSUME UNCHANGED <<mainVars, parserVars>>
  PROVE  ReadStep
<1>1. UNCHANGED <<StreamInput, StreamLine>>
  BY StreamKept DEF StreamVars
<1>2. /\ UNCHANGED <<pc, tested, pending, certificate, sizes, call>>
      /\ UNCHANGED <<file, position, buffer, next_line, line, token, looking>>
  BY DEF mainVars, parserVars
<1>3. AtEnd' = AtEnd /\ Word' = Word
  BY <1>2 DEF AtEnd, NoneAhead, Unfinished, InGetLine, Ahead, CString, Unread, Word
<1>4. ReaderAt' = ReaderAt
  BY <1>2, <1>3 DEF ReaderAt
<1>5. ReaderAsked' = ReaderAsked
  BY <1>2, <1>3 DEF ReaderAsked
<1>6. ReaderWord' = ReaderWord
  BY <1>2, <1>3 DEF ReaderWord
<1> QED
  BY <1>1, <1>2, <1>4, <1>5, <1>6, ReaderSame

LEMMA NextReads ==
  NoNul /\ CallInv /\ ParserInv /\ SectionInv /\ [Next]_vars => ReadStep \/ (misled' /\ EnterSection)
<1> SUFFICES ASSUME NoNul, CallInv, ParserInv, SectionInv, [Next]_vars
             PROVE  ReadStep \/ (misled' /\ EnterSection)
  OBVIOUS
<1>1. CallInv'
  BY NextCalls
<1>2. CASE Parse
  <2>1. UNCHANGED mainVars
    BY <1>2 DEF Parse
  <2> QED
    BY <1>1, <1>2, <2>1, CutLineReads, RefillReads, LeaveGetLineReads, NeedLineReads, NextPieceReads
       DEF Parse, ParserStep
<1>3. CASE UNCHANGED <<mainVars, parserVars>>
  BY <1>3, NothingReads
<1>4. CASE NextLine
  BY <1>1, <1>4, NextLineReads
<1>5. CASE FirstToken
  BY <1>1, <1>5, FirstTokenReads
<1>6. CASE SectionsOver
  BY <1>1, <1>6, SectionsOverReads
<1>7. CASE Comment
  BY <1>1, <1>7, CommentReads
<1>8. CASE SectionToken
  BY <1>1, <1>8, SectionTokenReads
<1>9. CASE EnterSection
  BY <1>1, <1>9, EnterSectionReads
<1>10. CASE NoSection
  BY <1>1, <1>10, NoSectionReads
<1>11. CASE Item
  BY <1>1, <1>11, ItemReads
<1>12. CASE Refuse
  BY <1>1, <1>12, RefuseReads
<1>13. CASE SectionRead
  BY <1>1, <1>13, SectionReadReads
<1>14. CASE NoToken
  BY <1>1, <1>14, NoTokenReads
<1>15. CASE Written
  BY <1>1, <1>15, WrittenReads
<1> QED
  BY <1>2, <1>3, <1>4, <1>5, <1>6, <1>7, <1>8, <1>9, <1>10, <1>11, <1>12, <1>13, <1>14, <1>15
     DEF Next, MainStep, Generate, Terminating, vars

LEMMA InitReads == Init => Reader = Beginning(file)
<1> SUFFICES ASSUME Init PROVE Reader = Beginning(file)
  OBVIOUS
<1>1. StreamInput = file /\ StreamLine = << >>
  BY InitInput
<1>2. pc = "lines" /\ call = "idle" /\ tested = 1 /\ pending = << >> /\ certificate = << >>
  BY DEF Init, MainInit, ParserInit
<1>3. sizes = [solutions |-> 0, number_solutions |-> 0, constraints |-> 0,
               number_problem_constraints |-> 0, number_derived_constraints |-> 0]
  BY DEF Init, MainInit
<1>4. ReaderAt = "lines" /\ ReaderWord = << >>
  BY <1>2 DEF ReaderAt, ReaderWord
<1>5. ReaderAsked = FALSE
  BY <1>2 DEF ReaderAsked
<1> QED
  BY <1>1, <1>2, <1>3, <1>4, <1>5 DEF Reader, Beginning

\* Nothing but the text decides what main() reads, whatever pieces read() returns it in,
\* wherever they end and however often the buffer moves: every step is the next one of
\* the reading of the text, or leaves the reading where it is, until a second section is
\* entered for one name.
THEOREM TextDecides ==
  ASSUME NoNul
  PROVE  Spec => ReadsOn
<1>1. Init => SectionInv /\ Reader = Beginning(file)
  BY InitSection, InitReads
<1>2. CallInv /\ ParserInv /\ SectionInv /\ [Next]_vars => SectionInv'
  BY NextSection
<1>3. CallInv /\ ParserInv /\ SectionInv /\ [Next]_vars =>
        [misled' \/ Reader' \in {Reader, ReadOn(Reader)}]_vars
  BY NextReads DEF ReadStep
<1> QED
  BY <1>1, <1>2, <1>3, ParserInvariant, PTL DEF Spec, ReadsOn

(***************************************************************************)
(* The reading of a text after n steps.                                    *)
(***************************************************************************)
IsReading(r, n, text) == r = [i \in 0..n |-> IF i = 0 THEN Beginning(text) ELSE ReadOn(r[i - 1])]

LEMMA ReadingExists ==
  ASSUME NEW text
  PROVE  \A n \in Nat : \E r : IsReading(r, n, text)
<1> DEFINE S == {n \in Nat : \E r : IsReading(r, n, text)}
<1>1. 0 \in S
  <2>1. IsReading([i \in 0..0 |-> Beginning(text)], 0, text)
    BY DEF IsReading
  <2> QED
    BY <2>1
<1>2. ASSUME NEW n \in Nat, n \in S PROVE n + 1 \in S
  <2>1. PICK r : IsReading(r, n, text)
    BY <1>2
  <2> DEFINE q == [i \in 0..(n + 1) |-> IF i = n + 1 THEN ReadOn(r[n]) ELSE r[i]]
  <2>2. ASSUME NEW i \in 0..(n + 1)
        PROVE  q[i] = IF i = 0 THEN Beginning(text) ELSE ReadOn(q[i - 1])
    <3>1. CASE i = n + 1
      <4>1. n \in 0..(n + 1) /\ i - 1 = n /\ i # 0 /\ n # n + 1
        BY <3>1
      <4>2. q[n] = r[n] /\ q[i] = ReadOn(r[n])
        BY <3>1, <4>1
      <4> QED
        BY <3>1, <4>1, <4>2
    <3>2. CASE i # n + 1
      <4>1. i \in 0..n
        BY <3>2
      <4>2. q[i] = r[i] /\ (i > 0 => q[i - 1] = r[i - 1])
        BY <4>1
      <4>3. r[i] = IF i = 0 THEN Beginning(text) ELSE ReadOn(r[i - 1])
        BY <2>1, <4>1 DEF IsReading
      <4> QED
        BY <4>1, <4>2, <4>3
    <3> QED
      BY <3>1, <3>2
  <2>3. q = [i \in 0..(n + 1) |-> q[i]]
    OBVIOUS
  <2> HIDE DEF q
  <2>4. IsReading(q, n + 1, text)
    BY <2>2, <2>3 DEF IsReading
  <2> QED
    BY <2>4
<1> HIDE DEF S
<1>3. \A n \in Nat : n \in S
  BY <1>1, <1>2, N!Inductive
<1> QED
  BY <1>3 DEF S

LEMMA ReadingChosen ==
  ASSUME NEW n \in Nat, NEW text
  PROVE  \E r : IsReading(r, n, text) /\ Reading(text, n) = r[n]
<1> DEFINE c == CHOOSE r : IsReading(r, n, text)
<1>1. IsReading(c, n, text)
  BY ReadingExists
<1>2. Reading(text, n) = c[n]
  BY DEF Reading, IsReading
<1> QED
  BY <1>1, <1>2

\* A longer reading begins as a shorter one.
LEMMA ReadingUnique ==
  ASSUME NEW n \in Nat, NEW text, NEW r, NEW q, NEW l \in Nat, n <= l,
         IsReading(r, n, text), IsReading(q, l, text)
  PROVE  \A i \in 0..n : r[i] = q[i]
<1> DEFINE S == {i \in Nat : i <= n => r[i] = q[i]}
<1>1. 0 \in S
  BY DEF IsReading
<1>2. ASSUME NEW i \in Nat, i \in S PROVE i + 1 \in S
  <2> SUFFICES ASSUME i + 1 <= n PROVE r[i + 1] = q[i + 1]
    OBVIOUS
  <2>1. r[i] = q[i]
    BY <1>2
  <2>2. i + 1 \in 0..n /\ i + 1 \in 0..l /\ i + 1 # 0 /\ (i + 1) - 1 = i
    OBVIOUS
  <2>3. r[i + 1] = ReadOn(r[i]) /\ q[i + 1] = ReadOn(q[i])
    BY <2>2 DEF IsReading
  <2> QED
    BY <2>1, <2>2, <2>3
<1> HIDE DEF S
<1>3. \A i \in Nat : i \in S
  BY <1>1, <1>2, N!Inductive
<1> QED
  BY <1>3 DEF S

\* What Reading is, step by step.
LEMMA ReadingBegins ==
  ASSUME NEW text
  PROVE  Reading(text, 0) = Beginning(text)
BY ReadingChosen DEF IsReading

LEMMA ReadingGoesOn ==
  ASSUME NEW n \in Nat, NEW text
  PROVE  Reading(text, n + 1) = ReadOn(Reading(text, n))
<1>1. n + 1 \in Nat /\ n <= n + 1 /\ n \in 0..n
  OBVIOUS
<1>2. PICK r : IsReading(r, n, text) /\ Reading(text, n) = r[n]
  BY ReadingChosen
<1>3. PICK q : IsReading(q, n + 1, text) /\ Reading(text, n + 1) = q[n + 1]
  BY <1>1, ReadingChosen
<1>4. r[n] = q[n]
  BY <1>1, <1>2, <1>3, ReadingUnique
<1>5. q[n + 1] = ReadOn(q[n])
  BY <1>3 DEF IsReading
<1> QED
  BY <1>2, <1>3, <1>4, <1>5

(***************************************************************************)
(* Every reading ends.                                                     *)
(***************************************************************************)
ReadingFields ==
  {"at", "input", "line", "asked", "word", "tested", "pending", "certificate", "sizes"}

\* What is asked for is the first word of a line, or an item.
ReadingType(s) ==
  /\ s = [x \in ReadingFields |-> s[x]]
  /\ s.at \in {"lines", "first", "compare", "items", "over", "refused", "crashed"}
  /\ s.input \in Seq(Chars) /\ s.line \in Seq(Chars)
  /\ s.asked \in BOOLEAN
  /\ s.asked => s.at \in {"first", "items"}

LEMMA Weighed ==
  ASSUME NEW i \in Nat, NEW l \in Nat, NEW p \in 0..4
  PROVE  2 * i + l \in Nat /\ 5 * (2 * i + l) + p \in Nat
OBVIOUS

\* A line of l bytes taken from a text of i leaves r of them.
LEMMA CountedTwice ==
  ASSUME NEW i \in Nat, NEW b \in Nat, NEW r \in Nat, NEW l \in 0..b, NEW k \in Nat,
         b + r <= i, r < i
  PROVE  2 * r + l < 2 * i + k
OBVIOUS

\* A word taken from a line of k bytes leaves r of them, or l without white space.
LEMMA CountedOnce ==
  ASSUME NEW i \in Nat, NEW k \in Nat, NEW r \in Nat, NEW l \in 0..r, r < k
  PROVE  2 * i + l < 2 * i + k
OBVIOUS

LEMMA WeightIs ==
  ASSUME NEW s, ReadingType(s)
  PROVE  Remaining(s) \in Nat /\ StepsLeft(s) \in 0..4 /\ Weight(s) \in Nat
<1>1. Len(s.input) \in Nat /\ Len(s.line) \in Nat
  BY DEF ReadingType
<1>2. StepsLeft(s) \in 0..4
  BY DEF StepsLeft
<1> QED
  BY <1>1, <1>2, Weighed DEF Remaining, Weight

\* Less of the text is left, or as much and a step less to do without it.
LEMMA LessWeight ==
  ASSUME NEW s, NEW t, ReadingType(s), ReadingType(t),
         \/ Remaining(t) < Remaining(s)
         \/ Remaining(t) = Remaining(s) /\ StepsLeft(t) < StepsLeft(s)
  PROVE  Weight(t) < Weight(s)
<1> DEFINE u == Remaining(s)   v == Remaining(t)   p == StepsLeft(s)   q == StepsLeft(t)
<1>1. u \in Nat /\ v \in Nat /\ p \in 0..4 /\ q \in 0..4
  BY WeightIs
<1>2. v < u \/ (v = u /\ q < p)
  OBVIOUS
<1>3. Weight(s) = 5 * u + p /\ Weight(t) = 5 * v + q
  BY DEF Weight
<1> HIDE DEF u, v, p, q
<1> QED
  BY <1>1, <1>2, <1>3

LEMMA TrimmedShorter ==
  ASSUME NEW t \in Seq(Chars)
  PROVE  Trimmed(t) \in Seq(Chars) /\ Len(Trimmed(t)) \in 0..Len(t)
<1>1. PICK i \in 1..(Len(t) + 1) : Trimmed(t) = SubSeq(t, i, Len(t))
  BY TrimmedIs
<1>2. \A j \in i..Len(t) : t[j] \in Chars
  BY <1>1
<1>3. /\ SubSeq(t, i, Len(t)) \in Seq(Chars)
      /\ Len(SubSeq(t, i, Len(t))) = IF i <= Len(t) THEN Len(t) - i + 1 ELSE 0
  BY <1>1, <1>2, SubSeqProperties
<1>4. Len(t) \in Nat
  OBVIOUS
<1> QED
  BY <1>1, <1>3, <1>4

\* A piece and what is behind it are shorter than the two together.
LEMMA PiecesShorter ==
  ASSUME NEW t \in Seq(Chars), NEW D, t # <<>>
  PROVE  /\ Before(t, D) \in Seq(Chars) /\ Behind(t, D) \in Seq(Chars)
         /\ Len(Before(t, D)) + Len(Behind(t, D)) <= Len(t)
         /\ Len(Behind(t, D)) < Len(t)
<1> DEFINE f == First(t, D)
<1>1. f \in 1..(Len(t) + 1) /\ Len(t) \in Nat /\ Len(t) > 0
  BY FirstIs
<1>2. /\ Before(t, D) \in Seq(Chars) /\ Len(Before(t, D)) = f - 1
      /\ Behind(t, D) \in Seq(Chars)
      /\ Len(Behind(t, D)) = IF f <= Len(t) THEN Len(t) - f ELSE 0
  BY PartsOfWord
<1> HIDE DEF f
<1> QED
  BY <1>1, <1>2

LEMMA LineTakenLess ==
  ASSUME NEW s, ReadingType(s), s.input # <<>>
  PROVE  /\ LineTaken(s).input \in Seq(Chars) /\ LineTaken(s).line \in Seq(Chars)
         /\ Remaining(LineTaken(s)) < Remaining(s)
<1> DEFINE b == Before(s.input, {"\n"})   r == Behind(s.input, {"\n"})
<1>1. s.input \in Seq(Chars) /\ Len(s.input) \in Nat /\ Len(s.line) \in Nat
  BY DEF ReadingType
<1>2. /\ b \in Seq(Chars) /\ r \in Seq(Chars)
      /\ Len(b) + Len(r) <= Len(s.input) /\ Len(r) < Len(s.input)
  BY <1>1, PiecesShorter
<1>3. Trimmed(b) \in Seq(Chars) /\ Len(Trimmed(b)) \in 0..Len(b)
  BY <1>2, TrimmedShorter
<1>4. LineTaken(s).line = Trimmed(b) /\ LineTaken(s).input = r
  BY DEF LineTaken, ReadingType, ReadingFields
<1>5. Len(b) \in Nat /\ Len(r) \in Nat
  BY <1>2
<1> HIDE DEF b, r
<1>6. 2 * Len(r) + Len(Trimmed(b)) < 2 * Len(s.input) + Len(s.line)
  BY <1>1, <1>2, <1>3, <1>5, CountedTwice
<1> QED
  BY <1>2, <1>3, <1>4, <1>6 DEF Remaining

LEMMA WordGivenLess ==
  ASSUME NEW s, ReadingType(s), s.line # <<>>
  PROVE  /\ WordGiven(s).input \in Seq(Chars) /\ WordGiven(s).line \in Seq(Chars)
         /\ Remaining(WordGiven(s)) < Remaining(s)
<1> DEFINE r == Behind(s.line, Separators)
<1>1. s.input \in Seq(Chars) /\ s.line \in Seq(Chars) /\ Len(s.input) \in Nat /\ Len(s.line) \in Nat
  BY DEF ReadingType
<1>2. r \in Seq(Chars) /\ Len(r) < Len(s.line) /\ Len(r) \in Nat
  BY <1>1, PiecesShorter
<1>3. Trimmed(r) \in Seq(Chars) /\ Len(Trimmed(r)) \in 0..Len(r)
  BY <1>2, TrimmedShorter
<1>4. WordGiven(s).line = Trimmed(r) /\ WordGiven(s).input = s.input
  BY DEF WordGiven, ReadingType, ReadingFields
<1> HIDE DEF r
<1>5. 2 * Len(s.input) + Len(Trimmed(r)) < 2 * Len(s.input) + Len(s.line)
  BY <1>1, <1>2, <1>3, CountedOnce
<1> QED
  BY <1>1, <1>3, <1>4, <1>5 DEF Remaining

LEMMA OverStays ==
  ASSUME NEW s, ReadingType(s), Over(s)
  PROVE  ReadOn(s) = s
BY DEF ReadOn, ReadingType, Over

LEMMA TokenReadLess ==
  ASSUME NEW s, ReadingType(s), s.asked
  PROVE  ReadingType(TokenRead(s)) /\ Weight(TokenRead(s)) < Weight(s)
<1>1. ~Over(s) /\ s.at \in {"first", "items"}
  BY DEF ReadingType, Over
<1>2. CASE s.line # <<>>
  <2>1. TokenRead(s) = WordGiven(s)
    BY <1>2 DEF TokenRead
  <2>2. ReadingType(WordGiven(s))
    BY <1>1, <1>2, WordGivenLess DEF WordGiven, ReadingType, ReadingFields
  <2> QED
    BY <1>2, <2>1, <2>2, WordGivenLess, LessWeight
<1>3. CASE s.line = <<>> /\ s.input # <<>>
  <2>1. TokenRead(s) = LineTaken(s)
    BY <1>3 DEF TokenRead
  <2>2. ReadingType(LineTaken(s))
    BY <1>1, <1>3, LineTakenLess DEF LineTaken, ReadingType, ReadingFields
  <2> QED
    BY <1>3, <2>1, <2>2, LineTakenLess, LessWeight
<1>4. CASE s.line = <<>> /\ s.input = <<>>
  <2>1. TokenRead(s) = WithoutWord(s)
    BY <1>4 DEF TokenRead
  <2>2. /\ ReadingType(WithoutWord(s))
        /\ WithoutWord(s).input = s.input /\ WithoutWord(s).line = s.line
        /\ WithoutWord(s).at \in {"refused", "crashed"}
    BY DEF WithoutWord, ReadingType, ReadingFields
  <2>3. Remaining(WithoutWord(s)) = Remaining(s) /\ StepsLeft(WithoutWord(s)) = 0 /\ StepsLeft(s) = 1
    BY <1>1, <2>2 DEF Remaining, StepsLeft, Over
  <2> QED
    BY <2>1, <2>2, <2>3, LessWeight
<1> QED
  BY <1>2, <1>3, <1>4

LEMMA ReadOnLess ==
  ASSUME NEW s, ReadingType(s), ~Over(s)
  PROVE  ReadingType(ReadOn(s)) /\ Weight(ReadOn(s)) < Weight(s)
<1>1. CASE s.asked
  BY <1>1, TokenReadLess DEF ReadOn
<1>2. CASE ~s.asked /\ s.at = "lines"
  <2>1. ReadOn(s) = LineRead(s)
    BY <1>2 DEF ReadOn
  <2>2. CASE s.input # <<>>
    <3>1. /\ LineRead(s).input = LineTaken(s).input /\ LineRead(s).line = LineTaken(s).line
          /\ LineRead(s).at = "first" /\ LineRead(s).asked
          /\ LineRead(s) = [x \in ReadingFields |-> LineRead(s)[x]]
      BY <2>2 DEF LineRead, LineTaken, ReadingType, ReadingFields
    <3>2. ReadingType(LineRead(s))
      BY <2>2, <3>1, LineTakenLess DEF ReadingType, LineRead
    <3>3. Remaining(LineRead(s)) < Remaining(s)
      BY <2>2, <3>1, LineTakenLess DEF Remaining
    <3> QED
      BY <2>1, <3>2, <3>3, LessWeight
  <2>3. CASE s.input = <<>>
    <3> DEFINE b == Before(s.input, {"\n"})   r == Behind(s.input, {"\n"})
    <3>1. /\ b \in Seq(Chars) /\ r \in Seq(Chars) /\ Len(b) = 0 /\ Len(r) = 0
      <4>1. s.input \in Seq(Chars) /\ Len(s.input) = 0
        BY <2>3 DEF ReadingType
      <4>2. First(s.input, {"\n"}) = 1
        BY <4>1, FirstIs
      <4> QED
        BY <4>1, <4>2, PartsOfWord
    <3>2. Trimmed(b) \in Seq(Chars) /\ Len(Trimmed(b)) \in 0..Len(b)
      BY <3>1, TrimmedShorter
    <3>3. /\ LineRead(s).input = r /\ LineRead(s).line = Trimmed(b)
          /\ LineRead(s).at = "over" /\ LineRead(s).asked = FALSE
          /\ LineRead(s) = [x \in ReadingFields |-> LineRead(s)[x]]
      BY <2>3 DEF LineRead, LineTaken, ReadingType, ReadingFields
    <3> HIDE DEF b, r
    <3>4. ReadingType(LineRead(s))
      BY <3>1, <3>2, <3>3 DEF ReadingType
    <3>5. Remaining(LineRead(s)) = 0 /\ StepsLeft(LineRead(s)) = 0
      BY <3>1, <3>2, <3>3 DEF Remaining, StepsLeft, Over
    <3>6. StepsLeft(s) = 1 /\ Remaining(s) \in Nat
      BY <1>2, WeightIs DEF StepsLeft, Over
    <3> QED
      BY <2>1, <3>4, <3>5, <3>6, LessWeight
  <2> QED
    BY <2>2, <2>3
<1>3. CASE ~s.asked /\ s.at = "first"
  <2>1. ReadOn(s) = FirstWordRead(s)
    BY <1>3 DEF ReadOn
  <2>2. /\ ReadingType(FirstWordRead(s))
        /\ FirstWordRead(s).input = s.input /\ FirstWordRead(s).line = s.line
        /\ FirstWordRead(s).asked = FALSE /\ FirstWordRead(s).at \in {"lines", "compare"}
    BY <1>3 DEF FirstWordRead, ReadingType, ReadingFields
  <2>3. StepsLeft(FirstWordRead(s)) \in {1, 2} /\ StepsLeft(s) = 3
    BY <1>3, <2>2 DEF StepsLeft, Over
  <2>4. Remaining(FirstWordRead(s)) = Remaining(s)
    BY <2>2 DEF Remaining
  <2>5. StepsLeft(FirstWordRead(s)) < StepsLeft(s)
    BY <2>3
  <2> QED
    BY <2>1, <2>2, <2>4, <2>5, LessWeight
<1>4. CASE ~s.asked /\ s.at = "compare"
  <2>1. ReadOn(s) = SectionEntered(s)
    BY <1>4 DEF ReadOn
  <2>2. /\ ReadingType(SectionEntered(s))
        /\ SectionEntered(s).input = s.input /\ SectionEntered(s).line = s.line
        /\ \/ SectionEntered(s).asked = FALSE /\ SectionEntered(s).at = "lines"
           \/ SectionEntered(s).asked = TRUE /\ SectionEntered(s).at = "items"
    BY <1>4 DEF SectionEntered, ReadingType, ReadingFields
  <2>3. StepsLeft(SectionEntered(s)) = 1 /\ StepsLeft(s) = 2
    BY <1>4, <2>2 DEF StepsLeft, Over
  <2>4. Remaining(SectionEntered(s)) = Remaining(s)
    BY <2>2 DEF Remaining
  <2>5. StepsLeft(SectionEntered(s)) < StepsLeft(s)
    BY <2>3
  <2> QED
    BY <2>1, <2>2, <2>4, <2>5, LessWeight
<1>5. CASE ~s.asked /\ s.at = "items" /\ s.pending # <<>>
  <2>1. ReadOn(s) = ItemRead(s)
    BY <1>5 DEF ReadOn
  <2>2. /\ ReadingType(ItemRead(s))
        /\ ItemRead(s).input = s.input /\ ItemRead(s).line = s.line
        /\ \/ ItemRead(s).at = "refused"
           \/ ItemRead(s).asked = TRUE /\ ItemRead(s).at = "items"
           \/ ItemRead(s).asked = FALSE /\ ItemRead(s).at = "items" /\ ItemRead(s).pending = <<>>
    BY <1>5 DEF ItemRead, ReadingType, ReadingFields
  <2>3. StepsLeft(ItemRead(s)) \in {0, 1, 3} /\ StepsLeft(s) = 4
    BY <1>5, <2>2 DEF StepsLeft, Over
  <2>4. Remaining(ItemRead(s)) = Remaining(s)
    BY <2>2 DEF Remaining
  <2>5. StepsLeft(ItemRead(s)) < StepsLeft(s)
    BY <2>3
  <2> QED
    BY <2>1, <2>2, <2>4, <2>5, LessWeight
<1>6. CASE ~s.asked /\ s.at = "items" /\ s.pending = <<>>
  <2>1. ReadOn(s) = SectionOver(s)
    BY <1>6 DEF ReadOn
  <2>2. /\ ReadingType(SectionOver(s))
        /\ SectionOver(s).input = s.input /\ SectionOver(s).line = s.line
        /\ SectionOver(s).asked = FALSE /\ SectionOver(s).at \in {"compare", "refused"}
    BY <1>6 DEF SectionOver, ReadingType, ReadingFields
  <2>3. StepsLeft(SectionOver(s)) \in {0, 2} /\ StepsLeft(s) = 3
    BY <1>6, <2>2 DEF StepsLeft, Over
  <2>4. Remaining(SectionOver(s)) = Remaining(s)
    BY <2>2 DEF Remaining
  <2>5. StepsLeft(SectionOver(s)) < StepsLeft(s)
    BY <2>3
  <2> QED
    BY <2>1, <2>2, <2>4, <2>5, LessWeight
<1> QED
  BY <1>1, <1>2, <1>3, <1>4, <1>5, <1>6 DEF ReadingType, Over

LEMMA ReadingTyped ==
  ASSUME NEW text \in Seq(Chars)
  PROVE  \A n \in Nat : ReadingType(Reading(text, n))
<1> DEFINE S == {n \in Nat : ReadingType(Reading(text, n))}
<1>1. 0 \in S
  <2>1. ReadingType(Beginning(text))
    BY DEF Beginning, ReadingType, ReadingFields
  <2> QED
    BY <2>1, ReadingBegins
<1>2. ASSUME NEW n \in Nat, n \in S PROVE n + 1 \in S
  <2>1. Reading(text, n + 1) = ReadOn(Reading(text, n)) /\ ReadingType(Reading(text, n))
    BY <1>2, ReadingGoesOn
  <2> QED
    BY <2>1, ReadOnLess, OverStays
<1> HIDE DEF S
<1>3. \A n \in Nat : n \in S
  BY <1>1, <1>2, N!Inductive
<1> QED
  BY <1>3 DEF S

\* Every text is read to an end: no loop of main() and its readers goes on for
\* ever, with any counts in the text, and the end says what the text means.
THEOREM ReadingEnds ==
  ASSUME NEW text \in Seq(Chars)
  PROVE  \E n \in Nat : Over(Reading(text, n))
<1> DEFINE r(n) == Reading(text, n)
           S == {w \in Nat : \A n \in Nat : Weight(r(n)) < w => \E m \in Nat : Over(r(m))}
<1>1. \A n \in Nat : Weight(r(n)) \in Nat
  BY ReadingTyped, WeightIs
<1>2. 0 \in S
  BY <1>1
<1>3. ASSUME NEW w \in Nat, w \in S PROVE w + 1 \in S
  <2> SUFFICES ASSUME NEW n \in Nat, Weight(r(n)) < w + 1 PROVE \E m \in Nat : Over(r(m))
    OBVIOUS
  <2>1. CASE Over(r(n))
    BY <2>1
  <2>2. CASE ~Over(r(n))
    <3>1. r(n + 1) = ReadOn(r(n)) /\ n + 1 \in Nat
      BY ReadingGoesOn
    <3>2. Weight(r(n + 1)) < Weight(r(n))
      BY <2>2, <3>1, ReadingTyped, ReadOnLess
    <3>3. Weight(r(n + 1)) \in Nat /\ Weight(r(n)) \in Nat
      BY <1>1, <3>1
    <3>4. Weight(r(n + 1)) < w
      BY <3>2, <3>3
    <3> QED
      BY <1>3, <3>1, <3>4
  <2> QED
    BY <2>1, <2>2
<1> HIDE DEF S
<1>4. \A w \in Nat : w \in S
  BY <1>2, <1>3, N!Inductive
<1>5. Weight(r(0)) + 1 \in S /\ Weight(r(0)) < Weight(r(0)) + 1
  BY <1>1, <1>4
<1> QED
  BY <1>5 DEF S

\* A reading that has ended does not go on.
LEMMA EndStays ==
  ASSUME NEW text \in Seq(Chars), NEW n \in Nat, Over(Reading(text, n))
  PROVE  \A k \in Nat : Reading(text, n + k) = Reading(text, n)
<1> DEFINE S == {k \in Nat : Reading(text, n + k) = Reading(text, n)}
<1>1. 0 \in S
  OBVIOUS
<1>2. ASSUME NEW k \in Nat, k \in S PROVE k + 1 \in S
  <2>1. n + k \in Nat /\ (n + k) + 1 = n + (k + 1)
    OBVIOUS
  <2>2. Reading(text, (n + k) + 1) = ReadOn(Reading(text, n + k)) /\ Reading(text, n + k) = Reading(text, n)
    BY <1>2, <2>1, ReadingGoesOn
  <2>3. ReadOn(Reading(text, n)) = Reading(text, n)
    BY ReadingTyped, OverStays
  <2> QED
    BY <2>1, <2>2, <2>3
<1> HIDE DEF S
<1>3. \A k \in Nat : k \in S
  BY <1>1, <1>2, N!Inductive
<1> QED
  BY <1>3 DEF S

LEMMA OneEnd ==
  ASSUME NEW text \in Seq(Chars), NEW n \in Nat, NEW m \in Nat,
         Over(Reading(text, n)), Over(Reading(text, m))
  PROVE  Reading(text, n) = Reading(text, m)
<1>1. ASSUME NEW i \in Nat, NEW j \in Nat, i <= j, Over(Reading(text, i))
      PROVE  Reading(text, j) = Reading(text, i)
  <2>1. PICK k \in Nat : j = i + k
    <3>1. j - i \in Nat /\ j = i + (j - i)
      BY <1>1
    <3> QED
      BY <3>1
  <2> QED
    BY <1>1, <2>1, EndStays
<1>2. n <= m \/ m <= n
  OBVIOUS
<1> QED
  BY <1>1, <1>2

\* Every text has one meaning, and no more: the hypothesis MeaningIsRead, under which
\* CertificateIsRead says what is built, has exactly one Meaning for any texts.
THEOREM OneMeaning ==
  ASSUME NEW text \in Seq(Chars)
  PROVE  \E m : /\ \A n \in Nat : Says(Reading(text, n), m)
                /\ \A k : (\A n \in Nat : Says(Reading(text, n), k)) => k = m
<1>1. PICK e \in Nat : Over(Reading(text, e))
  BY ReadingEnds
<1> DEFINE end == Reading(text, e)
           m == IF end.at = "over" THEN end.certificate ELSE NoCertificate
<1>2. ASSUME NEW n \in Nat PROVE Says(Reading(text, n), m)
  <2>1. CASE Over(Reading(text, n))
    <3>1. Reading(text, n) = end
      BY <1>1, <2>1, OneEnd
    <3> QED
      BY <3>1 DEF Says
  <2>2. CASE ~Over(Reading(text, n))
    BY <2>2 DEF Says, Over
  <2> QED
    BY <2>1, <2>2
<1>3. ASSUME NEW k, \A n \in Nat : Says(Reading(text, n), k) PROVE k = m
  <2>1. Says(end, k)
    BY <1>1, <1>3
  <2> QED
    BY <1>1, <2>1 DEF Says, Over
<1> QED
  BY <1>2, <1>3

(***************************************************************************)
(* What has been read when main() ends.                                    *)
(***************************************************************************)
LEMMA MisledKept == misled /\ [Next]_vars => misled'
BY DEF Next, MainStep, NextLine, FirstToken, SectionsOver, Comment, SectionToken, EnterSection,
   NoSection, Item, Refuse, SectionRead, NoToken, Written, Parse, Generate, Terminating, vars, mainVars

\* main() is somewhere in the reading of its text.
Reached == misled \/ \E n \in Nat : Reader = Reading(file, n)

LEMMA NextReached == NoNul /\ CallInv /\ ParserInv /\ SectionInv /\ Reached /\ [Next]_vars => Reached'
<1> SUFFICES ASSUME NoNul, CallInv, ParserInv, SectionInv, Reached, [Next]_vars PROVE Reached'
  OBVIOUS
<1>1. file' = file
  BY FileKept
<1>2. CASE misled'
  BY <1>2 DEF Reached
<1>3. CASE ~misled'
  <2>1. ~misled
    BY <1>3, MisledKept
  <2>2. PICK n \in Nat : Reader = Reading(file, n)
    BY <2>1 DEF Reached
  <2>3. Reader' = Reader \/ Reader' = ReadOn(Reader)
    BY <1>3, NextReads DEF ReadStep
  <2>4. CASE Reader' = Reader
    <3>1. Reader' = Reading(file', n)
      BY <1>1, <2>2, <2>4
    <3> QED
      BY <3>1 DEF Reached
  <2>5. CASE Reader' = ReadOn(Reader)
    <3>1. n + 1 \in Nat /\ Reader' = Reading(file', n + 1)
      BY <1>1, <2>2, <2>5, ReadingGoesOn
    <3> QED
      BY <3>1 DEF Reached
  <2> QED
    BY <2>3, <2>4, <2>5
<1> QED
  BY <1>2, <1>3

\* The hypothesis of what follows, which says what Meaning is: if the reading of a text,
\* which knows no buffer, comes to the end of it, the text is the certificate it has
\* read, and if it is refused the text is none.
MeaningIsRead == \A text \in Texts : \A n \in Nat : Says(Reading(text, n), Meaning[text])

LEMMA ReachedReads ==
  MeaningIsRead /\ CallInv /\ ParserInv /\ Reached => ReadsTheCertificate
<1> SUFFICES ASSUME MeaningIsRead, CallInv, ParserInv, Reached, ~misled
             PROVE  /\ pc \in {"read", "print", "done"} => certificate = Meaning[file]
                    /\ pc \in {"refused", "crashed"} => Meaning[file] = NoCertificate
  BY DEF ReadsTheCertificate
<1>1. PICK n \in Nat : Reader = Reading(file, n)
  BY DEF Reached
<1>2. file \in Texts
  BY DEF ParserInv, ParserType
<1>3. Says(Reader, Meaning[file])
  BY <1>1, <1>2 DEF MeaningIsRead
<1>4. Reader.at = ReaderAt /\ Reader.certificate = certificate
  BY DEF Reader
<1>5. /\ pc \in {"read", "print", "done"} => ReaderAt = "over"
      /\ pc \in {"refused", "crashed"} => ReaderAt = pc
  BY ReaderPlaceIs DEF ReaderPlace
<1> QED
  BY <1>3, <1>4, <1>5 DEF Says

\* A text that is a certificate is read as the format has it, nothing left out and
\* nothing read into another section, and one that is none is not taken for one:
\* whatever the text, wherever read() cuts it, and however small the buffer.
THEOREM CertificateIsRead ==
  ASSUME NoNul, MeaningIsRead
  PROVE  Spec => []ReadsTheCertificate
<1>1. Init => SectionInv /\ Reached
  <2>1. Init => Reader = Reading(file, 0) /\ 0 \in Nat
    BY InitReads, ReadingBegins
  <2> QED
    BY <2>1, InitSection DEF Reached
<1>2. CallInv /\ ParserInv /\ SectionInv /\ Reached /\ [Next]_vars => SectionInv' /\ Reached'
  BY NextSection, NextReached
<1>3. CallInv /\ ParserInv /\ Reached => ReadsTheCertificate
  BY ReachedReads
<1> QED
  BY <1>1, <1>2, <1>3, ParserInvariant, PTL DEF Spec

(***************************************************************************)
(* main() cannot go on for ever.                                           *)
(***************************************************************************)
LEMMA ReaderParts ==
  Reader' = Reader => UNCHANGED <<ReaderAt, ReaderAsked, pending, StreamInput>>
<1>1. /\ Reader.at = ReaderAt /\ Reader.asked = ReaderAsked /\ Reader.pending = pending
      /\ Reader.input = StreamInput
  BY DEF Reader
<1>2. /\ Reader'.at = ReaderAt' /\ Reader'.asked = ReaderAsked' /\ Reader'.pending = pending'
      /\ Reader'.input = StreamInput'
  BY DEF Reader
<1> QED
  BY <1>1, <1>2

\* A second section that is entered is a step less to do too, though it is none of
\* the reading.
LEMMA EnteredWeighs ==
  ASSUME CallInv, CallInv', ParserInv, EnterSection, ReadingType(Reader)
  PROVE  ReadingType(Reader') /\ Weight(Reader') < Weight(Reader)
<1>1. pc = "compare" /\ pc' = "items" /\ call' = "token" /\ Calls("token") /\ call = "idle"
  BY DEF EnterSection, Calls, CallInv
<1>2. UNCHANGED <<StreamInput, StreamLine>>
  BY <1>1, CallsMaps DEF InGetLine, asked, Asks, Forgets
<1>3. ReaderAt = "compare" /\ ReaderAsked = No
  BY <1>1, ReaderPlaceIs DEF ReaderPlace
<1>4. ReaderAt' = "items" /\ ReaderAsked' = Yes
  BY <1>1, ReaderPlaceNext DEF ReaderPlace
<1>5. PICK s, t : s = Reader /\ t = Reader'
  OBVIOUS
<1>6. /\ s.at = "compare" /\ s.asked = FALSE /\ s.input = StreamInput /\ s.line = StreamLine
  BY <1>3, <1>5 DEF Reader, No
<1>7. /\ t.at = "items" /\ t.asked = TRUE /\ t.input = StreamInput' /\ t.line = StreamLine'
      /\ t = [x \in ReadingFields |-> t[x]]
  BY <1>4, <1>5 DEF Reader, Yes, ReadingFields
<1>8. t.input = s.input /\ t.line = s.line
  BY <1>2, <1>6, <1>7
<1>9. ReadingType(s)
  BY <1>5
<1>10. ReadingType(t)
  BY <1>7, <1>8, <1>9 DEF ReadingType
<1>11. Remaining(t) = Remaining(s) /\ StepsLeft(t) = 1 /\ StepsLeft(s) = 2
  BY <1>6, <1>7, <1>8 DEF Remaining, StepsLeft, Over
<1>12. Weight(t) < Weight(s)
  BY <1>9, <1>10, <1>11, LessWeight
<1> QED
  BY <1>5, <1>10, <1>12

LEMMA NextWeighs ==
  ASSUME NoNul, CallInv, ParserInv, SectionInv, ReadingType(Reader), [Next]_vars
  PROVE  ReadingType(Reader') /\ (Reader' = Reader \/ Weight(Reader') < Weight(Reader))
<1>1. CASE EnterSection
  BY <1>1, NextCalls, EnteredWeighs
<1>2. CASE ~EnterSection
  <2>1. Reader' = Reader \/ Reader' = ReadOn(Reader)
    BY <1>2, NextReads DEF ReadStep
  <2>2. CASE Over(Reader)
    BY <2>1, <2>2, OverStays
  <2>3. CASE ~Over(Reader)
    BY <2>1, <2>3, ReadOnLess
  <2> QED
    BY <2>2, <2>3
<1> QED
  BY <1>1, <1>2

\* The steps that take the reading on, all of them.
LEMMA ReadingSteps ==
  ASSUME CallInv, CallInv', Reader' = Reader
  PROVE  ~(\/ NextLine \/ Comment \/ SectionToken \/ EnterSection
           \/ NoSection \/ Item \/ Refuse \/ SectionRead)
<1>1. UNCHANGED <<ReaderAt, ReaderAsked, pending>>
  BY ReaderParts
<1>2. ReaderPlace /\ ReaderPlace'
  BY ReaderPlaceIs, ReaderPlaceNext
<1>3. ~NextLine
  <2> SUFFICES ASSUME NextLine PROVE FALSE
    OBVIOUS
  <2>1. pc = "lines" /\ pc' = "lines" /\ call = "idle" /\ call' = "line"
    BY DEF NextLine, get_line, mainVars
  <2>2. ReaderAt = "lines" /\ ReaderAt' \in {"over", "first"}
    BY <1>2, <2>1 DEF ReaderPlace
  <2> QED
    BY <1>1, <2>2
<1>4. ~Comment
  <2> SUFFICES ASSUME Comment PROVE FALSE
    OBVIOUS
  <2>1. pc = "first" /\ pc' = "lines" /\ call = "got_token" /\ call' = "idle"
    BY DEF Comment, Calls
  <2>2. ReaderAt = "first" /\ ReaderAt' = "lines"
    BY <1>2, <2>1 DEF ReaderPlace
  <2> QED
    BY <1>1, <2>2
<1>5. ~SectionToken
  <2> SUFFICES ASSUME SectionToken PROVE FALSE
    OBVIOUS
  <2>1. pc = "first" /\ pc' = "compare" /\ call = "got_token"
    BY DEF SectionToken
  <2>2. ReaderAt = "first" /\ ReaderAt' = "compare"
    BY <1>2, <2>1 DEF ReaderPlace
  <2> QED
    BY <1>1, <2>2
<1>6. ~EnterSection
  <2> SUFFICES ASSUME EnterSection PROVE FALSE
    OBVIOUS
  <2>1. pc = "compare" /\ pc' = "items" /\ call' = "token"
    BY DEF EnterSection, Calls
  <2>2. ReaderAt = "compare" /\ ReaderAt' = "items"
    BY <1>2, <2>1 DEF ReaderPlace
  <2> QED
    BY <1>1, <2>2
<1>7. ~NoSection
  <2> SUFFICES ASSUME NoSection PROVE FALSE
    OBVIOUS
  <2>1. pc = "compare" /\ pc' = "lines" /\ call = "idle" /\ call' = "idle"
    BY DEF NoSection, parserVars, CallInv
  <2>2. ReaderAt = "compare" /\ ReaderAt' = "lines"
    BY <1>2, <2>1 DEF ReaderPlace
  <2> QED
    BY <1>1, <2>2
<1>8. ~Item
  <2> SUFFICES ASSUME Item PROVE FALSE
    OBVIOUS
  <2>1. /\ pc = "items" /\ pc' = "items" /\ call = "got_token" /\ pending # << >>
        /\ call' = IF pending' = << >> THEN "idle" ELSE "token"
    BY DEF Item
  <2>2. call' = "token"
    BY <1>1, <2>1
  <2>3. ReaderAsked = No /\ ReaderAsked' = Yes
    BY <1>2, <2>1, <2>2 DEF ReaderPlace
  <2> QED
    BY <1>1, <2>3 DEF Yes, No
<1>9. ~Refuse
  <2> SUFFICES ASSUME Refuse PROVE FALSE
    OBVIOUS
  <2>1. pc = "items" /\ pc' = "refused" /\ call = "got_token"
    BY DEF Refuse
  <2>2. ReaderAt = "items" /\ ReaderAt' = "refused"
    BY <1>2, <2>1 DEF ReaderPlace
  <2> QED
    BY <1>1, <2>2
<1>10. ~SectionRead
  <2> SUFFICES ASSUME SectionRead PROVE FALSE
    OBVIOUS
  <2>1. pc = "items" /\ pc' \in {"compare", "refused"} /\ call = "idle"
    BY DEF SectionRead, CallInv
  <2>2. ReaderAt = "items" /\ ReaderAt' \in {"compare", "refused"}
    BY <1>2, <2>1 DEF ReaderPlace
  <2> QED
    BY <1>1, <2>2
<1> QED
  BY <1>3, <1>4, <1>5, <1>6, <1>7, <1>8, <1>9, <1>10

\* The way to the next step of the reading, or a turn of a loop on it.
Nearer == Stage' < Stage \/ (Stage' = Stage /\ Turns' < Turns)

LEMMA CutLineNearer == ParserInv /\ CutLine /\ UNCHANGED mainVars => Nearer
<1> SUFFICES ASSUME ParserInv, CutLine, UNCHANGED mainVars PROVE Nearer
  OBVIOUS
<1>1. /\ InGetLine /\ looking /\ looking' = FALSE /\ UNCHANGED <<call, pc, file, position, eof>>
  BY DEF CutLine, mainVars
<1>2. InGetLine' /\ (NoneAhead' <=> NoneAhead)
  BY <1>1, CutLineMaps DEF InGetLine
<1>3. Stage' = Stage
  BY <1>1, <1>2 DEF Stage
<1>4. PICK u : u = 2 * (Len(file) - position) + (IF eof THEN 0 ELSE 2)
  OBVIOUS
<1>5. Len(file) \in Nat /\ position \in 0..Len(file)
  BY UnreadIs DEF ParserInv
<1>6. u \in Int
  BY <1>4, <1>5
<1>7. Turns = u + 1 /\ Turns' = u + 0
  BY <1>1, <1>2, <1>4 DEF Turns
<1> QED
  BY <1>3, <1>6, <1>7 DEF Nearer

LEMMA RefillNearer == NoNul /\ ParserInv /\ Refill /\ UNCHANGED mainVars => Nearer
<1> SUFFICES ASSUME NoNul, ParserInv, Refill, UNCHANGED mainVars PROVE Nearer
  OBVIOUS
<1>1. /\ InGetLine /\ ~looking /\ ~eof /\ looking' = TRUE /\ UNCHANGED <<call, pc, file>>
  BY DEF Refill, mainVars
<1>2. InGetLine' /\ (NoneAhead' <=> NoneAhead)
  BY <1>1, RefillMaps DEF InGetLine
<1>3. Stage' = Stage
  BY <1>1, <1>2 DEF Stage
<1>4. PICK l, q : l = Len(file) /\ q = position
  OBVIOUS
<1>5. l \in Nat /\ q \in 0..l
  BY <1>4, UnreadIs DEF ParserInv
<1>6. PICK n \in 0..(l - q) : position' = q + n /\ (n = 0 => eof')
  BY <1>4, RefillIs
<1>7. Turns = 2 * (l - q) + 2 + 0
  BY <1>1, <1>4 DEF Turns
<1>8. Turns' = 2 * (l - (q + n)) + (IF eof' THEN 0 ELSE 2) + 1
  BY <1>1, <1>2, <1>4, <1>6 DEF Turns
<1>9. Turns' < Turns
  <2>1. CASE eof'
    <3>1. Turns' = 2 * (l - (q + n)) + 0 + 1
      BY <1>8, <2>1
    <3> QED
      BY <1>5, <1>6, <1>7, <3>1
  <2>2. CASE ~eof'
    <3>1. Turns' = 2 * (l - (q + n)) + 2 + 1 /\ n # 0
      BY <1>6, <1>8, <2>2
    <3> QED
      BY <1>5, <1>6, <1>7, <3>1
  <2> QED
    BY <2>1, <2>2
<1> QED
  BY <1>3, <1>9 DEF Nearer

LEMMA LeaveGetLineNearer == ParserInv /\ LeaveGetLine => Nearer
<1> SUFFICES ASSUME ParserInv, LeaveGetLine PROVE Nearer
  OBVIOUS
<1>1. /\ InGetLine /\ ~looking /\ call' \in {"got_line", "no_line", "token", "no_token"}
  BY DEF LeaveGetLine
<1>2. ~InGetLine'
  BY <1>1 DEF InGetLine
<1>3. CASE ~NoneAhead
  <2>1. Stage = 6 /\ Stage' \in {5, 4, 2}
    BY <1>1, <1>2, <1>3 DEF Stage, InGetLine
  <2> QED
    BY <2>1 DEF Nearer
<1>4. CASE NoneAhead
  <2>1. next_line = Null /\ CString(line) \o Unread = << >>
    BY <1>1, <1>4 DEF NoneAhead, Unfinished, Ahead
  <2>2. PICK a, b : a = CString(line) /\ b = Unread
    OBVIOUS
  <2>3. a \in Seq(Chars) /\ b \in Seq(Chars)
    BY <1>1, <2>2, LineString, UnreadIs DEF ParserInv
  <2>4. a \o b = << >>
    BY <2>1, <2>2
  <2>5. a = << >>
    BY <2>3, <2>4
  <2>6. call' \in {"no_line", "no_token"}
    BY <2>1, <2>2, <2>5 DEF LeaveGetLine
  <2>7. Stage = 3 /\ Stage' = 2
    BY <1>1, <1>2, <1>4, <2>6 DEF Stage, InGetLine
  <2> QED
    BY <2>7 DEF Nearer
<1> QED
  BY <1>3, <1>4

\* get_token takes a line for itself: the reading goes on if there is one.
LEMMA NeedLineNearer ==
  ASSUME ParserInv, ReadingType(Reader), NeedLine, Reader' = Reader
  PROVE  Nearer
<1>1. /\ call = "token" /\ call' = "token_line" /\ looking'
      /\ UNCHANGED <<file, position, buffer, next_line>>
  BY DEF NeedLine, get_line
<1>2. ~InGetLine /\ ~Unfinished /\ InGetLine' /\ Unfinished'
  BY <1>1 DEF InGetLine, Unfinished
<1>3. PICK a : a = Ahead
  OBVIOUS
<1>4. Ahead' = a
  BY <1>1, <1>2, <1>3 DEF Ahead, CString, Unread
<1>5. StreamInput = a /\ StreamInput' = Behind(a, {"\n"})
  BY <1>2, <1>3, <1>4 DEF StreamInput
<1>6. StreamInput' = StreamInput
  BY ReaderParts
<1>7. a \in Seq(Chars)
  <2>1. Reader.input = StreamInput
    BY DEF Reader
  <2> QED
    BY <1>5, <2>1 DEF ReadingType
<1>8. a = << >>
  <2>1. PICK b : b = Behind(a, {"\n"})
    OBVIOUS
  <2>2. b = a
    BY <1>5, <1>6, <2>1
  <2>3. a # << >> => Len(b) < Len(a)
    BY <1>7, <2>1, PiecesShorter
  <2> QED
    BY <1>7, <2>2, <2>3
<1>9. NoneAhead'
  BY <1>2, <1>4, <1>8 DEF NoneAhead
<1>10. Stage = 4 /\ Stage' = 3
  BY <1>1, <1>2, <1>9 DEF Stage
<1> QED
  BY <1>10 DEF Nearer

LEMMA NextPieceNearer ==
  ASSUME CallInv, CallInv', ParserInv, NextPiece, UNCHANGED mainVars, Reader' = Reader
  PROVE  Nearer
<1>1. /\ ParserType /\ NextLineInv /\ LineInv /\ buffer \in Seq(Chars) /\ Len(buffer) \in Nat
      /\ call = "token" /\ line # Null /\ call' \in {"token", "got_token"} /\ pc' = pc
      /\ pc \in {"first", "items"}
  BY DEF ParserInv, ParserType, NextPiece, mainVars, CallInv
<1>2. call' = "token"
  <2>1. ReaderAsked = Yes
    BY <1>1, ReaderPlaceIs DEF ReaderPlace
  <2>2. call' = "got_token" => ReaderAsked' = No
    BY <1>1, ReaderPlaceNext DEF ReaderPlace
  <2> QED
    BY <1>1, <2>1, <2>2, ReaderParts DEF Yes, No
<1>3. Stage = 4 /\ Stage' = 4
  BY <1>1, <1>2 DEF Stage, InGetLine
<1>4. PICK e, c \in Nat : Cuts(buffer, line, Separators, buffer', line', e, c)
  BY <1>1, PieceIs
<1>5. PICK l, n, k : l = line /\ n = Len(buffer) /\ k = line'
  OBVIOUS
<1>6. /\ l \in Nat \ {0} /\ e \in l..n /\ c \in l..e /\ k = (IF c = e THEN Null ELSE c + 1)
      /\ Len(buffer') = n /\ n \in Nat
  BY <1>1, <1>4, <1>5 DEF Cuts, StringAt
<1>7. Turns = n - l + 1
  BY <1>1, <1>5 DEF Turns, InGetLine
<1>8. Turns' = IF k # Null THEN n - k + 1 ELSE 0
  BY <1>2, <1>5, <1>6 DEF Turns, InGetLine
<1>9. Turns' < Turns
  BY <1>6, <1>7, <1>8 DEF Null
<1> QED
  BY <1>3, <1>9 DEF Nearer

LEMMA StepsNearer ==
  ASSUME NoNul, CallInv, CallInv', ParserInv, ReadingType(Reader), Reader' = Reader, Next,
         ~UNCHANGED vars, ~Generate
  PROVE  Nearer
<1>1. CASE Parse
  <2>1. UNCHANGED mainVars
    BY <1>1 DEF Parse
  <2> QED
    BY <1>1, <2>1, CutLineNearer, RefillNearer, LeaveGetLineNearer, NeedLineNearer, NextPieceNearer
       DEF Parse, ParserStep
<1>2. CASE FirstToken
  <2>1. call = "got_line" /\ call' = "token"
    BY <1>2 DEF FirstToken, Calls
  <2>2. Stage = 5 /\ Stage' = 4
    BY <2>1 DEF Stage, InGetLine
  <2> QED
    BY <2>2 DEF Nearer
<1>3. CASE SectionsOver
  <2>1. call = "no_line" /\ call' = "idle"
    BY <1>3 DEF SectionsOver, Calls
  <2>2. Stage = 2 /\ Stage' \in {0, 1}
    BY <2>1 DEF Stage, InGetLine
  <2> QED
    BY <2>2 DEF Nearer
<1>4. CASE NoToken
  <2>1. call = "no_token" /\ call' = "idle"
    BY <1>4 DEF NoToken, Calls
  <2>2. Stage = 2 /\ Stage' \in {0, 1}
    BY <2>1 DEF Stage, InGetLine
  <2> QED
    BY <2>2 DEF Nearer
<1>5. CASE Written
  <2>1. pc = "print" /\ call = "idle" /\ pc' = "done" /\ call' = "idle"
    BY <1>5 DEF Written, parserVars, CallInv
  <2>2. Stage = 1 /\ Stage' = 0
    BY <2>1 DEF Stage, InGetLine
  <2> QED
    BY <2>2 DEF Nearer
<1> QED
  BY <1>1, <1>2, <1>3, <1>4, <1>5, ReadingSteps DEF Next, MainStep, Terminating

LEMMA GoesOn ==
  ASSUME NoNul, CallInv, ParserInv, SectionInv, ReadingType(Reader), [Next]_vars
  PROVE  /\ ReadingType(Reader')
         /\ \/ UNCHANGED vars
            \/ Generate
            \/ \E before \in {Reader}, after \in {Reader'} :
                 \/ Weight(after) < Weight(before)
                 \/ Weight(after) = Weight(before) /\ Stage' < Stage
                 \/ Weight(after) = Weight(before) /\ Stage' = Stage /\ Turns' < Turns
<1>1. CallInv'
  BY NextCalls
<1>2. ReadingType(Reader') /\ (Reader' = Reader \/ Weight(Reader') < Weight(Reader))
  BY NextWeighs
<1>3. PICK s, t : s = Reader /\ t = Reader'
  OBVIOUS
<1>4. \/ UNCHANGED vars
      \/ Generate
      \/ Weight(t) < Weight(s)
      \/ Weight(t) = Weight(s) /\ Nearer
  BY <1>1, <1>2, <1>3, StepsNearer
<1> QED
  BY <1>2, <1>3, <1>4 DEF Nearer

LEMMA InitTyped == Init => ReadingType(Reader)
<1> SUFFICES ASSUME Init PROVE ReadingType(Reader)
  OBVIOUS
<1>1. file \in Seq(Chars)
  BY TextsType DEF Init, ParserInit
<1>2. ReadingType(Beginning(file))
  BY <1>1 DEF Beginning, ReadingType, ReadingFields
<1> QED
  BY <1>2, InitReads

\* Whatever the text and wherever read() cuts it, no loop of main(), its readers and
\* the parser goes on for ever, not even when a dangling pointer is compared: with every
\* step there is less to do, in an order without infinite descents.
THEOREM MainRunsOut ==
  ASSUME NoNul
  PROVE  Spec => MainGoesOn
<1> DEFINE Typed == ReadingType(Reader)
<1>1. Init => SectionInv /\ Typed
  BY InitSection, InitTyped
<1>2. CallInv /\ ParserInv /\ SectionInv /\ Typed /\ [Next]_vars => SectionInv' /\ Typed'
  BY NextSection, GoesOn
<1>3. CallInv /\ ParserInv /\ SectionInv /\ Typed /\ [Next]_vars =>
        [\/ Generate
         \/ \E before \in {Reader}, after \in {Reader'} :
              \/ Weight(after) < Weight(before)
              \/ Weight(after) = Weight(before) /\ Stage' < Stage
              \/ Weight(after) = Weight(before) /\ Stage' = Stage /\ Turns' < Turns]_vars
  BY GoesOn
<1> HIDE DEF Typed
<1> QED
  BY <1>1, <1>2, <1>3, ParserInvariant, PTL DEF Spec, MainGoesOn

\* What gets less is made of natural numbers.
THEOREM MainIsFinite ==
  ASSUME NoNul
  PROVE  Spec => [](Weight(Reader) \in Nat /\ Stage \in Nat /\ Turns \in Nat)
<1> DEFINE Typed == ReadingType(Reader)
           Finite == Weight(Reader) \in Nat /\ Stage \in Nat /\ Turns \in Nat
<1>1. Init => SectionInv /\ Typed
  BY InitSection, InitTyped
<1>2. CallInv /\ ParserInv /\ SectionInv /\ Typed /\ [Next]_vars => SectionInv' /\ Typed'
  BY NextSection, GoesOn
<1>3. ParserInv /\ Typed => Finite
  <2> SUFFICES ASSUME ParserInv, Typed PROVE Finite
    OBVIOUS
  <2>1. Weight(Reader) \in Nat
    BY WeightIs
  <2>2. Stage \in Nat
    BY DEF Stage
  <2>3. Turns \in Nat
    <3>1. Len(file) \in Nat /\ position \in 0..Len(file) /\ Len(buffer) \in Nat /\ line \in Nat
      BY UnreadIs DEF ParserInv, ParserType
    <3>2. call = "token" /\ line # Null => line <= Len(buffer)
      BY <3>1 DEF ParserInv, LineInv, StringAt, InGetLine
    <3>3. PICK l, q, n, k : l = Len(file) /\ q = position /\ n = Len(buffer) /\ k = line
      OBVIOUS
    <3>4. CASE InGetLine
      <4>1. \E i \in {0, 2}, j \in {0, 1} : Turns = 2 * (l - q) + i + j
        BY <3>3, <3>4 DEF Turns
      <4> QED
        BY <3>1, <3>3, <4>1
    <3>5. CASE ~InGetLine
      <4>1. Turns = 0 \/ (Turns = n - k + 1 /\ k <= n)
        BY <3>2, <3>3, <3>5 DEF Turns
      <4> QED
        BY <3>1, <3>3, <4>1
    <3> QED
      BY <3>4, <3>5
  <2> QED
    BY <2>1, <2>2, <2>3
<1> HIDE DEF Typed, Finite
<1>4. Spec => []Finite
  BY <1>1, <1>2, <1>3, ParserInvariant, PTL DEF Spec
<1> QED
  BY <1>4 DEF Finite
================================================================================
