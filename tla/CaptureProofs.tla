---------------------------- MODULE CaptureProofs ----------------------------
(***************************************************************************)
(* Proofs about TerminalCapture, for every body, every window, every       *)
(* threshold of terminal_delta and every length of the screen, where       *)
(* terminals echo frames whole.                                            *)
(***************************************************************************)
EXTENDS TerminalCapture, FiniteSetTheorems, SequenceTheorems, WellFoundedInduction, TLAPS

-----------------------------------------------------------------------------
(* Greatest and least elements.                                             *)

NatLess == {ss \in Nat \X Nat : ss[1] < ss[2]}

LEMMA LeastNatural ==
  ASSUME NEW S, S \subseteq Nat, S # {}
  PROVE  \E n \in S : \A m \in S : n <= m
<1>1. IsWellFoundedOn(NatLess, Nat)
  BY NatLessThanWellFounded DEF OpToRel, NatLess
<1>2. PICK n \in S : \A m \in S : <<m, n>> \notin NatLess
  BY <1>1, WFMin
<1>3. \A m \in S : ~(m < n)  BY <1>2 DEF NatLess
<1>4. QED  BY <1>3

LEMMA GreatestIn ==
  ASSUME NEW S, S \subseteq Nat, S # {}, NEW b \in Nat, \A x \in S : x <= b
  PROVE  Max(S) \in S /\ \A x \in S : x <= Max(S)
<1> DEFINE D == {b - x : x \in S}
<1>1. PICK d \in D : \A m \in D : d <= m
  <2>1. \A x \in S : x \in Nat /\ b - x \in Nat  OBVIOUS
  <2>2. D \subseteq Nat /\ D # {}  BY <2>1
  <2>3. QED  BY <2>2, LeastNatural
<1>2. PICK x \in S : d = b - x  OBVIOUS
<1>3. \A y \in S : x >= y  BY <1>1, <1>2
<1>4. QED  BY <1>3 DEF Max

LEMMA LeastIn ==
  ASSUME NEW S, S \subseteq Nat, S # {}
  PROVE  Min(S) \in S /\ \A x \in S : Min(S) <= x
  BY LeastNatural DEF Min

-----------------------------------------------------------------------------
(* Pieces of sequences.                                                     *)

LEMMA FromProps ==
  ASSUME NEW T, NEW s \in Seq(T), NEW n \in 0 .. Len(s)
  PROVE  /\ From(s, n) \in Seq(T) /\ Len(From(s, n)) = Len(s) - n
         /\ \A i \in 1 .. Len(s) - n : From(s, n)[i] = s[n + i]
  BY DEF From

\* The same, with the sequence given by its type.
LEMMA FromOfType ==
  ASSUME NEW T, NEW s \in Seq(T)
  PROVE  /\ Len(s) \in Nat
         /\ \A n \in 0 .. Len(s) :
              /\ From(s, n) \in Seq(T) /\ Len(From(s, n)) = Len(s) - n
              /\ \A i \in 1 .. Len(s) - n : From(s, n)[i] = s[n + i]
  BY FromProps

LEMMA UptoProps ==
  ASSUME NEW T, NEW s \in Seq(T), NEW n \in 0 .. Len(s)
  PROVE  /\ Upto(s, n) \in Seq(T) /\ Len(Upto(s, n)) = n
         /\ \A i \in 1 .. n : Upto(s, n)[i] = s[i]
  BY DEF Upto

LEMMA FromFrom ==
  ASSUME NEW T, NEW s \in Seq(T), NEW a \in 0 .. Len(s), NEW b \in 0 .. Len(s) - a
  PROVE  a + b \in 0 .. Len(s) /\ From(From(s, a), b) = From(s, a + b)
<1>1. a + b \in 0 .. Len(s)  OBVIOUS
<1>2. Len(From(s, a)) = Len(s) - a /\ From(s, a) \in Seq(T)  BY FromProps
<1>3. /\ From(From(s, a), b) \in Seq(T) /\ From(s, a + b) \in Seq(T)
      /\ Len(From(From(s, a), b)) = Len(s) - a - b
      /\ Len(From(s, a + b)) = Len(s) - a - b
  <2>1. b \in 0 .. Len(From(s, a))  BY <1>2
  <2>2. From(From(s, a), b) \in Seq(T) /\ Len(From(From(s, a), b)) = Len(From(s, a)) - b
    BY <1>2, <2>1, FromProps
  <2>3. From(s, a + b) \in Seq(T) /\ Len(From(s, a + b)) = Len(s) - (a + b)
    BY <1>1, FromProps
  <2>4. Len(s) \in Nat /\ Len(s) - (a + b) = Len(s) - a - b  OBVIOUS
  <2>5. Len(From(From(s, a), b)) = Len(s) - a - b  BY <1>2, <2>2
  <2>6. QED  BY <2>2, <2>3, <2>4, <2>5
<1>4. ASSUME NEW i \in 1 .. Len(s) - a - b
      PROVE  From(From(s, a), b)[i] = From(s, a + b)[i]
  <2>1. From(From(s, a), b)[i] = From(s, a)[b + i]
    <3>1. b \in 0 .. Len(From(s, a)) /\ i \in 1 .. Len(From(s, a)) - b  BY <1>2
    <3>2. QED  BY <1>2, <3>1, FromProps
  <2>2. From(s, a)[b + i] = s[a + (b + i)]
    <3>1. b + i \in 1 .. Len(s) - a  OBVIOUS
    <3>2. QED  BY <3>1, FromProps
  <2>3. From(s, a + b)[i] = s[(a + b) + i]
    <3>1. i \in 1 .. Len(s) - (a + b)  OBVIOUS
    <3>2. QED  BY <1>1, <3>1, FromProps
  <2>4. QED  BY <2>1, <2>2, <2>3
<1>5. QED  BY <1>1, <1>3, <1>4, SeqEqual

LEMMA LastInProps ==
  ASSUME NEW T, NEW s \in Seq(T), NEW t
  PROVE  /\ LastIn(s, t) \in 0 .. Len(s)
         /\ LastIn(s, t) > 0 => s[LastIn(s, t)] = t
         /\ \A i \in 1 .. Len(s) : s[i] = t => i <= LastIn(s, t)
<1> DEFINE S == {0} \cup {i \in 1 .. Len(s) : s[i] = t}
<1>1. S \subseteq Nat /\ S # {} /\ Len(s) \in Nat /\ \A x \in S : x <= Len(s)
  OBVIOUS
<1>2. Max(S) \in S /\ \A x \in S : x <= Max(S)
  BY <1>1, GreatestIn
<1>3. LastIn(s, t) = Max(S)  BY DEF LastIn
<1>4. QED  BY <1>2, <1>3

Marked(t) == {t, Broken(t)}

LEMMA FindWrappedProps ==
  ASSUME NEW T, NEW s \in Seq(T), NEW t
  PROVE  /\ FindWrapped(s, t) \in 0 .. Len(s)
         /\ FindWrapped(s, t) > 0 => s[FindWrapped(s, t)] \in Marked(t)
         /\ FindWrapped(s, t) = 0 => \A i \in 1 .. Len(s) : s[i] \notin Marked(t)
  BY LastInProps DEF FindWrapped, Marked

(* Where only one form of a mark occurs, what is found is the last.         *)
LEMMA FindWrappedLast ==
  ASSUME NEW T, NEW s \in Seq(T), NEW t, NEW x,
         \A i \in 1 .. Len(s) : s[i] \in Marked(t) => s[i] = x
  PROVE  \A i \in 1 .. Len(s) : s[i] \in Marked(t) => i <= FindWrapped(s, t)
  BY LastInProps DEF FindWrapped, Marked

-----------------------------------------------------------------------------
(* What is taken to be new is an end of the read, and the rest of the read  *)
(* was in the baseline.                                                     *)

Closes == {"CLOSE", "CLOSE~"}
Other == "MARK OF ANOTHER"
NoOwn(s) == \A i \in 1 .. Len(s) : s[i] \notin Own

LEMMA MarksAre ==
  /\ Marked("MARK") = Own /\ Marked("CLOSE") = Closes
  /\ \A b \in BOOLEAN : Mark(b) \in Own /\ Close(b) \in Closes
  /\ Own \cap Closes = {} /\ Other \notin Own \cup Closes
  BY DEF Marked, Own, Closes, Mark, Close, Broken, Other

(* The token of the read that a common prefix or an overlap drops is a token*)
(* of the baseline.                                                         *)
Dropped(b, a, k) == \A i \in 1 .. k : \E j \in 1 .. Len(b) : a[i] = b[j]

LEMMA CommonPrefixProps ==
  ASSUME NEW T, NEW b \in Seq(T), NEW a \in Seq(T)
  PROVE  CommonPrefix(b, a) \in 0 .. Len(a) /\ Dropped(b, a, CommonPrefix(b, a))
<1> DEFINE S == {n \in 0 .. Shorter(b, a) : Upto(b, n) = Upto(a, n)}
<1>1. Shorter(b, a) \in Nat /\ Shorter(b, a) <= Len(a) /\ Shorter(b, a) <= Len(b)
  BY DEF Shorter
<1>2. Upto(b, 0) = << >> /\ Upto(a, 0) = << >>
  BY DEF Upto
<1>3. 0 \in S /\ S \subseteq Nat /\ \A x \in S : x <= Shorter(b, a)
  BY <1>1, <1>2
<1>4. Max(S) \in S  BY <1>1, <1>3, GreatestIn
<1>5. CommonPrefix(b, a) = Max(S)  BY DEF CommonPrefix
<1>6. PICK n \in 0 .. Shorter(b, a) : n = CommonPrefix(b, a) /\ Upto(b, n) = Upto(a, n)
  BY <1>4, <1>5
<1>7. n \in 0 .. Len(a) /\ n \in 0 .. Len(b)  BY <1>1
<1>8. \A i \in 1 .. n : a[i] = b[i]
  BY <1>6, <1>7, UptoProps
<1>9. QED  BY <1>6, <1>7, <1>8 DEF Dropped

LEMMA OverlapProps ==
  ASSUME NEW T, NEW b \in Seq(T), NEW a \in Seq(T), Overlaps(b, a) # {}
  PROVE  Max(Overlaps(b, a)) \in 0 .. Len(a) /\ Dropped(b, a, Max(Overlaps(b, a)))
<1>1. Shorter(b, a) \in Nat /\ Shorter(b, a) <= Len(a) /\ Shorter(b, a) <= Len(b)
  BY DEF Shorter
<1>2. MinOverlap \in Nat  BY CaptureAssumption
<1>3. Overlaps(b, a) \subseteq Nat /\ \A x \in Overlaps(b, a) : x <= Shorter(b, a)
  BY <1>1, <1>2 DEF Overlaps
<1>4. PICK n \in Overlaps(b, a) : n = Max(Overlaps(b, a))
  BY <1>1, <1>3, GreatestIn
<1>5. n \in 0 .. Len(a) /\ Len(b) - n \in 0 .. Len(b) /\ From(b, Len(b) - n) = Upto(a, n)
  BY <1>1, <1>2, <1>4 DEF Overlaps
<1>6. ASSUME NEW i \in 1 .. n PROVE a[i] = b[Len(b) - n + i] /\ Len(b) - n + i \in 1 .. Len(b)
  <2>1. Upto(a, n)[i] = a[i]  BY <1>5, UptoProps
  <2>2. From(b, Len(b) - n)[i] = b[Len(b) - n + i]
    <3>1. i \in 1 .. Len(b) - (Len(b) - n)  BY <1>5
    <3>2. QED  BY <1>5, <3>1, FromProps
  <2>3. QED  BY <1>5, <2>1, <2>2
<1>7. QED  BY <1>4, <1>5, <1>6 DEF Dropped

LEMMA DeltaIsSuffix ==
  ASSUME NEW T, NEW b \in Seq(T), NEW a \in Seq(T)
  PROVE  \E k \in 0 .. Len(a) : TerminalDelta(b, a) = From(a, k) /\ Dropped(b, a, k)
<1>1. a = From(a, 0) /\ Dropped(b, a, 0)
  BY DEF From, Dropped
<1>2. Len(a) \in Nat  OBVIOUS
<1>3. CASE CommonPrefix(b, a) = Len(b)
  BY <1>3, CommonPrefixProps DEF TerminalDelta
<1>4. CASE CommonPrefix(b, a) # Len(b) /\ Overlaps(b, a) # {}
  BY <1>4, OverlapProps DEF TerminalDelta
<1>5. CASE CommonPrefix(b, a) # Len(b) /\ Overlaps(b, a) = {} /\ CommonPrefix(b, a) >= MinCommon
  BY <1>5, CommonPrefixProps DEF TerminalDelta
<1>6. CASE CommonPrefix(b, a) # Len(b) /\ Overlaps(b, a) = {} /\ ~(CommonPrefix(b, a) >= MinCommon)
  <2>1. TerminalDelta(b, a) = a  BY <1>6 DEF TerminalDelta
  <2>2. 0 \in 0 .. Len(a)  BY <1>2
  <2>3. QED  BY <1>1, <2>1, <2>2
<1>7. QED  BY <1>3, <1>4, <1>5, <1>6

LEMMA ReadIsSuffix ==
  ASSUME NEW T, NEW s \in Seq(T)
  PROVE  \E v \in 0 .. Len(s) : ReadAgent(s) = From(s, v)
<1>1. Window \in Nat  BY CaptureAssumption
<1>2. QED  BY <1>1 DEF ReadAgent
-----------------------------------------------------------------------------
(* What a screen looks like.  Once the frame is in, f is its own mark, c the*)
(* last closing tag before the answer's mark and p where that mark is, or   *)
(* will be: what stands between c and p are the last words of the answer,   *)
(* all of them unless the frame of another message came in between.         *)

Token == Words \cup Own \cup Closes \cup {"BEGIN", Other}

OtherAfter(f, c) == \E j \in f + 1 .. c : screen[j] = Other

AnswerBetween(c, p) ==
  /\ p - 1 - c <= Len(answer)
  /\ \A i \in c + 1 .. p - 1 : screen[i] = answer[Len(answer) - (p - 1 - i)]

MarkAt(p) ==
  IF phase = "framed" THEN p = Len(screen) + 1
  ELSE p <= Len(screen) /\ screen[p] \in Own /\ answer # << >>

ShownFrame(f, c, p) ==
  /\ f \in 1 .. Len(screen) /\ c \in f + 1 .. Len(screen) /\ p \in c + 1 .. Len(screen) + 1
  /\ screen[f] \in Own /\ screen[c] \in Closes
  /\ \A i \in 1 .. Len(screen) : screen[i] \in Own => i \in {f, p}
  /\ AnswerBetween(c, p) /\ MarkAt(p)
  /\ OtherAfter(f, c) \/ (c = f + 1 /\ p - 1 - c = Len(answer))
  /\ \A i \in p + 1 .. Len(screen) : screen[i] \in Closes => OtherAfter(f, i)

Shapes ==
  /\ screen \in Seq(Token) /\ before \in Seq(Token) /\ answer \in Seq(Words)
  /\ phase \in {"idle", "framed", "marked"} /\ broken \in BOOLEAN

CaptureInv ==
  /\ Shapes /\ NoOwn(before)
  /\ \A i \in 1 .. Len(screen) : screen[i] \in Closes => screen[i] = Close(broken)
  /\ phase = "idle" => NoOwn(screen) /\ answer = << >>
  /\ phase # "idle" => \E f, c, p \in Nat : ShownFrame(f, c, p)

LEMMA WordsAreNoMarks ==
  Words \cap Own = {} /\ Words \cap Closes = {} /\ Words \subseteq Token
  BY CaptureAssumption DEF Own, Closes, Token

(* Printing adds at the end.                                                *)
LEMMA ShowsAdds ==
  ASSUME screen \in Seq(Token), NEW t \in Seq(Token), Shows(t)
  PROVE  /\ screen' \in Seq(Token) /\ Len(screen') = Len(screen) + Len(t)
         /\ \A i \in 1 .. Len(screen) : screen'[i] = screen[i]
         /\ \A i \in 1 .. Len(t) : screen'[Len(screen) + i] = t[i]
         /\ \A i \in 1 .. Len(screen') :
              i \in 1 .. Len(screen) \/ \E j \in 1 .. Len(t) : i = Len(screen) + j /\ screen'[i] = t[j]
<1>1. screen' = screen \o t  BY DEF Shows
<1>2. /\ screen' \in Seq(Token) /\ Len(screen') = Len(screen) + Len(t)
      /\ \A i \in 1 .. Len(screen) : screen'[i] = screen[i]
      /\ \A i \in 1 .. Len(t) : screen'[Len(screen) + i] = t[i]
  BY <1>1
<1>3. ASSUME NEW i \in 1 .. Len(screen'), i \notin 1 .. Len(screen)
      PROVE  \E j \in 1 .. Len(t) : i = Len(screen) + j /\ screen'[i] = t[j]
  <2>1. i - Len(screen) \in 1 .. Len(t) /\ i = Len(screen) + (i - Len(screen))
    BY <1>2, <1>3
  <2>2. QED  BY <1>2, <2>1
<1>4. QED  BY <1>2, <1>3

LEMMA ShowsOne ==
  ASSUME screen \in Seq(Token), NEW w \in Token, Shows(<<w>>)
  PROVE  /\ screen' \in Seq(Token) /\ Len(screen') = Len(screen) + 1
         /\ \A i \in 1 .. Len(screen) : screen'[i] = screen[i]
         /\ screen'[Len(screen) + 1] = w
<1>1. PICK t \in Seq(Token) : t = <<w>> /\ Len(t) = 1 /\ t[1] = w
  <2>1. <<w>> \in Seq(Token)  OBVIOUS
  <2>2. Len(<<w>>) = 1 /\ <<w>>[1] = w  OBVIOUS
  <2>3. QED  BY <2>1, <2>2
<1>2. 1 \in 1 .. Len(t) /\ Shows(t)  BY <1>1
<1>3. QED  BY <1>1, <1>2, ShowsAdds

LEMMA OtherWordsKeeps ==
  ASSUME CaptureInv, NEW w \in Words, OtherWords(w) PROVE CaptureInv'
<1> USE DEF CaptureInv, Shapes
<1>1. /\ screen' \in Seq(Token) /\ Len(screen') = Len(screen) + 1
      /\ \A i \in 1 .. Len(screen) : screen'[i] = screen[i]
      /\ screen'[Len(screen) + 1] = w
  BY WordsAreNoMarks, ShowsOne DEF OtherWords
<1>2. phase = "idle" /\ UNCHANGED <<before, answer, phase, broken>>  BY DEF OtherWords
<1>3. ASSUME NEW i \in 1 .. Len(screen')
      PROVE  screen'[i] \notin Own /\ (screen'[i] \in Closes => screen'[i] = Close(broken))
  <2>1. CASE i \in 1 .. Len(screen)  BY <1>1, <1>2, <2>1 DEF NoOwn
  <2>2. CASE i = Len(screen) + 1  BY <1>1, <2>2, WordsAreNoMarks
  <2>3. QED  BY <1>1, <2>1, <2>2
<1>4. Close(broken)' = Close(broken) /\ NoOwn(before)'  BY <1>2 DEF Close, NoOwn
<1>5. QED  BY <1>1, <1>2, <1>3, <1>4 DEF NoOwn

LEMMA SubmitKeeps ==
  ASSUME CaptureInv, Submit("whole") PROVE CaptureInv'
<1> USE DEF CaptureInv, Shapes
<1> DEFINE n == Len(Body)
           t == Frame(Mark(broken), Close(broken))
<1>1. Body \in Seq(Words) /\ n \in Nat  BY CaptureAssumption
<1>2. Mark(broken) \in Own /\ Close(broken) \in Closes /\ "BEGIN" \notin Own \cup Closes
  BY MarksAre DEF Own, Closes
<1>3. /\ t \in Seq(Token) /\ Len(t) = n + 3 /\ t[1] = "BEGIN"
      /\ \A i \in 1 .. n : t[1 + i] = Body[i]
      /\ t[n + 2] = Mark(broken) /\ t[n + 3] = Close(broken)
  <2> DEFINE u == <<"BEGIN">> \o Body
             e == <<Mark(broken), Close(broken)>>
  <2>1. Body \in Seq(Token)  BY <1>1, WordsAreNoMarks
  <2>2. "BEGIN" \in Token /\ Mark(broken) \in Token /\ Close(broken) \in Token
    BY <1>2 DEF Token
  <2>3. /\ u \in Seq(Token) /\ Len(u) = n + 1 /\ u[1] = "BEGIN"
        /\ \A i \in 1 .. n : u[1 + i] = Body[i]
    BY <1>1, <2>1, <2>2
  <2>4. e \in Seq(Token) /\ Len(e) = 2 /\ e[1] = Mark(broken) /\ e[2] = Close(broken)
    BY <2>2
  <2>5. t = u \o e  BY DEF Frame
  <2> HIDE DEF u, e, t
  <2>6. /\ t \in Seq(Token) /\ Len(t) = Len(u) + Len(e)
        /\ \A i \in 1 .. Len(u) : t[i] = u[i]
        /\ \A i \in 1 .. Len(e) : t[Len(u) + i] = e[i]
    <3>1. /\ t \in Seq(Token) /\ Len(t) = Len(u) + Len(e)
          /\ \A i \in 1 .. Len(u) + Len(e) :
               t[i] = IF i <= Len(u) THEN u[i] ELSE e[i - Len(u)]
      BY <2>3, <2>4, <2>5, ConcatProperties
    <3>2. Len(u) \in Nat /\ Len(e) \in Nat  BY <2>3, <2>4
    <3>3. ASSUME NEW i \in 1 .. Len(e) PROVE t[Len(u) + i] = e[i]
      <4>1. Len(u) + i \in 1 .. Len(u) + Len(e) /\ ~(Len(u) + i <= Len(u))
            /\ (Len(u) + i) - Len(u) = i
        BY <3>2
      <4>2. QED  BY <3>1, <4>1
    <3>4. \A i \in 1 .. Len(u) : i \in 1 .. Len(u) + Len(e) /\ i <= Len(u)  BY <3>2
    <3>5. QED  BY <3>1, <3>3, <3>4
  <2>7. \A i \in 1 .. n + 1 : t[i] = u[i]  BY <2>3, <2>6
  <2>8. \A i \in 1 .. 2 : t[n + 1 + i] = e[i]  BY <2>3, <2>4, <2>6
  <2>9. t[n + 1 + 1] = e[1] /\ t[n + 1 + 2] = e[2] /\ t[1] = u[1]  BY <1>1, <2>7, <2>8
  <2>10. \A i \in 1 .. n : t[1 + i] = u[1 + i]  BY <1>1, <2>7
  <2>11. n + 1 + 1 = n + 2 /\ n + 1 + 2 = n + 3 /\ Len(t) = n + 3  BY <1>1, <2>3, <2>4, <2>6
  <2>12. QED  BY <2>3, <2>4, <2>6, <2>9, <2>10, <2>11
<1> HIDE DEF t
<1>4. /\ phase = "idle" /\ phase' = "framed" /\ before' = ReadAgent(screen)
      /\ Shows(t) /\ answer' = answer /\ broken' = broken /\ answer = << >>
      /\ NoOwn(screen)
  BY DEF Submit, t
<1>5. /\ screen' \in Seq(Token) /\ Len(screen') = Len(screen) + (n + 3)
      /\ \A i \in 1 .. Len(screen) : screen'[i] = screen[i]
      /\ \A i \in 1 .. n + 3 : screen'[Len(screen) + i] = t[i]
      /\ \A i \in 1 .. Len(screen') :
              i \in 1 .. Len(screen) \/ \E j \in 1 .. n + 3 : i = Len(screen) + j /\ screen'[i] = t[j]
  BY <1>3, <1>4, ShowsAdds
<1>6. PICK f \in Nat, c \in Nat, p \in Nat :
        /\ f = Len(screen) + (n + 2) /\ c = Len(screen) + (n + 3)
        /\ f \in 1 .. Len(screen') /\ c = f + 1 /\ p = c + 1 /\ c = Len(screen')
  <2>1. Len(screen) \in Nat /\ Len(screen') = Len(screen) + (n + 3)  BY <1>5
  <2>2. Len(screen) + (n + 2) \in 1 .. Len(screen')  BY <1>1, <2>1
  <2>3. QED  BY <1>1, <2>1, <2>2
<1>7. screen'[f] = Mark(broken) /\ screen'[c] = Close(broken)
  <2>1. n + 2 \in 1 .. n + 3 /\ n + 3 \in 1 .. n + 3  BY <1>1
  <2>2. QED  BY <1>3, <1>5, <1>6, <2>1
<1>8. ASSUME NEW j \in 1 .. n + 3
      PROVE  (t[j] \in Own => j = n + 2) /\ (t[j] \in Closes => t[j] = Close(broken))
  <2>1. CASE j = 1  BY <1>2, <1>3, <2>1
  <2>2. CASE j \in 2 .. n + 1
    <3>1. j - 1 \in 1 .. n /\ 1 + (j - 1) = j  BY <1>1, <2>2
    <3>2. \A i \in 1 .. n : t[1 + i] = Body[i] /\ Body[i] \in Words  BY <1>1, <1>3
    <3>3. t[1 + (j - 1)] \in Words  BY <3>1, <3>2
    <3>4. QED  BY <3>1, <3>3, WordsAreNoMarks
  <2>3. CASE j = n + 2 \/ j = n + 3  BY <1>2, <1>3, <2>3, MarksAre
  <2>4. QED  BY <1>1, <2>1, <2>2, <2>3
<1>9. ASSUME NEW i \in 1 .. Len(screen')
      PROVE  (screen'[i] \in Own => i = f) /\ (screen'[i] \in Closes => screen'[i] = Close(broken))
  <2>1. CASE i \in 1 .. Len(screen)
    BY <1>4, <1>5, <2>1 DEF NoOwn
  <2>2. ASSUME NEW j \in 1 .. n + 3, i = Len(screen) + j, screen'[i] = t[j]
        PROVE  (screen'[i] \in Own => i = f) /\ (screen'[i] \in Closes => screen'[i] = Close(broken))
    BY <1>6, <1>8, <2>2
  <2>3. QED  BY <1>5, <2>1, <2>2
<1>10. ShownFrame(f, c, p)'
  <2>1. (c \in f + 1 .. Len(screen) /\ p \in c + 1 .. Len(screen) + 1)'  BY <1>6
  <2>2. AnswerBetween(c, p)'
    BY <1>4, <1>6 DEF AnswerBetween
  <2>3. MarkAt(p)'  BY <1>4, <1>6 DEF MarkAt
  <2>4. (p - 1 - c = Len(answer))'  BY <1>4, <1>6
  <2>5. (\A i \in p + 1 .. Len(screen) : screen[i] \in Closes => OtherAfter(f, i))'  BY <1>6
  <2>6. QED  BY <1>2, <1>6, <1>7, <1>9, <2>1, <2>2, <2>3, <2>4, <2>5 DEF ShownFrame
<1>11. before' \in Seq(Token) /\ NoOwn(before)'
  <2>1. PICK v \in 0 .. Len(screen) : before' = From(screen, v)  BY <1>4, ReadIsSuffix
  <2>2. /\ before' \in Seq(Token) /\ Len(before') = Len(screen) - v
        /\ \A i \in 1 .. Len(screen) - v : before'[i] = screen[v + i]
    BY <2>1, FromProps
  <2>3. \A i \in 1 .. Len(screen) - v : v + i \in 1 .. Len(screen)  OBVIOUS
  <2>4. QED  BY <1>4, <2>2, <2>3 DEF NoOwn
<1>12. Close(broken)' = Close(broken)  BY <1>4 DEF Close
<1>13. \A i \in 1 .. Len(screen') : screen'[i] \in Closes => screen'[i] = Close(broken)'
  BY <1>9, <1>12
<1>14. \E x, y, z \in Nat : ShownFrame(x, y, z)'  BY <1>6, <1>10
<1>15. QED  BY <1>4, <1>5, <1>11, <1>13, <1>14
(* Once the frame is in, what the screen already shows keeps its place.     *)
LEMMA FrameStays ==
  ASSUME Shapes, NEW f \in Nat, NEW c \in Nat, NEW p \in Nat, ShownFrame(f, c, p),
         screen' \in Seq(Token), Len(screen) <= Len(screen'),
         \A i \in 1 .. Len(screen) : screen'[i] = screen[i]
  PROVE  /\ f \in 1 .. Len(screen') /\ c \in f + 1 .. Len(screen') /\ Len(screen) \in Nat
         /\ p \in c + 1 .. Len(screen') + 1 /\ screen'[f] \in Own /\ screen'[c] \in Closes
         /\ \A i \in 1 .. Len(screen) : screen'[i] \in Own => i \in {f, p}
         /\ \A i \in 1 .. Len(screen) : OtherAfter(f, i) => OtherAfter(f, i)'
<1> USE DEF ShownFrame, Shapes
<1>1. Len(screen) \in Nat /\ Len(screen') \in Nat  OBVIOUS
<1>2. f \in 1 .. Len(screen) /\ c \in f + 1 .. Len(screen) /\ c \in 1 .. Len(screen)
      /\ p \in c + 1 .. Len(screen) + 1
  OBVIOUS
<1>3. ASSUME NEW i \in 1 .. Len(screen), OtherAfter(f, i) PROVE OtherAfter(f, i)'
  <2>1. PICK j \in f + 1 .. i : screen[j] = Other  BY <1>3 DEF OtherAfter
  <2>2. j \in 1 .. Len(screen)  BY <1>1, <1>2
  <2>3. QED  BY <2>1, <2>2 DEF OtherAfter
<1>4. /\ f \in 1 .. Len(screen') /\ c \in f + 1 .. Len(screen')
      /\ p \in c + 1 .. Len(screen') + 1
  BY <1>1, <1>2
<1>5. screen'[f] \in Own /\ screen'[c] \in Closes
  BY <1>2
<1>6. QED  BY <1>1, <1>3, <1>4, <1>5

LEMMA OtherFrameKeeps ==
  ASSUME CaptureInv, OtherFrame PROVE CaptureInv'
<1> USE DEF CaptureInv, Shapes
<1> DEFINE n == Len(screen)
<1>1. PICK t \in Seq(Token) :
        /\ t = <<"BEGIN", Other, Close(broken)>> /\ Len(t) = 3
        /\ t[1] = "BEGIN" /\ t[2] = Other /\ t[3] = Close(broken)
  <2>1. "BEGIN" \in Token /\ Other \in Token /\ Close(broken) \in Token
    BY MarksAre DEF Token
  <2>2. <<"BEGIN", Other, Close(broken)>> \in Seq(Token)  BY <2>1
  <2>3. QED  BY <2>2
<1>2. Shows(t) /\ UNCHANGED <<before, answer, phase, broken>> /\ Close(broken)' = Close(broken)
  BY <1>1 DEF OtherFrame, Other, Close
<1>3. /\ screen' \in Seq(Token) /\ Len(screen') = n + 3 /\ n \in Nat
      /\ \A i \in 1 .. n : screen'[i] = screen[i]
      /\ screen'[n + 1] = "BEGIN" /\ screen'[n + 2] = Other /\ screen'[n + 3] = Close(broken)
      /\ \A i \in 1 .. Len(screen') : i \in 1 .. n \/ i \in {n + 1, n + 2, n + 3}
  <2>1. 1 \in 1 .. Len(t) /\ 2 \in 1 .. Len(t) /\ 3 \in 1 .. Len(t)  BY <1>1
  <2>2. /\ screen' \in Seq(Token) /\ Len(screen') = n + Len(t)
        /\ \A i \in 1 .. n : screen'[i] = screen[i]
        /\ \A i \in 1 .. Len(t) : screen'[n + i] = t[i]
    BY <1>2, ShowsAdds
  <2>3. Len(screen') = n + 3 /\ n \in Nat  BY <1>1, <2>2
  <2>4. \A i \in 1 .. n + 3 : i \in 1 .. n \/ i \in {n + 1, n + 2, n + 3}  BY <2>3
  <2>5. QED  BY <1>1, <2>1, <2>2, <2>3, <2>4
<1>4. Close(broken) \in Closes /\ "BEGIN" \notin Own \cup Closes /\ Other \notin Own \cup Closes
      /\ Close(broken) \notin Own
  BY MarksAre DEF Own, Closes
<1>5. ASSUME NEW i \in 1 .. Len(screen'), i \notin 1 .. n
      PROVE  screen'[i] \notin Own /\ (screen'[i] \in Closes => i = n + 3 /\ screen'[i] = Close(broken))
  BY <1>3, <1>4, <1>5
<1>6. \A i \in 1 .. Len(screen') : screen'[i] \in Closes => screen'[i] = Close(broken)'
  BY <1>2, <1>3, <1>5
<1>7. NoOwn(before)'  BY <1>2 DEF NoOwn
<1>8. phase = "idle" => NoOwn(screen)'  BY <1>3, <1>5 DEF NoOwn
<1>9. ASSUME NEW f \in Nat, NEW c \in Nat, NEW p \in Nat, ShownFrame(f, c, p), phase # "idle"
      PROVE  \E x, y, z \in Nat : ShownFrame(x, y, z)'
  <2>1. /\ f \in 1 .. n /\ c \in f + 1 .. n /\ p \in c + 1 .. n + 1
        /\ screen'[f] \in Own /\ screen'[c] \in Closes
        /\ \A i \in 1 .. n : screen'[i] \in Own => i \in {f, p}
        /\ \A i \in 1 .. n : OtherAfter(f, i) => OtherAfter(f, i)'
    <3>1. n <= Len(screen') /\ Shapes  BY <1>3
    <3>2. f \in 1 .. n /\ c \in f + 1 .. n /\ p \in c + 1 .. n + 1  BY <1>9 DEF ShownFrame
    <3>3. QED  BY <1>3, <1>9, <3>1, <3>2, FrameStays
  <2>2. ASSUME NEW i \in n + 2 .. n + 3 PROVE OtherAfter(f, i)'
    <3>1. n + 2 \in f + 1 .. i  BY <1>3, <2>1
    <3>2. QED  BY <1>3, <3>1 DEF OtherAfter
  <2>3. CASE phase = "framed"
    <3>1. PICK d \in Nat, q \in Nat : d = n + 3 /\ q = n + 4  BY <1>3
    <3>2. (f \in 1 .. Len(screen) /\ d \in f + 1 .. Len(screen) /\ q \in d + 1 .. Len(screen) + 1)'
      BY <1>3, <2>1, <3>1
    <3>3. p = n + 1  BY <1>9, <2>3 DEF ShownFrame, MarkAt
    <3>4. (\A i \in 1 .. Len(screen) : screen[i] \in Own => i \in {f, q})'
      BY <1>3, <1>5, <2>1, <3>3
    <3>5. AnswerBetween(d, q)'
      BY <1>2, <3>1 DEF AnswerBetween
    <3>6. MarkAt(q)'  BY <1>2, <1>3, <2>3, <3>1 DEF MarkAt
    <3>7. OtherAfter(f, d)' /\ screen'[d] \in Closes
      BY <1>3, <1>4, <2>2, <3>1
    <3>8. (\A i \in q + 1 .. Len(screen) : screen[i] \in Closes => OtherAfter(f, i))'
      BY <1>3, <3>1
    <3>9. ShownFrame(f, d, q)'
      BY <2>1, <3>2, <3>4, <3>5, <3>6, <3>7, <3>8 DEF ShownFrame
    <3>10. QED  BY <3>9
  <2>4. CASE phase = "marked"
    <3>1. p \in 1 .. n /\ screen[p] \in Own /\ answer # << >>
      BY <1>9, <2>1, <2>4 DEF ShownFrame, MarkAt
    <3>2. (f \in 1 .. Len(screen) /\ c \in f + 1 .. Len(screen) /\ p \in c + 1 .. Len(screen) + 1)'
      BY <1>3, <2>1
    <3>3. (\A i \in 1 .. Len(screen) : screen[i] \in Own => i \in {f, p})'
      BY <1>3, <1>5, <2>1
    <3>4. AnswerBetween(c, p)'
      <4>1. \A i \in c + 1 .. p - 1 : i \in 1 .. n  BY <2>1, <3>1, <1>3
      <4>2. QED  BY <1>2, <1>3, <1>9, <4>1 DEF AnswerBetween, ShownFrame
    <3>5. MarkAt(p)'  BY <1>2, <1>3, <2>4, <3>1 DEF MarkAt
    <3>6. OtherAfter(f, c)' \/ (c = f + 1 /\ (p - 1 - c = Len(answer))')
      <4>1. c \in 1 .. n  BY <1>3, <2>1
      <4>2. QED  BY <1>2, <1>9, <2>1, <4>1 DEF ShownFrame
    <3>7. ASSUME NEW i \in p + 1 .. Len(screen'), screen'[i] \in Closes PROVE OtherAfter(f, i)'
      <4>1. i \in 1 .. Len(screen')  BY <3>1, <1>3
      <4>2. CASE i \in 1 .. n
        <5>1. i \in p + 1 .. n  BY <4>2
        <5>2. QED  BY <1>3, <1>9, <2>1, <3>7, <4>2, <5>1 DEF ShownFrame
      <4>3. CASE i \notin 1 .. n
        <5>1. i = n + 3  BY <1>5, <3>7, <4>1, <4>3
        <5>2. n + 3 \in n + 2 .. n + 3  BY <1>3
        <5>3. QED  BY <2>2, <5>1, <5>2
      <4>4. QED  BY <4>2, <4>3
    <3>8. ShownFrame(f, c, p)'
      BY <2>1, <3>2, <3>3, <3>4, <3>5, <3>6, <3>7 DEF ShownFrame
    <3>9. QED  BY <3>8
  <2>5. QED  BY <1>9, <2>3, <2>4
<1>10. QED  BY <1>2, <1>3, <1>6, <1>7, <1>8, <1>9
(* One more token at the end of a screen with a frame: if it is no closing  *)
(* tag, and no mark but the answer's, all but the answer stays as it was.   *)
LEMMA FrameGrows ==
  ASSUME CaptureInv, NEW w \in Token \ Closes, Shows(<<w>>), UNCHANGED <<before, broken>>,
         NEW f \in Nat, NEW c \in Nat, NEW p \in Nat, ShownFrame(f, c, p), p <= Len(screen) + 1,
         w \in Own => p = Len(screen) + 1
  PROVE  /\ screen' \in Seq(Token) /\ Len(screen') = Len(screen) + 1 /\ Len(screen) \in Nat
         /\ \A i \in 1 .. Len(screen) : screen'[i] = screen[i]
         /\ screen'[Len(screen) + 1] = w
         /\ \A i \in 1 .. Len(screen') : screen'[i] \in Closes => screen'[i] = Close(broken)'
         /\ NoOwn(before)'
         /\ f \in 1 .. Len(screen') /\ c \in f + 1 .. Len(screen')
         /\ p \in c + 1 .. Len(screen') /\ screen'[f] \in Own /\ screen'[c] \in Closes
         /\ \A i \in 1 .. Len(screen') : screen'[i] \in Own => i \in {f, p}
         /\ OtherAfter(f, c) => OtherAfter(f, c)'
         /\ \A i \in p + 1 .. Len(screen') : screen'[i] \in Closes => OtherAfter(f, i)'
         /\ \A i \in c + 1 .. p - 1 : i \in 1 .. Len(screen) /\ screen'[i] = screen[i]
<1> USE DEF CaptureInv, Shapes
<1> DEFINE n == Len(screen)
<1>1. /\ screen' \in Seq(Token) /\ Len(screen') = n + 1 /\ n \in Nat
      /\ \A i \in 1 .. n : screen'[i] = screen[i]
      /\ screen'[n + 1] = w
  BY ShowsOne
<1>2. /\ f \in 1 .. n /\ c \in f + 1 .. n /\ p \in c + 1 .. n + 1
      /\ c \in 1 .. n
  BY <1>1 DEF ShownFrame
<1>3. \A i \in 1 .. n + 1 : i \in 1 .. n \/ i = n + 1  BY <1>1
<1>4. /\ screen'[f] \in Own /\ screen'[c] \in Closes
      /\ \A i \in 1 .. n : screen'[i] \in Own => i \in {f, p}
      /\ \A i \in 1 .. n : OtherAfter(f, i) => OtherAfter(f, i)'
  <2>1. n <= Len(screen') /\ Shapes  BY <1>1
  <2>2. QED  BY <1>1, <2>1, FrameStays
<1>5. Close(broken)' = Close(broken) /\ NoOwn(before)'  BY DEF Close, NoOwn
<1>6. \A i \in 1 .. n + 1 : screen'[i] \in Closes => screen'[i] = Close(broken)'
  BY <1>1, <1>3, <1>5
<1>7. \A i \in 1 .. n + 1 : screen'[i] \in Own => i \in {f, p}
  BY <1>1, <1>3, <1>4
<1>8. ASSUME NEW i \in p + 1 .. n + 1, screen'[i] \in Closes PROVE OtherAfter(f, i)'
  <2>1. i \in 1 .. n + 1  BY <1>2
  <2>2. i \in 1 .. n  BY <1>1, <1>3, <1>8, <2>1
  <2>3. i \in p + 1 .. n /\ screen[i] \in Closes  BY <1>1, <1>8, <2>2
  <2>4. QED  BY <1>4, <2>2, <2>3 DEF ShownFrame
<1>9. \A i \in c + 1 .. p - 1 : i \in 1 .. n  BY <1>1, <1>2
<1>10. f \in 1 .. n + 1 /\ c \in f + 1 .. n + 1 /\ p \in c + 1 .. n + 1
  BY <1>1, <1>2
<1>11. QED  BY <1>1, <1>2, <1>4, <1>5, <1>6, <1>7, <1>8, <1>9, <1>10

LEMMA AnswersKeeps ==
  ASSUME CaptureInv, NEW w \in Words, Answers(w) PROVE CaptureInv'
<1>1. /\ phase = "framed" /\ phase' = phase /\ Shows(<<w>>)
      /\ answer' = Append(answer, w) /\ UNCHANGED <<before, broken>>
  BY DEF Answers
<1>2. w \in Token \ Closes /\ w \notin Own  BY WordsAreNoMarks
<1>3. PICK f \in Nat, c \in Nat, p \in Nat : ShownFrame(f, c, p)
  BY <1>1 DEF CaptureInv
<1>4. Shapes  BY DEF CaptureInv
<1>5. p = Len(screen) + 1 /\ Len(screen) \in Nat
  BY <1>1, <1>3, <1>4 DEF ShownFrame, MarkAt, Shapes
<1>6. /\ screen' \in Seq(Token) /\ Len(screen') = Len(screen) + 1
      /\ \A i \in 1 .. Len(screen) : screen'[i] = screen[i]
      /\ screen'[Len(screen) + 1] = w
      /\ \A i \in 1 .. Len(screen') : screen'[i] \in Closes => screen'[i] = Close(broken)'
      /\ NoOwn(before)'
      /\ f \in 1 .. Len(screen') /\ c \in f + 1 .. Len(screen')
      /\ p \in c + 1 .. Len(screen') /\ screen'[f] \in Own /\ screen'[c] \in Closes
      /\ \A i \in 1 .. Len(screen') : screen'[i] \in Own => i \in {f, p}
      /\ OtherAfter(f, c) => OtherAfter(f, c)'
      /\ \A i \in c + 1 .. p - 1 : i \in 1 .. Len(screen) /\ screen'[i] = screen[i]
  <2>1. p <= Len(screen) + 1  BY <1>5
  <2>2. QED  BY <1>1, <1>2, <1>3, <2>1, FrameGrows
<1>7. /\ answer \in Seq(Words) /\ answer' \in Seq(Words) /\ Len(answer) \in Nat
      /\ Len(answer') = Len(answer) + 1
      /\ \A i \in 1 .. Len(answer) : answer'[i] = answer[i]
      /\ answer'[Len(answer) + 1] = w
  BY <1>1, <1>4 DEF Shapes
<1>8. PICK q \in Nat : q = p + 1  OBVIOUS
<1>9. AnswerBetween(c, q)'
  <2>1. p - 1 - c <= Len(answer) /\ c \in Nat /\ p \in Nat /\ c < p
    BY <1>3, <1>5, <1>6 DEF ShownFrame, AnswerBetween
  <2>2. q - 1 - c <= Len(answer')  BY <1>7, <1>8, <2>1
  <2>3. ASSUME NEW i \in c + 1 .. q - 1
        PROVE  screen'[i] = answer'[Len(answer') - (q - 1 - i)]
    <3>1. CASE i = p
      <4>1. Len(answer') - (q - 1 - i) = Len(answer) + 1  BY <1>7, <1>8, <3>1
      <4>2. QED  BY <1>5, <1>6, <1>7, <3>1, <4>1
    <3>2. CASE i # p
      <4>1. i \in c + 1 .. p - 1  BY <1>8, <3>2
      <4>2. screen'[i] = answer[Len(answer) - (p - 1 - i)]
        BY <1>3, <1>6, <4>1 DEF ShownFrame, AnswerBetween
      <4>3. Len(answer) - (p - 1 - i) \in 1 .. Len(answer)
            /\ Len(answer') - (q - 1 - i) = Len(answer) - (p - 1 - i)
        BY <1>7, <1>8, <2>1, <4>1
      <4>4. QED  BY <1>7, <4>2, <4>3
    <3>3. QED  BY <3>1, <3>2
  <2>4. QED  BY <2>2, <2>3 DEF AnswerBetween
<1>10. MarkAt(q)'  BY <1>1, <1>5, <1>6, <1>8 DEF MarkAt
<1>11. (\A i \in 1 .. Len(screen) : screen[i] \in Own => i \in {f, q})'
  BY <1>2, <1>5, <1>6
<1>12. OtherAfter(f, c)' \/ (c = f + 1 /\ (q - 1 - c = Len(answer))')
  BY <1>3, <1>6, <1>7, <1>8 DEF ShownFrame
<1>13. (\A i \in q + 1 .. Len(screen) : screen[i] \in Closes => OtherAfter(f, i))'
  BY <1>5, <1>6, <1>8
<1>14. q \in c + 1 .. Len(screen') + 1  BY <1>5, <1>6, <1>8
<1>15. ShownFrame(f, c, q)'
  BY <1>6, <1>9, <1>10, <1>11, <1>12, <1>13, <1>14 DEF ShownFrame
<1>16. Shapes'  BY <1>1, <1>4, <1>6, <1>7 DEF Shapes
<1>17. QED  BY <1>1, <1>6, <1>15, <1>16 DEF CaptureInv

(* The answer's mark, and what is printed after it.                         *)
LEMMA MarksAndTalksKeep ==
  ASSUME CaptureInv, NEW w \in Token \ Closes, Shows(<<w>>), UNCHANGED <<before, answer, broken>>,
         \/ phase = "framed" /\ phase' = "marked" /\ w \in Own /\ answer # << >>
         \/ phase = "marked" /\ phase' = "marked" /\ w \notin Own
  PROVE  CaptureInv'
<1>1. PICK f \in Nat, c \in Nat, p \in Nat : ShownFrame(f, c, p)
  BY DEF CaptureInv
<1>2. Shapes  BY DEF CaptureInv
<1>3. /\ Len(screen) \in Nat /\ p \in c + 1 .. Len(screen) + 1 /\ p <= Len(screen) + 1
      /\ c \in f + 1 .. Len(screen) /\ c \in Nat
  BY <1>1, <1>2 DEF ShownFrame, Shapes
<1>4. /\ phase = "framed" => p = Len(screen) + 1
      /\ phase = "marked" => p <= Len(screen) /\ screen[p] \in Own /\ answer # << >>
  BY <1>1 DEF ShownFrame, MarkAt
<1>5. /\ screen' \in Seq(Token) /\ Len(screen') = Len(screen) + 1
      /\ \A i \in 1 .. Len(screen) : screen'[i] = screen[i]
      /\ screen'[Len(screen) + 1] = w
      /\ \A i \in 1 .. Len(screen') : screen'[i] \in Closes => screen'[i] = Close(broken)'
      /\ NoOwn(before)'
      /\ f \in 1 .. Len(screen') /\ c \in f + 1 .. Len(screen')
      /\ p \in c + 1 .. Len(screen') /\ screen'[f] \in Own /\ screen'[c] \in Closes
      /\ \A i \in 1 .. Len(screen') : screen'[i] \in Own => i \in {f, p}
      /\ OtherAfter(f, c) => OtherAfter(f, c)'
      /\ \A i \in p + 1 .. Len(screen') : screen'[i] \in Closes => OtherAfter(f, i)'
      /\ \A i \in c + 1 .. p - 1 : i \in 1 .. Len(screen) /\ screen'[i] = screen[i]
  BY <1>1, <1>3, <1>4, FrameGrows
<1>6. AnswerBetween(c, p)'
  BY <1>1, <1>5 DEF ShownFrame, AnswerBetween
<1>7. screen'[p] \in Own /\ p <= Len(screen')
  <2>1. p \in 1 .. Len(screen')  BY <1>3, <1>5
  <2>2. CASE p = Len(screen) + 1  BY <1>4, <1>5, <2>1, <2>2
  <2>3. CASE p # Len(screen) + 1
    <3>1. p \in 1 .. Len(screen)  BY <1>3, <2>3, <1>5
    <3>2. QED  BY <1>4, <1>5, <2>1, <2>3, <3>1
  <2>4. QED  BY <2>2, <2>3
<1>8. MarkAt(p)'  BY <1>4, <1>7 DEF MarkAt
<1>9. OtherAfter(f, c)' \/ (c = f + 1 /\ (p - 1 - c = Len(answer))')
  BY <1>1, <1>5 DEF ShownFrame
<1>10. p \in c + 1 .. Len(screen') + 1  BY <1>3, <1>5
<1>11. ShownFrame(f, c, p)'
  BY <1>5, <1>6, <1>8, <1>9, <1>10 DEF ShownFrame
<1>12. Shapes'  BY <1>2, <1>5 DEF Shapes
<1>13. QED  BY <1>5, <1>11, <1>12 DEF CaptureInv

LEMMA CaptureInit == Init => CaptureInv
  BY DEF Init, CaptureInv, Shapes, NoOwn

LEMMA CaptureStep ==
  ASSUME CaptureInv, [Next]_terminal, Echoes = {"whole"} PROVE CaptureInv'
<1>1. ASSUME NEW w \in Words, OtherWords(w) \/ Answers(w) PROVE CaptureInv'
  BY <1>1, OtherWordsKeeps, AnswersKeeps
<1>2. ASSUME NEW w \in Words, Talks(w) PROVE CaptureInv'
  BY <1>2, WordsAreNoMarks, MarksAndTalksKeep DEF Talks
<1>3. ASSUME NEW b \in BOOLEAN, Marks(b) PROVE CaptureInv'
  <2>1. Mark(b) \in Token \ Closes /\ Mark(b) \in Own  BY MarksAre DEF Token
  <2>2. QED  BY <1>3, <2>1, MarksAndTalksKeep DEF Marks
<1>4. CASE UNCHANGED terminal
  <2>1. UNCHANGED <<screen, before, answer, phase, broken>>  BY <1>4 DEF terminal
  <2>2. QED
    BY <2>1 DEF CaptureInv, Shapes, NoOwn, Close, ShownFrame, OtherAfter, AnswerBetween, MarkAt
<1>5. QED  BY <1>1, <1>2, <1>3, <1>4, OtherFrameKeeps, SubmitKeeps DEF Next
-----------------------------------------------------------------------------
(* What capture_reply sees of such a screen.                                *)

(* Its delta is the end of the screen from some d on, and nothing of the    *)
(* read before it is a mark of this message.                                *)
DeltaFrom(v, d) ==
  /\ v \in 0 .. Len(screen) /\ d \in v .. Len(screen)
  /\ ReadAgent(screen) = From(screen, v)
  /\ TerminalDelta(before, ReadAgent(screen)) = From(screen, d)
  /\ \A i \in v + 1 .. d : screen[i] \notin Own

LEMMA DeltaOfScreen ==
  ASSUME CaptureInv PROVE \E v, d \in Nat : DeltaFrom(v, d)
<1>0. screen \in Seq(Token) /\ before \in Seq(Token) /\ NoOwn(before)
  BY DEF CaptureInv, Shapes
<1>1. PICK v \in 0 .. Len(screen) : ReadAgent(screen) = From(screen, v)
  BY <1>0, ReadIsSuffix
<1> DEFINE view == From(screen, v)
<1>2. view \in Seq(Token) /\ Len(view) = Len(screen) - v /\ Len(screen) \in Nat
      /\ \A i \in 1 .. Len(screen) - v : view[i] = screen[v + i]
  BY <1>0, FromOfType
<1>3. PICK k \in 0 .. Len(view) :
        TerminalDelta(before, view) = From(view, k) /\ Dropped(before, view, k)
  BY <1>0, <1>2, DeltaIsSuffix
<1>4. PICK d \in Nat : d = v + k  OBVIOUS
<1>5. d \in v .. Len(screen) /\ k \in 0 .. Len(screen) - v  BY <1>2, <1>3, <1>4
<1>6. From(view, k) = From(screen, d)  BY <1>0, <1>4, <1>5, FromFrom
<1>7. ASSUME NEW i \in v + 1 .. d PROVE screen[i] \notin Own
  <2>1. i - v \in 1 .. k /\ v + (i - v) = i /\ i - v \in 1 .. Len(screen) - v
    BY <1>2, <1>3, <1>4
  <2>2. view[i - v] = screen[i]  BY <1>2, <2>1
  <2>3. view[i - v] \notin Own  BY <1>0, <1>3, <2>1 DEF Dropped, NoOwn
  <2>4. QED  BY <2>2, <2>3
<1>8. QED  BY <1>1, <1>3, <1>5, <1>6, <1>7 DEF DeltaFrom

(* The last closing tag of the delta, in screen positions: none, which is d,*)
(* or below all the others.                                                 *)
LEMMA LastClose ==
  ASSUME CaptureInv, NEW d \in 0 .. Len(screen)
  PROVE  LET delta == From(screen, d)
             t == d + FindWrapped(delta, "CLOSE")
         IN /\ t \in d .. Len(screen)
            /\ t > d => screen[t] \in Closes
            /\ \A i \in d + 1 .. Len(screen) : screen[i] \in Closes => i <= t
            /\ From(delta, FindWrapped(delta, "CLOSE")) = From(screen, t)
<1> USE DEF CaptureInv, Shapes
<1> DEFINE delta == From(screen, d)
           n == FindWrapped(delta, "CLOSE")
<1>0. screen \in Seq(Token)  OBVIOUS
<1>1. /\ delta \in Seq(Token) /\ Len(delta) = Len(screen) - d /\ Len(screen) \in Nat
      /\ \A i \in 1 .. Len(screen) - d : delta[i] = screen[d + i]
  BY <1>0, FromOfType
<1>2. \A i \in 1 .. Len(screen) - d : d + i \in 1 .. Len(screen)  BY <1>1
<1> HIDE DEF delta
<1>3. \A i \in 1 .. Len(delta) : delta[i] \in Marked("CLOSE") => delta[i] = Close(broken)
  BY <1>1, <1>2, MarksAre
<1>4. /\ n \in 0 .. Len(delta) /\ (n > 0 => delta[n] \in Closes)
      /\ \A i \in 1 .. Len(delta) : delta[i] \in Closes => i <= n
  BY <1>1, <1>3, FindWrappedProps, FindWrappedLast, MarksAre
<1> HIDE DEF n
<1>5. ASSUME NEW i \in d + 1 .. Len(screen), screen[i] \in Closes PROVE i <= d + n
  <2>1. i - d \in 1 .. Len(delta) /\ d + (i - d) = i  BY <1>1
  <2>2. delta[i - d] \in Closes  BY <1>1, <1>5, <2>1
  <2>3. i - d <= n  BY <1>4, <2>1, <2>2
  <2>4. QED  BY <1>1, <1>4, <2>3
<1>6. d + n \in d .. Len(screen)  BY <1>1, <1>4
<1>7. ASSUME d + n > d PROVE screen[d + n] \in Closes
  <2>1. n > 0 /\ n \in 1 .. Len(screen) - d  BY <1>1, <1>4, <1>7
  <2>2. QED  BY <1>1, <1>4, <2>1
<1>8. From(delta, n) = From(screen, d + n)
  <2>1. n \in 0 .. Len(screen) - d  BY <1>1, <1>4
  <2>2. QED  BY <2>1, FromFrom DEF delta
<1>9. QED  BY <1>5, <1>6, <1>7, <1>8 DEF delta, n

(* A turn-fenced capture: the marker found is a mark of this message behind *)
(* every closing tag of the delta, and the text is what stands before it.   *)
Fenced(t, m) ==
  /\ t \in 0 .. Len(screen) /\ m \in t + 2 .. Len(screen) /\ screen[m] \in Own
  /\ Captured.text = Upto(From(screen, t), m - t - 1)

LEMMA FencedCapture ==
  ASSUME CaptureInv, NEW v, NEW d \in Nat, DeltaFrom(v, d), Captured.confidence = "turn_fenced"
  PROVE  \E t, m \in Nat :
           /\ Fenced(t, m) /\ d <= t
           /\ \A i \in d + 1 .. Len(screen) : screen[i] \in Closes => i <= t
<1> DEFINE delta == From(screen, d)
           tail == From(delta, FindWrapped(delta, "CLOSE"))
           k == FindWrapped(tail, "MARK")
<1>1. d \in 0 .. Len(screen)  BY DEF DeltaFrom, CaptureInv, Shapes
<1>2. PICK t \in Nat :
        /\ t \in d .. Len(screen) /\ tail = From(screen, t)
        /\ \A i \in d + 1 .. Len(screen) : screen[i] \in Closes => i <= t
  <2>1. d + FindWrapped(delta, "CLOSE") \in d .. Len(screen)  BY <1>1, LastClose
  <2>2. d + FindWrapped(delta, "CLOSE") \in Nat  BY <1>1, <2>1
  <2>3. QED  BY <1>1, <2>1, <2>2, LastClose
<1>3. k > 1 /\ Captured.text = Upto(tail, k - 1)
  <2>1. TerminalDelta(before, ReadAgent(screen)) = delta  BY DEF DeltaFrom
  <2>2. CASE k > 1
    <3>1. Captured = Capture(Upto(tail, k - 1), "turn_fenced")
      BY <2>1, <2>2 DEF Captured, CaptureReply
    <3>2. QED  BY <2>2, <3>1 DEF Capture
  <2>3. CASE ~(k > 1)
    <3>1. Captured.confidence \in {"heuristic", "none"}
      BY <2>1, <2>3 DEF Captured, CaptureReply, Capture
    <3>2. QED  BY <3>1
  <2>4. QED  BY <2>2, <2>3
<1>4. /\ tail \in Seq(Token) /\ Len(tail) = Len(screen) - t /\ Len(screen) \in Nat
      /\ \A i \in 1 .. Len(screen) - t : tail[i] = screen[t + i]
  <2>1. t \in 0 .. Len(screen) /\ screen \in Seq(Token)  BY <1>1, <1>2 DEF CaptureInv, Shapes
  <2>2. QED  BY <1>2, <2>1, FromProps
<1> HIDE DEF tail
<1>5. k \in 0 .. Len(tail) /\ tail[k] \in Own
  BY <1>3, <1>4, FindWrappedProps, MarksAre
<1> HIDE DEF k
<1>6. PICK m \in Nat : m = t + k  BY <1>5
<1>7. m \in t + 2 .. Len(screen) /\ screen[m] \in Own /\ m - t - 1 = k - 1 /\ t \in 0 .. Len(screen)
  <2>1. k \in 1 .. Len(screen) - t /\ t <= Len(screen)  BY <1>1, <1>2, <1>3, <1>4, <1>5
  <2>2. screen[m] \in Own  BY <1>4, <1>5, <1>6, <2>1
  <2>3. QED  BY <1>3, <1>4, <1>6, <2>1, <2>2
<1>8. QED  BY <1>2, <1>3, <1>6, <1>7 DEF Fenced

(* The mark found is never the frame's: behind that one there is a closing  *)
(* tag, in the delta with it.                                               *)
LEMMA FencedIsAnswersMark ==
  ASSUME CaptureInv, NEW d \in Nat, NEW t \in Nat, NEW m \in Nat, Fenced(t, m), d <= t,
         \A i \in d + 1 .. Len(screen) : screen[i] \in Closes => i <= t
  PROVE  /\ phase = "marked"
         /\ \E f, c \in Nat : ShownFrame(f, c, m) /\ (c <= t)
<1>1. phase # "idle" /\ m \in 1 .. Len(screen) /\ Len(screen) \in Nat
  BY DEF CaptureInv, NoOwn, Fenced, Shapes
<1>2. PICK f \in Nat, c \in Nat, p \in Nat : ShownFrame(f, c, p)
  BY <1>1 DEF CaptureInv
<1>3. m \in {f, p}  BY <1>1, <1>2 DEF Fenced, ShownFrame
<1>4. f < c /\ c <= Len(screen) /\ screen[c] \in Closes /\ c < p
  BY <1>1, <1>2 DEF ShownFrame
<1>5. c <= t
  <2>1. CASE c > d  BY <1>1, <1>4, <2>1
  <2>2. CASE ~(c > d)  BY <2>2
  <2>3. QED  BY <2>1, <2>2
<1>6. m > t  BY <1>1 DEF Fenced
<1>7. m = p  BY <1>3, <1>4, <1>5, <1>6
<1>8. phase = "marked"
  BY <1>1, <1>2, <1>7 DEF ShownFrame, MarkAt, CaptureInv, Shapes
<1>9. QED  BY <1>2, <1>5, <1>7, <1>8
LEMMA SuffixOf ==
  ASSUME NEW T, NEW s \in Seq(T), NEW r \in Seq(T), Len(s) <= Len(r),
         \A i \in 1 .. Len(s) : s[Len(s) - i + 1] = r[Len(r) - i + 1]
  PROVE  IsSuffix(s, r)
<1> DEFINE rs == Reverse(s)
           rr == Reverse(r)
<1>1. Len(s) \in Nat /\ Len(r) \in Nat  OBVIOUS
<1>2. /\ rs \in Seq(T) /\ Len(rs) = Len(s)
      /\ \A i \in 1 .. Len(s) : rs[i] = s[(Len(s) - i) + 1]
  <2>1. \A i \in 1 .. Len(s) : (Len(s) - i) + 1 \in 1 .. Len(s)  BY <1>1
  <2>2. QED  BY <1>1, <2>1, IsASeq DEF Reverse
<1>3. /\ rr \in Seq(T) /\ Len(rr) = Len(r)
      /\ \A i \in 1 .. Len(r) : rr[i] = r[(Len(r) - i) + 1]
  <2>1. \A i \in 1 .. Len(r) : (Len(r) - i) + 1 \in 1 .. Len(r)  BY <1>1
  <2>2. QED  BY <1>1, <2>1, IsASeq DEF Reverse
<1>4. \A i \in 1 .. Len(s) : i \in 1 .. Len(r)  BY <1>1
<1>5. \A i \in 1 .. Len(s) : rs[i] = rr[i]  BY <1>2, <1>3, <1>4
<1>6. Upto(rs, Len(s)) = Upto(rr, Len(s))
  <2> HIDE DEF rs, rr
  <2>1. Len(s) \in 0 .. Len(rs) /\ Len(s) \in 0 .. Len(rr)  BY <1>1, <1>2, <1>3
  <2>2. /\ Upto(rs, Len(s)) \in Seq(T) /\ Len(Upto(rs, Len(s))) = Len(s)
        /\ \A i \in 1 .. Len(s) : Upto(rs, Len(s))[i] = rs[i]
    BY <1>2, <2>1, UptoProps
  <2>3. /\ Upto(rr, Len(s)) \in Seq(T) /\ Len(Upto(rr, Len(s))) = Len(s)
        /\ \A i \in 1 .. Len(s) : Upto(rr, Len(s))[i] = rr[i]
    BY <1>3, <2>1, UptoProps
  <2>4. QED  BY <1>5, <2>2, <2>3, SeqEqual
<1>7. QED  BY <1>2, <1>3, <1>6 DEF IsSuffix, IsPrefix, Upto

LEMMA AnswerIsCaptured ==
  ASSUME CaptureInv PROVE EchoIsNoAnswer /\ FencedIsAnswer
<1> SUFFICES ASSUME Captured.confidence = "turn_fenced"
             PROVE  /\ phase = "marked"
                    /\ Captured.text # << >> /\ IsSuffix(Captured.text, answer)
  BY DEF EchoIsNoAnswer, FencedIsAnswer
<1>1. PICK v \in Nat, d \in Nat : DeltaFrom(v, d)  BY DeltaOfScreen
<1>2. PICK t \in Nat, m \in Nat :
        /\ Fenced(t, m) /\ d <= t
        /\ \A i \in d + 1 .. Len(screen) : screen[i] \in Closes => i <= t
  BY <1>1, FencedCapture
<1>3. phase = "marked" /\ \E f, c \in Nat : ShownFrame(f, c, m) /\ (c <= t)
  BY <1>2, FencedIsAnswersMark
<1>4. PICK f \in Nat, c \in Nat : ShownFrame(f, c, m) /\ c <= t
  BY <1>3
<1>5. /\ screen \in Seq(Token) /\ answer \in Seq(Words) /\ answer \in Seq(Token)
      /\ Len(screen) \in Nat /\ Len(answer) \in Nat
  BY WordsAreNoMarks DEF CaptureInv, Shapes
<1>6. t \in 0 .. Len(screen) /\ m \in t + 2 .. Len(screen)  BY <1>2 DEF Fenced
<1> DEFINE n == m - t - 1
           text == Upto(From(screen, t), n)
<1>7. n \in 1 .. Len(screen) - t /\ m = t + n + 1  BY <1>5, <1>6
<1>8. text \in Seq(Token) /\ Len(text) = n /\ \A i \in 1 .. n : text[i] = screen[t + i]
  <2>1. /\ From(screen, t) \in Seq(Token) /\ Len(From(screen, t)) = Len(screen) - t
        /\ \A i \in 1 .. Len(screen) - t : From(screen, t)[i] = screen[t + i]
    BY <1>5, <1>6, FromProps
  <2>2. n \in 0 .. Len(From(screen, t))  BY <1>7, <2>1
  <2>3. /\ text \in Seq(Token) /\ Len(text) = n
        /\ \A i \in 1 .. n : text[i] = From(screen, t)[i]
    BY <2>1, <2>2, UptoProps
  <2>4. \A i \in 1 .. n : i \in 1 .. Len(screen) - t  BY <1>5, <1>6, <1>7
  <2>5. QED  BY <2>1, <2>3, <2>4
<1>9. /\ m - 1 - c <= Len(answer)
      /\ \A i \in c + 1 .. m - 1 : screen[i] = answer[Len(answer) - (m - 1 - i)]
  BY <1>4 DEF ShownFrame, AnswerBetween
<1>10. n <= Len(answer)  BY <1>4, <1>5, <1>7, <1>9
<1>11. ASSUME NEW i \in 1 .. n
       PROVE  text[n - i + 1] = answer[Len(answer) - i + 1]
  <2>1. n - i + 1 \in 1 .. n /\ t + (n - i + 1) \in c + 1 .. m - 1
    BY <1>4, <1>7
  <2>2. text[n - i + 1] = screen[t + (n - i + 1)]  BY <1>8, <2>1
  <2>3. screen[t + (n - i + 1)] = answer[Len(answer) - (m - 1 - (t + (n - i + 1)))]
    BY <1>9, <2>1
  <2>4. Len(answer) - (m - 1 - (t + (n - i + 1))) = Len(answer) - i + 1
    BY <1>5, <1>6, <1>7
  <2>5. QED  BY <2>2, <2>3, <2>4
<1>12. Captured.text = text  BY <1>2 DEF Fenced
<1> HIDE DEF n, text
<1>13. IsSuffix(text, answer)
  <2>1. \A i \in 1 .. Len(text) :
          text[Len(text) - i + 1] = answer[Len(answer) - i + 1]
    BY <1>8, <1>11
  <2>2. QED  BY <1>5, <1>8, <1>10, <2>1, SuffixOf
<1>14. text # << >>  BY <1>7, <1>8
<1>15. QED  BY <1>3, <1>12, <1>13, <1>14

(* With both marks in the read and no frame of another message after the    *)
(* first, the delta begins before the frame's mark, and its last closing tag*)
(* is the frame's.                                                          *)
LEMMA BothMarksInView ==
  ASSUME CaptureInv, NEW v \in Nat, NEW d \in Nat, DeltaFrom(v, d),
         Cardinality(OwnMarks(ReadAgent(screen))) = 2,
         LastIn(ReadAgent(screen), Other) < Min(OwnMarks(ReadAgent(screen)))
  PROVE  \E f, c, p \in Nat :
           /\ ShownFrame(f, c, p) /\ d < f /\ p <= Len(screen) /\ phase = "marked"
           /\ ~OtherAfter(f, Len(screen))
<1> DEFINE view == ReadAgent(screen)
           S == OwnMarks(view)
<1>1. /\ v \in 0 .. Len(screen) /\ Len(screen) \in Nat /\ screen \in Seq(Token)
      /\ view \in Seq(Token) /\ Len(view) = Len(screen) - v
      /\ \A i \in 1 .. Len(screen) - v : view[i] = screen[v + i]
  <2>1. screen \in Seq(Token) /\ v \in 0 .. Len(screen) /\ view = From(screen, v)
    BY DEF DeltaFrom, CaptureInv, Shapes
  <2> HIDE DEF view
  <2>2. /\ view \in Seq(Token) /\ Len(view) = Len(screen) - v
        /\ \A i \in 1 .. Len(screen) - v : view[i] = screen[v + i]
    BY <2>1, FromProps
  <2>3. QED  BY <2>1, <2>2
<1>2. \A i \in 1 .. Len(screen) - v : v + i \in 1 .. Len(screen)  BY <1>1
<1> HIDE DEF view
<1>3. \A i \in S : i \in 1 .. Len(screen) - v /\ i \in Nat /\ screen[v + i] \in Own
  BY <1>1 DEF OwnMarks
<1>4. \A x, y : S # {x} /\ S # {}
  <2>1. S # {}  BY FS_EmptySet DEF view
  <2>2. ASSUME NEW x, S = {x} PROVE FALSE
    <3>1. Cardinality({x}) = 1  BY FS_Singleton
    <3>2. QED  BY <2>2, <3>1 DEF view
  <2>3. QED  BY <2>1, <2>2
<1>5. phase # "idle"
  BY <1>2, <1>3, <1>4 DEF CaptureInv, NoOwn
<1>6. PICK f \in Nat, c \in Nat, p \in Nat : ShownFrame(f, c, p)
  BY <1>5 DEF CaptureInv
<1>7. \A i \in S : v + i = f \/ v + i = p
  BY <1>2, <1>3, <1>6 DEF ShownFrame
<1>8. \E i \in S : v + i = f
  <2>1. SUFFICES ASSUME \A i \in S : v + i # f PROVE FALSE  OBVIOUS
  <2>2. \A i, j \in S : i = j  BY <1>3, <1>7, <2>1
  <2>3. QED  BY <1>4, <2>2
<1>9. \E i \in S : v + i = p
  <2>1. SUFFICES ASSUME \A i \in S : v + i # p PROVE FALSE  OBVIOUS
  <2>2. \A i, j \in S : i = j  BY <1>3, <1>7, <2>1
  <2>3. QED  BY <1>4, <2>2
<1>10. p <= Len(screen) /\ phase = "marked"
  <2>1. p <= Len(screen)  BY <1>2, <1>3, <1>9
  <2>2. QED  BY <1>5, <1>6, <2>1, <1>1 DEF ShownFrame, MarkAt, CaptureInv, Shapes
<1>11. d < f
  <2>1. f \in v + 1 .. Len(screen) /\ screen[f] \in Own  BY <1>1, <1>3, <1>6, <1>8
  <2>2. d \in v .. Len(screen) /\ \A i \in v + 1 .. d : screen[i] \notin Own
    BY DEF DeltaFrom
  <2>3. QED  BY <1>1, <2>1, <2>2
<1>12. ~OtherAfter(f, Len(screen))
  <2>1. SUFFICES ASSUME NEW j \in f + 1 .. Len(screen), screen[j] = Other PROVE FALSE
    BY DEF OtherAfter
  <2>2. PICK i \in S : v + i = f  BY <1>8
  <2>3. Min(S) <= i /\ Min(S) \in Nat
    <3>1. S \subseteq Nat  BY <1>3
    <3>2. Min(S) \in S /\ \A x \in S : Min(S) <= x  BY <1>4, <3>1, LeastIn
    <3>3. QED  BY <3>1, <3>2
  <2>4. j - v \in 1 .. Len(view) /\ v + (j - v) = j /\ i < j - v
    BY <1>1, <1>3, <2>2
  <2>5. view[j - v] = Other  BY <1>1, <2>1, <2>4
  <2>6. j - v <= LastIn(view, Other) /\ LastIn(view, Other) \in Nat
    BY <1>1, <2>4, <2>5, LastInProps
  <2>7. LastIn(view, Other) < Min(S)  BY DEF view
  <2>8. QED  BY <1>3, <2>3, <2>4, <2>6, <2>7
<1>13. QED  BY <1>6, <1>10, <1>11, <1>12

LEMMA VisibleIsCaptured ==
  ASSUME CaptureInv PROVE VisibleAnswerCaptured
<1> SUFFICES ASSUME Cardinality(OwnMarks(ReadAgent(screen))) = 2,
                    LastIn(ReadAgent(screen), Other) < Min(OwnMarks(ReadAgent(screen)))
             PROVE  Captured = Capture(answer, "turn_fenced")
  BY DEF VisibleAnswerCaptured, Other
<1>1. PICK v \in Nat, d \in Nat : DeltaFrom(v, d)  BY DeltaOfScreen
<1>2. PICK f \in Nat, c \in Nat, p \in Nat :
        /\ ShownFrame(f, c, p) /\ d < f /\ p <= Len(screen) /\ phase = "marked"
        /\ ~OtherAfter(f, Len(screen))
  BY <1>1, BothMarksInView
<1>3. /\ screen \in Seq(Token) /\ answer \in Seq(Words) /\ answer \in Seq(Token)
      /\ Len(screen) \in Nat /\ Len(answer) \in Nat /\ d \in 0 .. Len(screen)
  BY <1>1, WordsAreNoMarks DEF CaptureInv, Shapes, DeltaFrom
<1>4. /\ f \in 1 .. Len(screen) /\ c \in f + 1 .. Len(screen) /\ p \in c + 1 .. Len(screen)
      /\ screen[c] \in Closes /\ screen[p] \in Own /\ answer # << >>
      /\ \A i \in 1 .. Len(screen) : screen[i] \in Own => i \in {f, p}
      /\ \A i \in c + 1 .. p - 1 : screen[i] = answer[Len(answer) - (p - 1 - i)]
  BY <1>2, <1>3 DEF ShownFrame, MarkAt, AnswerBetween
<1>5. \A i \in 1 .. Len(screen) : ~OtherAfter(f, i)
  BY <1>2, <1>3 DEF OtherAfter
<1>6. /\ c = f + 1 /\ p - 1 - c = Len(answer)
      /\ \A i \in p + 1 .. Len(screen) : screen[i] \notin Closes
  <2>1. c \in 1 .. Len(screen)  BY <1>3, <1>4
  <2>2. \A i \in p + 1 .. Len(screen) : i \in 1 .. Len(screen)  BY <1>3, <1>4
  <2>3. QED  BY <1>2, <1>5, <2>1, <2>2 DEF ShownFrame
<1> DEFINE delta == From(screen, d)
           t == d + FindWrapped(delta, "CLOSE")
           tail == From(delta, FindWrapped(delta, "CLOSE"))
           k == FindWrapped(tail, "MARK")
<1>7. t = c /\ tail = From(screen, c)
  <2>1. /\ t \in d .. Len(screen) /\ (t > d => screen[t] \in Closes)
        /\ \A i \in d + 1 .. Len(screen) : screen[i] \in Closes => i <= t
        /\ tail = From(screen, t)
    BY <1>3, LastClose
  <2> HIDE DEF t, tail
  <2>2. c <= t  BY <1>2, <1>3, <1>4, <2>1
  <2>3. screen[t] \in Closes  BY <1>2, <1>3, <1>4, <2>1, <2>2
  <2>4. ~(t \in p + 1 .. Len(screen))  BY <1>6, <2>3
  <2>5. t # p  BY <1>4, <2>3, MarksAre
  <2>6. ~(t \in c + 1 .. p - 1)
    <3>1. SUFFICES ASSUME t \in c + 1 .. p - 1 PROVE FALSE  OBVIOUS
    <3>2. Len(answer) - (p - 1 - t) \in 1 .. Len(answer)  BY <1>3, <1>4, <1>6, <3>1
    <3>3. screen[t] \in Words  BY <1>3, <1>4, <3>1, <3>2
    <3>4. QED  BY <2>3, <3>3, WordsAreNoMarks
  <2>7. t = c  BY <1>3, <1>4, <2>1, <2>2, <2>4, <2>5, <2>6
  <2>8. QED  BY <2>1, <2>7
<1> HIDE DEF t, tail
<1>8. /\ tail \in Seq(Token) /\ Len(tail) = Len(screen) - c
      /\ \A i \in 1 .. Len(screen) - c : tail[i] = screen[c + i]
  <2>1. c \in 0 .. Len(screen)  BY <1>3, <1>4
  <2>2. QED  BY <1>3, <1>7, <2>1, FromProps
<1>9. k = p - c
  <2>1. p - c \in 1 .. Len(tail) /\ tail[p - c] \in Own
    <3>1. p - c \in 1 .. Len(screen) - c /\ c + (p - c) = p  BY <1>3, <1>4
    <3>2. QED  BY <1>4, <1>8, <3>1
  <2>2. k \in 0 .. Len(tail) /\ (k > 0 => tail[k] \in Own) /\ k # 0
    BY <1>8, <2>1, FindWrappedProps, MarksAre
  <2> HIDE DEF k
  <2>3. k \in 1 .. Len(screen) - c /\ c + k \in 1 .. Len(screen)  BY <1>3, <1>4, <1>8, <2>2
  <2>4. screen[c + k] \in Own  BY <1>8, <2>2, <2>3
  <2>5. c + k = f \/ c + k = p  BY <1>4, <2>3, <2>4
  <2>6. QED  BY <1>3, <1>4, <2>3, <2>5
<1>10. k - 1 = Len(answer) /\ k > 1
  <2>1. Len(answer) > 0  BY <1>3, <1>4
  <2>2. QED  BY <1>3, <1>4, <1>6, <1>9, <2>1
<1>11. Captured = Capture(Upto(tail, k - 1), "turn_fenced")
  <2>1. TerminalDelta(before, ReadAgent(screen)) = delta  BY <1>1 DEF DeltaFrom
  <2>2. QED  BY <1>10, <2>1 DEF Captured, CaptureReply, tail
<1>12. Upto(tail, k - 1) = answer
  <2> DEFINE n == Len(answer)
  <2>1. n \in 0 .. Len(tail) /\ \A i \in 1 .. n : i \in 1 .. Len(screen) - c
    BY <1>3, <1>4, <1>6, <1>8
  <2>2. /\ Upto(tail, n) \in Seq(Token) /\ Len(Upto(tail, n)) = n
        /\ \A i \in 1 .. n : Upto(tail, n)[i] = tail[i]
    BY <1>8, <2>1, UptoProps
  <2>3. ASSUME NEW i \in 1 .. n PROVE Upto(tail, n)[i] = answer[i]
    <3>1. c + i \in c + 1 .. p - 1 /\ n - (p - 1 - (c + i)) = i
      BY <1>3, <1>4, <1>6
    <3>2. screen[c + i] = answer[n - (p - 1 - (c + i))]  BY <1>4, <3>1
    <3>3. QED  BY <1>8, <2>1, <2>2, <3>1, <3>2
  <2>4. Upto(tail, n) = answer  BY <1>3, <2>2, <2>3, SeqEqual
  <2>5. QED  BY <1>10, <2>4
<1>13. QED  BY <1>11, <1>12

LEMMA CaptureHolds ==
  Echoes = {"whole"} /\ Spec => []CaptureInv
<1>1. Echoes = {"whole"} /\ CaptureInv /\ [Next]_terminal => CaptureInv'
  BY CaptureStep
<1>2. SUFFICES ASSUME Echoes = {"whole"} PROVE Spec => []CaptureInv
  OBVIOUS
<1>3. CaptureInv /\ [Next]_terminal => CaptureInv'  BY <1>1, <1>2
<1>4. QED  BY <1>3, CaptureInit, PTL DEF Spec

(* NoEchoCaptured: EchoIsNoAnswer for every screen, body and window.        *)
THEOREM NoEchoCaptured == Echoes = {"whole"} /\ Spec => []EchoIsNoAnswer
<1>1. CaptureInv => EchoIsNoAnswer  BY AnswerIsCaptured
<1>2. QED  BY <1>1, CaptureHolds, PTL

(* OnlyAnswerCaptured: FencedIsAnswer for every screen, body and window.    *)
THEOREM OnlyAnswerCaptured == Echoes = {"whole"} /\ Spec => []FencedIsAnswer
<1>1. CaptureInv => FencedIsAnswer  BY AnswerIsCaptured
<1>2. QED  BY <1>1, CaptureHolds, PTL

(* WholeAnswerCaptured: VisibleAnswerCaptured for every screen, body, window*)
(* and threshold of terminal_delta.                                         *)
THEOREM WholeAnswerCaptured == Echoes = {"whole"} /\ Spec => []VisibleAnswerCaptured
<1>1. CaptureInv => VisibleAnswerCaptured  BY VisibleIsCaptured
<1>2. QED  BY <1>1, CaptureHolds, PTL
==============================================================================
