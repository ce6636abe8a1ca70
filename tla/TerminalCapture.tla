--------------------------- MODULE TerminalCapture ---------------------------
(***************************************************************************)
(* How the Bridge finds a reply in a terminal (eml_bridge/capture.py), and *)
(* the terminal it looks at.  A screen is a sequence of tokens: the agent's*)
(* words, and the three marks of the frame that build_prompt_frame writes: *)
(* BEGIN_MESSAGE, the reply marker and [/EML-BRIDGE].  A pane too narrow   *)
(* for a mark breaks it, which makes it a token of another kind.  Words are*)
(* no marks: text that quotes the closing tag, or the reply marker with its*)
(* fresh message id, is left out.  Deltas are measured in tokens, the      *)
(* code's thresholds in characters.                                        *)
(***************************************************************************)
EXTENDS Naturals, SequencesExt, FiniteSetsExt

CONSTANTS
  Words,       \* what agents and messages write
  Body,        \* the text of the message
  Echoes,      \* the forms in which a terminal may echo a frame
  MinOverlap,  \* least overlap taken for scrolling (32 characters)
  MinCommon,   \* least common prefix taken for a redraw (64 characters)
  Recall,      \* how far back BEGIN_MESSAGE is looked for (2000 characters)
  Window,      \* tokens read_agent returns (read_lines)
  MaxScreen    \* bound: tokens a terminal ever shows

ASSUME CaptureAssumption ==
  /\ Body \in Seq(Words) /\ Body # << >>
  /\ Words \cap {"MARK", "MARK~", "CLOSE", "CLOSE~"} = {}
  /\ Echoes \subseteq {"whole", "cut", "none"} /\ Echoes # {}
  /\ MinOverlap \in Nat \ {0} /\ MinCommon \in Nat \ {0}
  /\ Recall \in Nat \ {0} /\ Window \in Nat \ {0} /\ MaxScreen \in Nat

Frame(mark, close) == <<"BEGIN">> \o Body \o <<mark, close>>

\* A mark as a pane too narrow for it shows it.
Broken(t) == CASE t = "MARK" -> "MARK~" [] t = "CLOSE" -> "CLOSE~"

-----------------------------------------------------------------------------
(* capture.py.                                                              *)

LastIn(s, t) == Max({0} \cup {i \in 1 .. Len(s) : s[i] = t})

\* Mutant: the leftmost occurrence.
FindFirst(s, t) ==
  LET at == {i \in 1 .. Len(s) : s[i] \in {t, Broken(t)}}
  IN IF at = {} THEN 0 ELSE Min(at)

\* find_wrapped: the last unbroken occurrence, or else the last broken one; 0
\* is None.
FindWrapped(s, t) ==
  LET whole == LastIn(s, t) IN IF whole > 0 THEN whole ELSE LastIn(s, Broken(t))

Upto(s, n) == SubSeq(s, 1, n)
From(s, n) == SubSeq(s, n + 1, Len(s))

Shorter(a, b) == IF Len(a) < Len(b) THEN Len(a) ELSE Len(b)

\* Widths at which the end of one read is the beginning of the next.
Overlaps(before, after) ==
  {n \in MinOverlap .. Shorter(before, after) :
     From(before, Len(before) - n) = Upto(after, n)}

CommonPrefix(before, after) ==
  Max({n \in 0 .. Shorter(before, after) : Upto(before, n) = Upto(after, n)})

\* Mutant: the terminal is taken for an append-only log.
DropBaseline(before, after) == From(after, Len(before))

\* terminal_delta: the text taken to be new.
TerminalDelta(before, after) ==
  LET overlaps == Overlaps(before, after)
      common   == CommonPrefix(before, after)
  IN IF common = Len(before) THEN From(after, common)
     ELSE IF overlaps # {} THEN From(after, Max(overlaps))
     ELSE IF common >= MinCommon THEN From(after, common)
     ELSE after

Capture(text, confidence) == [text |-> text, confidence |-> confidence]

\* Mutant: the marker is looked for in all of the delta.
CaptureAnywhere(before, after) ==
  LET delta == TerminalDelta(before, after)
      marker == FindWrapped(delta, "MARK")
  IN IF marker > 1 THEN Capture(Upto(delta, marker - 1), "turn_fenced")
     ELSE Capture(delta, IF delta = << >> THEN "none" ELSE "heuristic")

\* capture_reply without a structured reply, which outranks it.
CaptureReply(before, after) ==
  LET delta  == TerminalDelta(before, after)
      tail   == From(delta, FindWrapped(delta, "CLOSE"))
      marker == FindWrapped(tail, "MARK")
      inDelta == FindWrapped(delta, "MARK")
      above  == Upto(delta, inDelta - 1)
      recent == From(above, IF Len(above) > Recall THEN Len(above) - Recall ELSE 0)
  IN IF marker > 1 THEN Capture(Upto(tail, marker - 1), "turn_fenced")
     ELSE IF inDelta > 1 /\ ~Contains(recent, "BEGIN") THEN Capture(above, "heuristic")
     ELSE IF tail # << >> THEN Capture(tail, "heuristic")
     ELSE Capture(<< >>, "none")

-----------------------------------------------------------------------------
(* The terminal of one target (external): whatever it showed before, the    *)
(* echoed frame, frames of other messages, the agent's words and its marker.*)

VARIABLES
  screen,    \* everything the terminal has shown
  before,    \* the baseline read by deliver()
  answer,    \* the agent's words since the frame was echoed
  phase,     \* "idle", "framed" once the frame is in, "marked" once answered
  broken     \* whether this pane breaks the marks of a frame

terminal == <<screen, before, answer, phase, broken>>

ReadAgent(s) == From(s, IF Len(s) > Window THEN Len(s) - Window ELSE 0)

Mark(b)  == IF b THEN Broken("MARK") ELSE "MARK"
Close(b) == IF b THEN Broken("CLOSE") ELSE "CLOSE"

Shows(s) == Len(screen) + Len(s) <= MaxScreen /\ screen' = screen \o s

Init ==
  /\ screen = << >> /\ before = << >> /\ answer = << >>
  /\ phase = "idle" /\ broken \in BOOLEAN

\* What was there before: words, and frames of earlier messages, whose markers
\* are other tokens.
OtherWords(w) ==
  /\ phase = "idle"
  /\ Shows(<<w>>)
  /\ UNCHANGED <<before, answer, phase, broken>>

OtherFrame ==
  /\ Shows(<<"BEGIN", "MARK OF ANOTHER", Close(broken)>>)
  /\ UNCHANGED <<before, answer, phase, broken>>

\* deliver() reads its baseline and prompts.  A terminal may show the frame
\* whole, without its last lines, or not at all.
Submit(echo) ==
  /\ phase = "idle"
  /\ before' = ReadAgent(screen)
  /\ LET frame == Frame(Mark(broken), Close(broken))
     IN CASE echo = "whole" -> Shows(frame)
          [] echo = "cut"   -> Shows(Upto(frame, Len(frame) - 1))
          [] echo = "none"  -> Shows(<< >>)
  /\ phase' = "framed"
  /\ UNCHANGED <<answer, broken>>

Answers(w) ==
  /\ phase = "framed"
  /\ Shows(<<w>>)
  /\ answer' = Append(answer, w)
  /\ UNCHANGED <<before, phase, broken>>

\* The answer is indented, so its marker may break where the frame's did not.
Marks(b) ==
  /\ phase = "framed" /\ answer # << >>
  /\ Shows(<<Mark(b)>>)
  /\ phase' = "marked"
  /\ UNCHANGED <<before, answer, broken>>

Talks(w) ==
  /\ phase = "marked"
  /\ Shows(<<w>>)
  /\ UNCHANGED <<before, answer, phase, broken>>

Next ==
  \/ \E w \in Words : OtherWords(w) \/ Answers(w) \/ Talks(w)
  \/ OtherFrame
  \/ \E echo \in Echoes : Submit(echo)
  \/ \E b \in BOOLEAN : Marks(b)

Spec == Init /\ [][Next]_terminal

-----------------------------------------------------------------------------
(* What deliver() would capture now.                                        *)
Captured == CaptureReply(before, ReadAgent(screen))

Own == {"MARK", "MARK~"}
OwnMarks(s) == {i \in 1 .. Len(s) : s[i] \in Own}

(* EchoIsNoAnswer: where frames are echoed whole, a reply is turn-fenced    *)
(* only after the agent wrote its marker, whatever scrolled away, whatever  *)
(* other frames stand around and whatever the baseline was (capture_reply). *)
EchoIsNoAnswer == Captured.confidence = "turn_fenced" => phase = "marked"

(* FencedIsAnswer: and then its text is the agent's words, at least the last*)
(* of them: nothing of the frame, of the body or of what stood before.      *)
FencedIsAnswer ==
  Captured.confidence = "turn_fenced" =>
    Captured.text # << >> /\ IsSuffix(Captured.text, answer)

(* VisibleAnswerCaptured: while the read still holds the frame's marker and *)
(* the agent's, and no later frame, the whole answer is captured, however   *)
(* much of the baseline has scrolled away and whatever is printed after it. *)
VisibleAnswerCaptured ==
  LET view == ReadAgent(screen)
  IN /\ Cardinality(OwnMarks(view)) = 2
     /\ LastIn(view, "MARK OF ANOTHER") < Min(OwnMarks(view))
     => Captured = Capture(answer, "turn_fenced")
=============================================================================
