------------------------------ MODULE Terminal ------------------------------
(***************************************************************************)
(* article/terminal.go: the colours in effect while an article is read.    *)
(* The bit field flags is the set of its bits; NoFlags is a bit of its own *)
(* in the code, not the absence of flags.                                  *)
(***************************************************************************)
EXTENDS Integers, Sequences, SequencesExt

DefaultFg == 7
DefaultBg == 0
NoFlags == {"NoFlags"}
Highlighted == {"Highlighted"}

TerminalStates == [fg : 0 .. 7, bg : 0 .. 7, flags : SUBSET (NoFlags \cup Highlighted)]

Color(fg, bg, flags) == [fg |-> fg, bg |-> bg, flags |-> flags]

\* TerminalState.Reset
ResetState == Color(DefaultFg, DefaultBg, NoFlags)

HasFlags(t, f) == f \subseteq t.flags

\* One parameter of an "m" sequence.
Control(t, ctl) ==
  CASE ctl = 0        -> ResetState
    [] ctl = 1        -> [t EXCEPT !.flags = @ \cup Highlighted]
    [] ctl = 22       -> [t EXCEPT !.flags = @ \ Highlighted]
    [] ctl \in 30..37 -> [t EXCEPT !.fg = ctl % 10]
    [] ctl \in 40..47 -> [t EXCEPT !.bg = ctl % 10]
    [] OTHER          -> t

\* The parameters in order.
ApplyAll(t, nums) == FoldLeft(Control, t, nums)

\* ApplyEscapeSequence for Mode 'm': no parameter means reset.
ApplyNums(t, nums) == IF nums = <<>> THEN ResetState ELSE ApplyAll(t, nums)

=============================================================================
