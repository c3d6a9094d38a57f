----------------------------- MODULE AnsiParser -----------------------------
(***************************************************************************)
(* ansi/ansi_convert.go and ansi/escape.go: ConvertFromUTF8 takes an       *)
(* article apart into runes to show and escape sequences; the renderer     *)
(* applies the latter to its TerminalState (module Terminal).              *)
(*                                                                         *)
(* A rune is its code point.  An action is one iteration of the loop, for  *)
(* a rune of Runes; articles have any length, so there is no last one.     *)
(***************************************************************************)
EXTENDS Terminal

CONSTANTS Runes,    \* the runes that articles consist of here
          MaxInt,   \* the greatest int of the program
          MaxBuf    \* bound on the runes inside of one control sequence

ASSUME ParserAssumption == Runes \subseteq Nat /\ MaxInt \in Nat /\ MaxBuf \in Nat

VARIABLES parserState,  \* "Default", "Escaping", "ParsingControl" or "SkipOne"
          params,       \* the parameter runes of the sequence so far
          esc,          \* the EscapeSequence: its Nums, Trailings and Mode
          term,         \* the renderer's terminalState
          call          \* the callback this iteration has made, and its rune

parserVars == <<parserState, params, esc, term, call>>

ESC == 27
Star == 42
Semicolon == 59
Bracket == 91
M == 109
Digits == 48 .. 57
RuneError == 65533

NoSequence == [nums |-> <<>>, trailings |-> <<>>, mode |-> 0]
NoCall == [to |-> "none", rune |-> 0]

ParserInit ==
  /\ parserState = "Default" /\ params = <<>> /\ esc = NoSequence
  /\ term = ResetState /\ call = NoCall

-----------------------------------------------------------------------------
(* EscapeSequence.ParseNumbers *)

\* The number that digits stand for, of any size.
NumberOf(part) == FoldLeft(LAMBDA n, r : 10 * n + (r - 48), 0, part)

\* strconv.Atoi, -1 for its errors: a rune that is no digit, a number that is no int.
Atoi(part) ==
  IF (\A i \in DOMAIN part : part[i] \in Digits) /\ NumberOf(part) <= MaxInt
  THEN NumberOf(part)
  ELSE -1

\* Mutant: an empty parameter is skipped.
EndParameterSkipping(st) ==
  IF st.part = <<>> \/ Atoi(st.part) = -1 THEN st
  ELSE [part |-> <<>>, nums |-> Append(st.nums, Atoi(st.part))]

\* What happens at the end of a parameter: an empty one is 0; one that is not
\* a number is skipped but stays in part, in front of the next one.
EndParameter(st) ==
  IF st.part = <<>> THEN [st EXCEPT !.nums = Append(@, 0)]
  ELSE IF Atoi(st.part) = -1 THEN st
  ELSE [part |-> <<>>, nums |-> Append(st.nums, Atoi(st.part))]

\* One iteration of the loop over b; the last rune ends a parameter, too.
ParameterRune(b, st, i) ==
  LET grown == IF b[i] # Semicolon THEN [st EXCEPT !.part = Append(@, b[i])] ELSE st
  IN IF b[i] = Semicolon \/ i = Len(b) THEN EndParameter(grown) ELSE grown

NoNumbers == [part |-> <<>>, nums |-> <<>>]
ParseNumbers(b) ==
  FoldLeft(LAMBDA st, i : ParameterRune(b, st, i), NoNumbers, [i \in 1 .. Len(b) |-> i]).nums

-----------------------------------------------------------------------------
(* The loop of ConvertFromUTF8 *)

\* a.Rune(r)
ShowRune(r) == call' = [to |-> "Rune", rune |-> r] /\ UNCHANGED term

\* a.Escape(e): renderer.escape applies it; only Mode 'm' has an effect.
Escape(e) ==
  /\ call' = [to |-> "Escape", rune |-> e.mode]
  /\ term' = IF e.mode = M THEN ApplyNums(term, e.nums) ELSE term

Skip == call' = NoCall /\ UNCHANGED term

\* A byte that does not decode, or U+FFFD, is skipped in any state.
Undecodable(r) ==
  /\ r = RuneError
  /\ Skip
  /\ UNCHANGED <<parserState, params, esc>>

Text(r) ==
  /\ parserState = "Default" /\ r # ESC /\ r # RuneError
  /\ ShowRune(r)
  /\ UNCHANGED <<parserState, params, esc>>

StartEscape(r) ==
  /\ parserState = "Default" /\ r = ESC
  /\ parserState' = "Escaping" /\ params' = <<>> /\ esc' = NoSequence
  /\ Skip

\* The rune after ESC: a control sequence begins, "ESC m" is a sequence of
\* its own (whose Mode is still 0, so it has no effect), ESC with a capital or
\* a star swallows one more rune, and anything else is shown.
AfterEscape(r) ==
  /\ parserState = "Escaping" /\ r # RuneError
  /\ \/ r = Bracket /\ parserState' = "ParsingControl" /\ Skip
     \/ r = M /\ parserState' = "Default" /\ Escape(esc)
     \/ (r = Star \/ r \in 64 .. 95 \ {Bracket}) /\ parserState' = "SkipOne" /\ Skip
     \/ r \notin {Star, M} \cup 64 .. 95 /\ parserState' = "Default" /\ ShowRune(r)
  /\ UNCHANGED <<params, esc>>

Swallow(r) ==
  /\ parserState = "SkipOne" /\ r # RuneError
  /\ parserState' = "Default"
  /\ Skip
  /\ UNCHANGED <<params, esc>>

Trailing(r) ==
  /\ parserState = "ParsingControl" /\ r \in 32 .. 47
  /\ Len(params) + Len(esc.trailings) < MaxBuf
  /\ esc' = [esc EXCEPT !.trailings = Append(@, r)]
  /\ Skip
  /\ UNCHANGED <<parserState, params>>

\* The final rune.
FinishControl(r) ==
  /\ parserState = "ParsingControl" /\ r \in 64 .. 126
  /\ esc' = [esc EXCEPT !.mode = r, !.nums = @ \o ParseNumbers(params)]
  /\ Escape(esc')
  /\ parserState' = "Default"
  /\ UNCHANGED params

\* Everything else is taken for a part of the parameters, an ESC or a newline
\* as well.
Parameter(r) ==
  /\ parserState = "ParsingControl" /\ r \notin 32 .. 47 \cup 64 .. 126 /\ r # RuneError
  /\ Len(params) + Len(esc.trailings) < MaxBuf
  /\ params' = Append(params, r)
  /\ Skip
  /\ UNCHANGED <<parserState, esc>>

ParserNext ==
  \E r \in Runes :
    \/ Undecodable(r) \/ Text(r) \/ StartEscape(r) \/ AfterEscape(r) \/ Swallow(r)
    \/ Trailing(r) \/ FinishControl(r) \/ Parameter(r)

ParserSpec == ParserInit /\ [][ParserNext]_parserVars

-----------------------------------------------------------------------------
(* Properties *)

\* The parameters in b, by position: each lies between two semicolons.
Bounds(b) == {0, Len(b) + 1} \cup {i \in DOMAIN b : b[i] = Semicolon}
ParameterSpans(b) ==
  {p \in Bounds(b) \X Bounds(b) : p[1] < p[2] /\ \A k \in Bounds(b) : k <= p[1] \/ p[2] <= k}
ValueOf(b, p) == IF p[2] = p[1] + 1 THEN 0 ELSE Atoi(SubSeq(b, p[1] + 1, p[2] - 1))

\* The parameters that count: those before the first one that is no number.  There
\* is none after a semicolon at the end.
Counted(b) ==
  {p \in ParameterSpans(b) :
     /\ p[1] < Len(b)
     /\ \A q \in ParameterSpans(b) : q[1] <= p[1] => ValueOf(b, q) # -1}

\* The value of the last parameter that has something to say about an
\* attribute, a reset included, or else Nothing.
LastOf(b, values, Nothing) ==
  LET hits == {p \in Counted(b) : ValueOf(b, p) \in values \cup {0}} IN
  IF hits = {} THEN Nothing
  ELSE ValueOf(b, CHOOSE p \in hits : \A q \in hits : q[1] <= p[1])

\* What the sequence with the parameters b makes of t, attribute by attribute;
\* one without any is a reset.
Sgr(t, b) ==
  LET f == LastOf(b, 30 .. 37, -1)
      g == LastOf(b, 40 .. 47, -1)
      h == LastOf(b, {1, 22}, -1)
  IN IF Counted(b) = {} THEN ResetState
     ELSE Color(IF f = -1 THEN t.fg ELSE IF f = 0 THEN 7 ELSE f - 30,
                IF g = -1 THEN t.bg ELSE IF g = 0 THEN 0 ELSE g - 40,
                IF h = -1 THEN t.flags ELSE IF h = 1 THEN NoFlags \cup Highlighted ELSE NoFlags)

\* Of the parameters of an "m" sequence the last one for each attribute
\* decides, an empty one being 0, whatever sequences came before; and one that
\* is no number, or greater than any int, takes those after it along, not those
\* before it.
SgrIsApplied == [][FinishControl(M) => term' = Sgr(term, params)]_parserVars

=============================================================================
