-------------------------------- MODULE Aid ---------------------------------
(***************************************************************************)
(* pttbbs/aid.go: the ids by which articles are mentioned, and the names of  *)
(* their files.  An Aid is a number of 64 bits; here it is its ten base 64   *)
(* digits, so that a shift by 6 is a move by one place.                     *)
(***************************************************************************)
EXTENDS Integers, SequencesExt

Digit == 0 .. 63
Places == 1 .. 10
Aids == [Places -> Digit]

\* The characters of a text, by their place in aidTable; '@', and any other one.
At == 64
OtherChar == 65
NoAid == <<>>

\* The number with the digits d.
Padded(d) == [p \in Places |-> IF p <= 10 - Len(d) THEN 0 ELSE d[p + Len(d) - 10]]

\* What ParseAid reads: up to the first '@', which has the number shifted for
\* another digit before it ends the loop.
Read(s) ==
  LET ats == {i \in DOMAIN s : s[i] = At}
  IN IF ats = {} THEN s ELSE Append(SubSeq(s, 1, Min(ats) - 1), 0)

\* ParseAid, NoAid for ErrInvalidAid.
ParseAid(s) ==
  IF Len(s) > 10 \/ (\E i \in DOMAIN Read(s) : Read(s)[i] \notin Digit)
  THEN NoAid ELSE Padded(Read(s))

\* Aid.String: no leading zeros.
AidString(a) ==
  LET places == {p \in Places : a[p] # 0}
  IN IF places = {} THEN <<>> ELSE SubSeq(a, Min(places), 10)

\* A file name: M or G for the type, the time of 32 bits and 12 random ones.
FileNames == [class : {"M", "G"}, time : [1 .. 6 -> Digit], rand : [1 .. 2 -> Digit]]

\* Aid.Filename, of the bits 44 and up, 12 and up, and the rest: those from 48 on
\* are dropped.
Filename(a) ==
  [class |-> IF a[3] \div 4 = 0 THEN "M" ELSE "G",
   time |-> <<a[3] % 4, a[4], a[5], a[6], a[7], a[8]>>,
   rand |-> <<a[9], a[10]>>]

=============================================================================
