------------------------------ MODULE Format ----------------------------
(***************************************************************************)
(* Console output, kernel/driver/console.c: what printf sends to the UART. *)
(* Operators only: a string is the sequence of its characters, without the *)
(* Nul, and each operator returns the characters it sends, in order.       *)
(* A definition whose comment begins "A mutation" is not part of the       *)
(* model (see Sched).                                                      *)
(***************************************************************************)
EXTENDS Integers, Sequences, Loops
Seqs == INSTANCE SequencesExt

CONSTANTS
  IntMod,   \* 2 to the width of int
  LongMod   \* 2 to the width of unsigned long

ASSUME IntAssumption  == IntMod \in Nat \ {0} /\ IntMod % 2 = 0
ASSUME LongAssumption == LongMod \in Nat \ {0} /\ LongMod % IntMod = 0

CInt == -(IntMod \div 2) .. IntMod \div 2 - 1
Long  == 0 .. LongMod - 1

digits == <<"0", "1", "2", "3", "4", "5", "6", "7",
            "8", "9", "a", "b", "c", "d", "e", "f">>

\* The conversion of an argument to int.
AsInt(x) ==
  LET u == x % IntMod IN IF u < IntMod \div 2 THEN u ELSE u - IntMod

\* A mutation: while (x != 0) instead of do ... while, and no digit for 0.
LowFirstWhile(x, base) ==
  LET low[y \in Nat] ==
        IF y = 0 THEN <<>>
        ELSE <<digits[(y % base) + 1]>> \o low[y \div base]
  IN low[x]

\* printint's loop: the digits of x, the lowest first.
LowFirst(x, base) ==
  LET low[y \in Nat] ==
        <<digits[(y % base) + 1]>> \o
          (IF y \div base = 0 THEN <<>> ELSE low[y \div base])
  IN low[x]

\* The negation of an int wraps around, in the build without optimisation.
printint(xx, base, sign) ==
  LET x == (IF sign /\ xx < 0 THEN AsInt(- xx) ELSE xx) % IntMod
  IN (IF sign /\ xx < 0 THEN <<"-">> ELSE <<>>) \o Seqs!Reverse(LowFirst(x, base))

\* The null pointer, which is no string.
Null == <<"null">>

\* What the conversion spec prints for the argument that it takes.
Converted(spec, arg) ==
  CASE spec = "d" -> printint(AsInt(arg), 10, TRUE)
    [] spec = "x" -> printint(AsInt(arg), 16, FALSE)
    [] spec = "p" -> <<"0", "x">> \o printint(AsInt(arg), 16, FALSE)
    [] spec = "s" -> IF arg = Null THEN <<"(", "n", "u", "l", "l", ")">> ELSE arg
    [] spec = "c" -> <<arg>>

\* The other characters after a %.
Unconverted(spec) == IF spec = "%" THEN <<"%">> ELSE <<"%", spec>>

\* A round of printf's loop, at the character i of fmt; args is what va_arg
\* has not taken yet.
FormatRound(fmt, st) ==
  LET i == st.i
  IN IF i > Len(fmt) THEN st
     ELSE IF fmt[i] # "%"
     THEN [st EXCEPT !.i = i + 1, !.sent = Append(@, fmt[i])]
     ELSE IF i = Len(fmt) THEN [st EXCEPT !.i = i + 1]
     ELSE IF fmt[i + 1] \in {"d", "x", "p", "s", "c"}
     THEN [i |-> i + 2, args |-> Tail(st.args),
           sent |-> st.sent \o Converted(fmt[i + 1], Head(st.args))]
     ELSE [st EXCEPT !.i = i + 2, !.sent = @ \o Unconverted(fmt[i + 1])]

\* args has what the conversions of fmt take.
printf(fmt, args) ==
  LET Round(st) == FormatRound(fmt, st)
  IN Rounds(Round, [i |-> 1, args |-> args, sent |-> <<>>], Len(fmt)).sent

=========================================================================
