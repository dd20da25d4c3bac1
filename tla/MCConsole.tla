---------------------------- MODULE MCConsole ---------------------------
(***************************************************************************)
(* The console with inputs for printf, which has no state of its own: each *)
(* is an initial state that goes nowhere, with the call in said.  A call   *)
(* is one or two pieces of a format with their arguments.                  *)
(***************************************************************************)
EXTENDS Console, Format

VARIABLE said

\* A piece: what is in the format, and the arguments it comes with.
Piece(fmt, args) == [fmt |-> fmt, args |-> args]

Numbers ==
  {Piece(<<"%", s>>, <<x>>) : s \in {"d", "x"}, x \in CInt}
    \cup {Piece(<<"%", "p">>, <<x>>) : x \in Long}

Texts ==
  {Piece(<<"%", "s">>, <<s>>) : s \in {Null, <<>>, <<"h", "i">>, <<"%", "d">>}}
    \cup {Piece(<<"%", "c">>, <<"z">>), Piece(<<"%", "%">>, <<>>),
          Piece(<<"%", "l">>, <<>>), Piece(<<"d">>, <<>>)}

Edges == {p \in Numbers : p.args[1] \in {-(IntMod \div 2), -1, 0, 10, LongMod - 1}}

Single == {<<p>> : p \in Numbers \cup Texts}
Pairs  == {<<p, q>> : p, q \in Edges \cup Texts}

\* A % at the end of the format is dropped.
Stray == {<<p, Piece(<<"%">>, <<>>)>> : p \in Texts}

MCInit == Init /\ said \in {<<>>} \cup Single \cup Pairs \cup Stray

MCNext == \/ said = <<>> /\ Next /\ UNCHANGED said
          \/ said # <<>> /\ UNCHANGED <<vars, said>>

MCSpec == MCInit /\ [][MCNext]_<<vars, said>> /\ Fairness

-------------------------------------------------------------------------
\* The numeral of x, positionally: no digit above the highest.
Numeral(x, base) ==
  LET n == CHOOSE n \in 1 .. LongMod :
             x < Power(base, n) /\ (n > 1 => x >= Power(base, n - 1))
  IN [i \in 1 .. n |-> digits[((x \div Power(base, n - i)) % base) + 1]]

Expected(p) ==
  LET x == p.args[1] IN
  CASE p.fmt = <<"%", "d">> -> IF x < 0 THEN <<"-">> \o Numeral(-x, 10)
                               ELSE Numeral(x, 10)
    [] p.fmt = <<"%", "x">> -> Numeral(IF x < 0 THEN x + IntMod ELSE x, 16)
    [] p.fmt = <<"%", "p">> -> <<"0", "x">> \o Numeral(x, 16)
    [] p.fmt = <<"%", "s">> /\ x = Null -> <<"(", "n", "u", "l", "l", ")">>
    [] p.fmt = <<"%", "s">> /\ x # Null -> x
    [] p.fmt = <<"%", "c">> -> <<x>>
    [] p.fmt = <<"%", "%">> -> <<"%">>
    [] p.fmt = <<"%">>      -> <<>>
    [] p.fmt \in {<<"%", "l">>, <<"d">>} -> p.fmt

All(f(_)) == IF Len(said) = 1 THEN f(said[1]) ELSE f(said[1]) \o f(said[2])

\* printint takes an int.  The comments of printf promise the whole unsigned
\* long address for %p; one that an int does not hold is the exception below.
Fits(p) == p.fmt = <<"%", "p">> => p.args[1] < IntMod

\* printf prints each number in full, the smallest int included, and every
\* conversion takes its own argument and no other; what it prints is wrong
\* exactly when it is asked for an address that an int does not hold, of
\* which the upper bits are lost (printf, printint).
PrintsValue ==
  said # <<>> =>
    LET Fmt(p)  == p.fmt
        Args(p) == p.args
    IN printf(All(Fmt), All(Args)) = All(Expected)
         <=> \A i \in DOMAIN said : Fits(said[i])

=========================================================================
