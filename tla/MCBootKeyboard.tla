--------------------------- MODULE MCBootKeyboard ---------------------------
(***************************************************************************)
(* One keyboard with the keys A, Caps Lock and 1, the full set of          *)
(* modifiers and reports with ErrorRollOver, on a ring of three slots.        *)
(***************************************************************************)
EXTENDS BootKeyboard

Plainly(keys) == [shift |-> FALSE, chord |-> FALSE, keys |-> keys]
WithShift(keys) == [Plainly(keys) EXCEPT !.shift = TRUE]
WithCtrl(keys) == [Plainly(keys) EXCEPT !.chord = TRUE]

MCReports ==
    {Plainly(k) : k \in {<<>>, <<4>>, <<30>>, <<4, 30>>, <<30, 4>>, <<57>>,
                         <<57, 4>>, <<1, 1>>, <<30, 1>>, <<4, 79>>}}
      \union {WithShift(<<4>>), WithShift(<<4, 30>>)}
      \union {WithCtrl(<<4>>), WithCtrl(<<4, 30>>)}
=============================================================================
