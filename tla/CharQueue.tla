------------------------------ MODULE CharQueue ------------------------------
(***************************************************************************)
(* What the input queue promises the payload: characters come out in the   *)
(* order in which they were typed, none is lost, changed or repeated on    *)
(* the way, and at most Capacity of them wait.                             *)
(***************************************************************************)
EXTENDS Naturals, Sequences, SequencesExt

CONSTANTS Capacity, Chars

VARIABLES items,    \* the characters waiting, oldest first
          answer    \* what the last FU_GET_CHAR returned; "" when nothing waited

Init == items = <<>> /\ answer = ""

\* Characters are typed: they queue up behind those that already wait.
Type == /\ items' \in Seq(Chars)
        /\ IsPrefix(items, items')
        /\ Len(items') <= Capacity
        /\ UNCHANGED answer

Get == IF items = <<>>
       THEN answer' = "" /\ UNCHANGED items
       ELSE answer' = Head(items) /\ items' = Tail(items)

Next == Type \/ Get
Spec == Init /\ [][Next]_<<items, answer>>
=============================================================================
