---------------------------- MODULE MCKeyLegends ----------------------------
(***************************************************************************)
(* A US-ANSI keyboard whose keys are pressed one at a time.                *)
(***************************************************************************)
EXTENDS BootKeyboard

\* The punctuation keys of a US-ANSI keyboard and their HID usages, 0x2d to
\* 0x38.  0x32 is the extra key of ISO keyboards.
Legend == [k \in 45 .. 56 \ {50} |->
    CASE k = 45 -> "-" [] k = 46 -> "=" [] k = 47 -> "["  [] k = 48 -> "]"
      [] k = 49 -> "\\" [] k = 51 -> ";" [] k = 52 -> "'" [] k = 53 -> "grave"
      [] k = 54 -> "," [] k = 55 -> "." [] k = 56 -> "/"]

MCReports ==
    {[shift |-> FALSE, chord |-> FALSE, keys |-> k] :
       k \in {<<>>} \union {<<usage>> : usage \in DOMAIN Legend}}

\* docs/rk356x/bare-metal.md: "US-ANSI key-down events produce printable ASCII":
\* pressing a punctuation key types what is printed on it.
UsAnsiLegends ==
    [][\A c \in Controllers, usage \in DOMAIN Legend :
         LET r == [shift |-> FALSE, chord |-> FALSE, keys |-> <<usage>>] IN
         HidReport(c, r) /\ usage \notin previous /\ Waiting(ring) = <<>> =>
           Waiting(ring') = <<Legend[usage]>>]_vars
=============================================================================
