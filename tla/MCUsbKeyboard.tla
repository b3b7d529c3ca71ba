---------------------------- MODULE MCUsbKeyboard ----------------------------
(***************************************************************************)
(* Keyboards with the keys A and 1 that may also report ErrorRollOver.     *)
(***************************************************************************)
EXTENDS UsbKeyboard

Pressing(k) == [Nothing EXCEPT !.keys = k]

OneKeyRollover == {Nothing, Pressing(<<4>>), Pressing(<<1, 1>>)}
TwoKeys == {Nothing, Pressing(<<4>>), Pressing(<<30>>), Pressing(<<4, 30>>)}
TwoKeysRollover == TwoKeys \union {Pressing(<<1, 1>>)}
=============================================================================
