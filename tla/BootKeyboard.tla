---------------------------- MODULE BootKeyboard ----------------------------
(***************************************************************************)
(* From boot-protocol reports to characters: the decoder of                *)
(* rk356x/hid_keyboard.c, the ring of rk356x/input.c and the FU_GET_CHAR   *)
(* call of firmware.c that empties it.                                     *)
(*                                                                         *)
(* A report is a record: whether a Shift is down, whether a Ctrl, Alt or   *)
(* GUI key is down (`chord`), and the key usages it lists, at most six,    *)
(* with the empty slots left out.                                          *)
(***************************************************************************)
EXTENDS Naturals, FiniteSets, Sequences, SequencesExt

CONSTANTS
    INPUT_QUEUE_SIZE,  \* 64 in the code
    Controllers,       \* the host controllers that share the decoder
    Reports            \* the reports keyboards may send

Usages == 0 .. 255     \* a slot of the report is a byte

ASSUME QueueAssumption == INPUT_QUEUE_SIZE \in Nat /\ INPUT_QUEUE_SIZE > 1
ASSUME KeysAssumption ==
    \A r \in Reports : r.shift \in BOOLEAN /\ r.chord \in BOOLEAN /\ r.keys \in Seq(Usages)

VARIABLES
    previous,   \* the keys of the last report decoded
    caps_lock,
    ring,       \* queue, read_pos and write_pos
    answer,     \* what FU_GET_CHAR returned last; "" stands for its 0
    held        \* observation: the keys that were down in the last valid
                \* report of each controller's keyboard

vars == <<previous, caps_lock, ring, answer, held>>

------------------------------------------------------------------------------
(* rk356x/input.c                                                          *)

Slots == 0 .. INPUT_QUEUE_SIZE - 1

\* input_reset, on the zeroed array of the image.
EmptyRing == [queue |-> [s \in Slots |-> ""], read_pos |-> 0, write_pos |-> 0]

After(pos) == (pos + 1) % INPUT_QUEUE_SIZE

Enqueue_NeverFull(r, c) ==   \* Mutant: the full ring is not recognised.
    IF c = "" THEN r
    ELSE [r EXCEPT !.queue[r.write_pos] = c, !.write_pos = After(@)]

\* A character that finds the ring full is dropped; 0 is never queued.
Enqueue(r, c) ==
    IF c = "" \/ After(r.write_pos) = r.read_pos THEN r
    ELSE [r EXCEPT !.queue[r.write_pos] = c, !.write_pos = After(@)]

\* The characters waiting in a ring, oldest first.
Waiting(r) ==
    [n \in 1 .. (INPUT_QUEUE_SIZE + r.write_pos - r.read_pos) % INPUT_QUEUE_SIZE
       |-> r.queue[(r.read_pos + n - 1) % INPUT_QUEUE_SIZE]]

------------------------------------------------------------------------------
(* rk356x/hid_keyboard.c                                                   *)

Letters == <<"a", "b", "c", "d", "e", "f", "g", "h", "i", "j", "k", "l", "m",
             "n", "o", "p", "q", "r", "s", "t", "u", "v", "w", "x", "y", "z">>
Capitals == <<"A", "B", "C", "D", "E", "F", "G", "H", "I", "J", "K", "L", "M",
              "N", "O", "P", "Q", "R", "S", "T", "U", "V", "W", "X", "Y", "Z">>
Plain == <<"1", "2", "3", "4", "5", "6", "7", "8", "9", "0", "-", "=", "[", "]",
           "\\", ";", "'", "grave", ",", ".", "/">>
Shifted == <<"!", "@", "#", "$", "%", "^", "&", "*", "(", ")", "_", "+", "{", "}",
             "|", ":", "\"", "~", "<", ">", "?">>
Controls == <<"Enter", "Escape", "Backspace", "Tab", " ">>

CapsLockKey == 57
Rollover == 1 .. 3     \* ErrorRollOver, POSTFail and ErrorUndefined

\* `translate`: the character of a usage, "" when it has none.
Translate(usage, shift, caps) ==
    LET index == IF usage <= 39 THEN usage - 30 ELSE 10 + usage - 45 IN
    IF usage \in 4 .. 29
    THEN (IF shift # caps THEN Capitals ELSE Letters)[usage - 3]
    ELSE IF usage \in (30 .. 39) \union (45 .. 56) /\ index < Len(Plain)
    THEN (IF shift THEN Shifted ELSE Plain)[index + 1]
    ELSE IF usage \in 40 .. 44 THEN Controls[usage - 39]
    ELSE ""

\* One turn of the decoder's loop over the six key slots.
DecodeKey(hid, usage, shift) ==
    IF usage \in previous THEN hid
    ELSE IF usage = CapsLockKey THEN [hid EXCEPT !.caps = ~@]
    ELSE [hid EXCEPT !.ring = Enqueue(@, Translate(usage, shift, hid.caps))]

Valid(r) == \A k \in ToSet(r.keys) : k \notin Rollover

\* Ctrl, Alt and GUI have no printable mapping: the keys under them type nothing.
Decode(r) ==
    IF r.chord THEN [caps |-> caps_lock, ring |-> ring]
    ELSE FoldLeft(LAMBDA hid, k : DecodeKey(hid, k, r.shift),
                  [caps |-> caps_lock, ring |-> ring], r.keys)

HidReport_ChordForgotten(c, r) ==  \* Mutant: a chord returns before that.
    IF Valid(r)
    THEN /\ caps_lock' = Decode(r).caps /\ ring' = Decode(r).ring
         /\ previous' = IF r.chord THEN previous ELSE ToSet(r.keys)
         /\ held' = [held EXCEPT ![c] = ToSet(r.keys)]
         /\ UNCHANGED answer
    ELSE UNCHANGED vars

\* hid_keyboard_report, for a report of controller c: every report but an
\* invalid one becomes `previous`.
HidReport(c, r) ==
    IF Valid(r)
    THEN /\ caps_lock' = Decode(r).caps /\ ring' = Decode(r).ring
         /\ previous' = ToSet(r.keys)
         /\ held' = [held EXCEPT ![c] = ToSet(r.keys)]
         /\ UNCHANGED answer
    ELSE UNCHANGED vars

HidReset_Forgotten(c) ==  \* Mutant: the keys of the lost keyboard stay down.
    /\ held' = [held EXCEPT ![c] = {}]
    /\ UNCHANGED <<previous, caps_lock, ring, answer>>

\* hid_keyboard_reset, when controller c stops its keyboard.
HidReset(c) ==
    /\ previous' = {} /\ caps_lock' = FALSE
    /\ held' = [held EXCEPT ![c] = {}]
    /\ UNCHANGED <<ring, answer>>

------------------------------------------------------------------------------
(* firmware.c: FU_GET_CHAR, after its poll                                 *)

GetChar ==
    /\ IF ring.read_pos = ring.write_pos
       THEN answer' = "" /\ UNCHANGED ring
       ELSE /\ answer' = ring.queue[ring.read_pos]
            /\ ring' = [ring EXCEPT !.read_pos = After(@)]
    /\ UNCHANGED <<previous, caps_lock, held>>

------------------------------------------------------------------------------
(* The component alone: keyboards send any report at any time.             *)

Init ==
    /\ previous = {} /\ caps_lock = FALSE
    /\ ring = EmptyRing /\ answer = ""
    /\ held = [c \in Controllers |-> {}]

Next ==
    \/ \E c \in Controllers, r \in Reports : HidReport(c, r)
    \/ \E c \in Controllers : HidReset(c)
    \/ GetChar

Spec == Init /\ [][Next]_vars

------------------------------------------------------------------------------
(* Properties                                                              *)

Chars == ToSet(Letters) \union ToSet(Capitals) \union ToSet(Plain)
         \union ToSet(Shifted) \union ToSet(Controls)

\* What the keys type that are down in report r and were not in the one before
Typed(c, r) ==
    LET char(k) == IF k \in held[c] THEN "" ELSE Translate(k, r.shift, caps_lock)
        type(typed, k) == IF char(k) = "" THEN typed ELSE Append(typed, char(k))
    IN  IF r.chord \/ ~Valid(r) THEN <<>> ELSE FoldLeft(type, <<>>, r.keys)

\* Every key that goes down types its character exactly once, in the order of
\* the report, whatever is held meanwhile and whatever chords and invalid
\* reports came in between; only what finds the ring full is lost.
KeysTypeOnce ==
    [][\A c \in Controllers, r \in Reports :
         HidReport(c, r) /\ CapsLockKey \notin ToSet(r.keys) =>
           LET all == Waiting(ring) \o Typed(c, r)
           IN  Waiting(ring') = SubSeq(all, 1, IF Len(all) < INPUT_QUEUE_SIZE
                                               THEN Len(all) ELSE INPUT_QUEUE_SIZE - 1)]_vars

\* A key that a keyboard keeps holding types nothing more: docs/rk356x/
\* bare-metal.md, "Held-key duplicates are suppressed."
HeldKeysSilent ==
    [][\A c \in Controllers, r \in Reports :
         HidReport(c, r) /\ ToSet(r.keys) \subseteq held[c] => UNCHANGED ring]_vars

\* The ring is a bounded queue: see CharQueue.
Queue == INSTANCE CharQueue WITH Capacity <- INPUT_QUEUE_SIZE - 1, items <- Waiting(ring)
ImplementsCharQueue == Queue!Spec

=============================================================================
