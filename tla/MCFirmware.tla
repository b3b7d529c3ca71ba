----------------------------- MODULE MCFirmware -----------------------------
(***************************************************************************)
(* A unit of address is 32 MiB: 1 GiB is 32, the MMIO window 120..127.     *)
(* The firmware's own ranges are drawn larger, inside the first 32.        *)
(***************************************************************************)
EXTENDS Firmware

\* One channel of 1 GiB, 32 bits wide
Lane == [ranks |-> 1, columns |-> 1, columns1 |-> 1, banks |-> 0, rows |-> 2, rows1 |-> 2,
         width |-> 0, die_width |-> 0, three_quarters |-> FALSE]
Registers(version, type, lanes) ==
    [version |-> version, type |-> type % 8, type_high |-> type \div 8, lanes |-> lanes]

GiB1 == Registers(2, 7, <<Lane>>)
GiB1Half == Registers(2, 7, <<[Lane EXCEPT !.rows = 3, !.three_quarters = TRUE]>>)
GiB4 == Registers(2, 7, <<[Lane EXCEPT !.rows = 4]>>)
GiB8 == Registers(2, 7, <<[Lane EXCEPT !.rows = 4], [Lane EXCEPT !.rows = 4]>>)
Invalid == Registers(2, 7, <<[Lane EXCEPT !.width = 3]>>)

Lanes ==
    {[Lane EXCEPT !.ranks = k, !.rows = r, !.rows1 = s, !.columns1 = c, !.banks = b,
                  !.width = w, !.three_quarters = q] :
        k \in 1..2, r \in {2, 4, 7}, s \in {1, 2, 7}, c \in {0, 1}, b \in {0, 1},
        w \in {0, 1, 3}, q \in BOOLEAN}
AllRegisters ==
    {Registers(v, t, <<l>>) : v \in {1, 2, 3}, t \in {0, 7, 9, 11}, l \in Lanes}
    \union {Registers(2, 0, <<l, [Lane EXCEPT !.die_width = d]>>) : l \in Lanes, d \in {1, 2}}

Tag(list) == [kind |-> "ddr", length_ok |-> TRUE, hash_ok |-> TRUE, banks |-> list]
OtherTag == [kind |-> "other"]
BadTag == [kind |-> "invalid"]
Banks(ranges) == [i \in DOMAIN ranges |-> [start |-> ranges[i][1], size |-> ranges[i][2]]]

\* Complete and remapped, in pieces, short, too long, overlapping, unordered,
\* above the end, across the MMIO window, wrapping, unaligned, too many
BankChoices ==
    {Banks(x) : x \in {
        << <<0, 32>> >>, << <<0, 10>>, <<10, 22>> >>, << <<0, 8>>, <<10, 22>> >>,
        << <<8, 24>> >>, << <<0, 20>>, <<12, 20>> >>, << <<12, 20>>, <<0, 12>> >>,
        << <<0, 120>>, <<128, 8>> >>, << <<0, 120>>, <<128, 136>> >>,
        << <<0, 120>>, <<136, 8>> >>, << <<0, 64>>, <<64, 64>> >>, << <<0, 128>> >>,
        << <<1020, 8>> >>, << <<0, 31>> >>, << <<0, 0>> >>, <<>>,
        << <<0, 8>>, <<8, 8>>, <<16, 8>>, <<24, 8>> >> }}
TagLists ==
    {<<>>, <<OtherTag>>, <<BadTag, Tag(Banks(<< <<0, 32>> >>))>>,
     <<[Tag(Banks(<< <<0, 32>> >>)) EXCEPT !.hash_ok = FALSE]>>,
     <<[Tag(Banks(<< <<0, 32>> >>)) EXCEPT !.length_ok = FALSE]>>}
    \union {<<OtherTag, Tag(b)>> : b \in BankChoices}

Image(relocate, size) ==
    [magic |-> TRUE, relocate |-> relocate, size |-> size, address |-> Payload]
NoPayload == [Image(FALSE, 0) EXCEPT !.magic = FALSE]
DefaultTags == <<Tag(Banks(<< <<0, 20>>, <<20, 12>> >>))>>

Input(registers, tags, payload, dtb) ==
    [registers |-> registers, tags |-> tags, payload |-> payload, dtb |-> dtb]

\* Registers are decoded with no payload, bank lists chosen with one payload,
\* and payloads started with one bank list.
FirmwareInputs ==
    {Input(r, <<>>, NoPayload, 1) : r \in AllRegisters}
    \union {Input(r, t, Image(TRUE, 3), 1) :
               r \in {GiB1, GiB1Half, GiB4, GiB8, Invalid}, t \in TagLists}
    \union {Input(GiB1, DefaultTags, Image(TRUE, k), d) : k \in 1..4, d \in {0, 1, 2}}
    \union {Input(GiB1, DefaultTags, Image(FALSE, k), 1) : k \in 1..2}

\* Payloads that are longer than the way from the image to RK356X_PAYLOAD.
LongPayloads == {Input(GiB1, DefaultTags, Image(TRUE, k), 1) : k \in 4..5}
=============================================================================
