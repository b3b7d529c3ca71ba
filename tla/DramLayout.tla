------------------------------ MODULE DramLayout ------------------------------
(***************************************************************************)
(* How the firmware finds out what DRAM the board has: the geometry that   *)
(* the DDR loader left in two PMUGRF registers (rk356x/pmugrf_dram.c), the *)
(* bank list it left in a tag list (rk356x/dram.c), and the choice between *)
(* the two.  Functions that fail return a set that is empty.               *)
(***************************************************************************)
EXTENDS Rk356x

CONSTANT AddrMod        \* 2^64

ASSUME AddrModAssumption == AddrMod \in Nat \ {0}

(***************************************************************************)
(* rk356x_decode_pmugrf.  The registers are a record of their fields, with *)
(* one record per channel; row extension bits are joined to the rows.      *)
(* Sizes are in KiB, so that exponents count from 10.                      *)
(***************************************************************************)
KiB(exponent) == 2 ^ (exponent - 10)

ChannelFields ==
    [ranks : 1..2, columns : Nat, columns1 : Nat, banks : Nat, rows : Nat, rows1 : Nat,
     width : Nat, die_width : Nat, three_quarters : BOOLEAN]

decode_rows(raw) == IF raw = 7 THEN 12 ELSE 13 + raw
Rows(regs, raw) == IF regs.version < 2 THEN 13 + (raw % 4) ELSE decode_rows(raw)

DramType(regs) == IF regs.version >= 3 THEN regs.type + 8 * regs.type_high ELSE regs.type

Columns1(regs, lane) == IF regs.version < 2 THEN 9 + lane.columns ELSE 9 + lane.columns1

BankExponent(regs, lane) ==
    IF DramType(regs) = 9 THEN 3 + lane.banks ELSE 3 - lane.banks

GroupExponent(regs, lane) ==
    IF DramType(regs) /= 0 \/ regs.version = 3 THEN 0
    ELSE IF lane.die_width = 2 THEN 2 ELSE 1

Exponent(regs, lane) ==
    Rows(regs, lane.rows) + 9 + lane.columns + BankExponent(regs, lane)
        + GroupExponent(regs, lane) + 2 - lane.width

\* How much smaller the second rank is, as an exponent.
Delta(regs, lane) ==
    Rows(regs, lane.rows) - Rows(regs, lane.rows1)
        + 9 + lane.columns - Columns1(regs, lane)

ChannelValid(regs, lane) ==
    /\ lane.width /= 3
    /\ Exponent(regs, lane) \in 20..35
    /\ lane.ranks = 2 => Delta(regs, lane) \in 0..8

\* Mutant: the columns of the second rank are taken to be those of the first.
ChannelSize_RowsOnly(regs, lane) ==
    LET first == KiB(Exponent(regs, lane))
        second == IF lane.ranks = 1 THEN 0
                  ELSE first \div 2 ^ (Rows(regs, lane.rows) - Rows(regs, lane.rows1))
    IN  IF lane.three_quarters THEN ((first + second) \div 4) * 3 ELSE first + second

ChannelSize(regs, lane) ==
    LET first == KiB(Exponent(regs, lane))
        second == IF lane.ranks = 1 THEN 0 ELSE first \div 2 ^ Delta(regs, lane)
    IN  IF lane.three_quarters THEN ((first + second) \div 4) * 3 ELSE first + second

\* One or two channels, from 1 GiB to 32 GiB
Sum(sizes) == sizes[1] + (IF Len(sizes) = 2 THEN sizes[2] ELSE 0)

decode_pmugrf(regs) ==
    LET valid == /\ DramType(regs) <= 10
                 /\ \A i \in DOMAIN regs.lanes : ChannelValid(regs, regs.lanes[i])
        total == Sum([i \in DOMAIN regs.lanes |-> ChannelSize(regs, regs.lanes[i])])
    IN  IF valid /\ total \in KiB(30)..KiB(35) THEN total ELSE 0

\* What the fields mean: a rank has 2^rows rows of 2^columns columns in each of
\* its banks, and a column is as wide as the channel; in a channel that is
\* marked so, a quarter of the rows is missing.
RankSize(regs, lane, rows, columns) ==
    KiB(rows + columns + BankExponent(regs, lane) + GroupExponent(regs, lane)
        + 2 - lane.width)

Installed(regs) ==
    LET sizeOf(lane) ==
          LET ranks == RankSize(regs, lane, Rows(regs, lane.rows), 9 + lane.columns)
                       + IF lane.ranks = 1 THEN 0
                         ELSE RankSize(regs, lane, Rows(regs, lane.rows1),
                                       Columns1(regs, lane))
          IN  IF lane.three_quarters THEN 3 * (ranks \div 4) ELSE ranks
    IN  Sum([i \in DOMAIN regs.lanes |-> sizeOf(regs.lanes[i])])

(***************************************************************************)
(* rk356x_parse_atags.  A tag is a record of what it is, whether its       *)
(* length and its hash are right, and its banks.                           *)
(***************************************************************************)
WordBank == [start : 0..(AddrMod - 1), size : 0..(AddrMod - 1)]

Plus(x, y) == (x + y) % AddrMod

BankTotal(banks) ==
    LET total[i \in 0..Len(banks)] == IF i = 0 THEN 0 ELSE Plus(total[i - 1], banks[i].size)
    IN  total

BanksValid(banks) ==
    /\ Len(banks) \in 1..MaxBanks
    /\ \A i \in 1..Len(banks) :
          LET end == Plus(banks[i].start, banks[i].size)
          IN  /\ banks[i].size > 0 /\ end >= banks[i].start
              /\ banks[i].start % Page = 0 /\ banks[i].size % Page = 0
              /\ i > 1 => banks[i].start >= banks[i - 1].start + banks[i - 1].size
              /\ BankTotal(banks)[i] >= BankTotal(banks)[i - 1]

\* The first tag that is not of another kind decides, and any other tag is
\* skipped if its length is possible.
parse_atags(tags) ==
    {tags[i].banks : i \in {k \in DOMAIN tags :
        /\ \A j \in 1..(k - 1) : tags[j].kind = "other"
        /\ tags[k].kind = "ddr" /\ tags[k].length_ok /\ tags[k].hash_ok
        /\ BanksValid(tags[k].banks)}}

(***************************************************************************)
(* rk356x_select_dram_layout                                               *)
(***************************************************************************)
synthesize_geometry(capacity) ==
    (IF capacity = 0 THEN <<>>
     ELSE << [start |-> 0, size |-> IF capacity < MmioStart THEN capacity ELSE MmioStart] >>)
    \o (IF capacity > Phys4G THEN << [start |-> Phys4G, size |-> capacity - Phys4G] >> ELSE <<>>)

bank_within_capacity(bank, capacity) ==
    LET end == Plus(bank.start, bank.size)
        high_end == Plus(capacity, Phys4G - MmioStart)
    IN  /\ end >= bank.start
        /\ IF bank.start < MmioStart
           THEN end <= MmioStart /\ end <= capacity
           ELSE /\ bank.start >= Phys4G /\ capacity > MmioStart
                /\ high_end >= capacity /\ end <= high_end

atags_match_geometry(banks, capacity) ==
    /\ banks /= <<>>
    /\ BankTotal(banks)[Len(banks)] = capacity
    /\ banks[1].start <= LowEnd
    /\ \A i \in DOMAIN banks : bank_within_capacity(banks[i], capacity)

Capacity(regs) == decode_pmugrf(regs) \div Cell
Fallback == KiB(30) \div Cell

\* The layout: where it is from, the bytes reported, and the banks.
select_dram_layout(tags, regs) ==
    LET geometry == Capacity(regs)
        matching == {b \in parse_atags(tags) : atags_match_geometry(b, geometry)}
    IN  IF geometry /= 0 /\ matching /= {}
        THEN [source |-> "atags", total |-> geometry, banks |-> CHOOSE b \in matching : TRUE]
        ELSE IF geometry /= 0
        THEN [source |-> "pmugrf", total |-> geometry, banks |-> synthesize_geometry(geometry)]
        ELSE IF parse_atags(tags) /= {}
        THEN LET b == CHOOSE b \in parse_atags(tags) : TRUE
             IN  [source |-> "atags", total |-> BankTotal(b)[Len(b)], banks |-> b]
        ELSE [source |-> "fallback", total |-> Fallback, banks |-> synthesize_geometry(Fallback)]
=============================================================================
