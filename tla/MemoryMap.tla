------------------------------ MODULE MemoryMap ------------------------------
(***************************************************************************)
(* rk356x/memory_map.c: how rk356x_build_mem_map turns the DRAM banks and  *)
(* the firmware's own ranges into a list of ranges with flags.  It sorts   *)
(* every edge of every range into one table, and gives each interval       *)
(* between two neighbours its flags.  A step is one turn of one of its     *)
(* loops.                                                                  *)
(***************************************************************************)
EXTENDS Rk356x

CONSTANTS
    MaxMapItems,    \* RK356X_MAX_MAP_ITEMS
    AddrTop         \* the addresses at which the map is compared: 0..AddrTop

ASSUME MapAssumption ==
    /\ AddrTop \in Nat
    /\ MaxMapItems \in Nat /\ 2 * (MaxBanks + 6) <= MaxMapItems

VARIABLES
    banks,          \* the bank list the map is built from
    payload_end,
    stage,          \* "idle", "boundaries", "intervals", "done"
    n,              \* the counter of the loop
    boundaries,     \* the sorted table of edges
    map             \* struct FuMemoryMap: the ranges found so far

mapVars == <<banks, payload_end, stage, n, boundaries, map>>

MaxBoundaries == 2 * (MaxBanks + 6)

Reserved ==
    << [start |-> 0, end |-> LowEnd, flags |-> "reserved"],
       [start |-> Payload, end |-> payload_end, flags |-> "payload"],
       [start |-> StackBottom, end |-> StackTop, flags |-> "reserved"],
       [start |-> DmaStart, end |-> DmaEnd, flags |-> "reserved"],
       [start |-> FbStart, end |-> FbEnd, flags |-> "framebuffer"] >>

\* The ranges whose edges go into the table, in this order.
Ranges ==
    [i \in 1..(Len(banks) + 6) |->
        IF i <= Len(banks)
        THEN [start |-> banks[i].start, end |-> banks[i].start + banks[i].size]
        ELSE IF i <= Len(banks) + 5
        THEN [start |-> Reserved[i - Len(banks)].start, end |-> Reserved[i - Len(banks)].end]
        ELSE [start |-> MmioStart, end |-> Phys4G]]

(***************************************************************************)
(* add_boundary: an insertion into a sorted table without duplicates       *)
(***************************************************************************)
Known(table, value) == \E k \in DOMAIN table : table[k] = value
Full(table, value) == ~Known(table, value) /\ Len(table) >= MaxBoundaries

\* Where the shifting loop stops, coming from the end.
InsertAt(table, value) ==
    CHOOSE p \in 0..Len(table) :
        /\ p = 0 \/ table[p] <= value
        /\ \A k \in (p + 1)..Len(table) : table[k] > value

Inserted(table, value) ==
    LET p == InsertAt(table, value)
    IN  [k \in 1..(Len(table) + 1) |->
            IF k <= p THEN table[k] ELSE IF k = p + 1 THEN value ELSE table[k - 1]]

add_boundary(table, value) == IF Known(table, value) THEN table ELSE Inserted(table, value)

(***************************************************************************)
(* The flags of an interval, and map_add                                   *)
(***************************************************************************)
interval_in_bank(start, end) ==
    \E i \in DOMAIN banks :
        start >= banks[i].start /\ end <= banks[i].start + banks[i].size

Covering(start, end) ==
    {j \in DOMAIN Reserved : start >= Reserved[j].start /\ end <= Reserved[j].end}

\* Mutant: the payload's range is looked at before its end is compared.
Flags_StartOnly(start, end) ==
    IF start >= MmioStart /\ end <= Phys4G THEN "mmio"
    ELSE IF ~\E i \in DOMAIN banks : InBank(start, banks[i]) THEN "none"
    ELSE IF \E j \in DOMAIN Reserved : start = Reserved[j].start
    THEN Reserved[CHOOSE j \in DOMAIN Reserved : start = Reserved[j].start].flags
    ELSE "unused"

Flags(start, end) ==
    IF start >= MmioStart /\ end <= Phys4G THEN "mmio"
    ELSE IF ~interval_in_bank(start, end) THEN "none"
    ELSE IF Covering(start, end) = {} THEN "unused"
    ELSE Reserved[CHOOSE j \in Covering(start, end) :
                     \A k \in Covering(start, end) : j <= k].flags

map_add(items, start, end, flags) ==
    IF end <= start THEN items
    ELSE IF items /= <<>> /\ items[Len(items)].end = start
            /\ items[Len(items)].flags = flags
    THEN [items EXCEPT ![Len(items)].end = end]
    ELSE IF Len(items) >= MaxMapItems THEN items
    ELSE Append(items, [start |-> start, end |-> end, flags |-> flags])

(***************************************************************************)
(* rk356x_build_mem_map                                                    *)
(***************************************************************************)
MapInit ==
    /\ banks = <<>> /\ payload_end = Payload
    /\ stage = "idle" /\ n = 0
    /\ boundaries = <<>> /\ map = <<>>

BeginMap(list, end) ==
    /\ stage \in {"idle", "done"}
    /\ banks' = list /\ payload_end' = end
    /\ stage' = "boundaries" /\ n' = 1
    /\ boundaries' = <<>> /\ map' = <<>>

\* When the table is full the function returns with an empty map.
AddRange ==
    LET r == Ranges[n]
        table == add_boundary(boundaries, r.start)
        full == Full(boundaries, r.start) \/ Full(table, r.end)
    IN  /\ stage = "boundaries" /\ n <= Len(Ranges)
        /\ boundaries' = IF full THEN boundaries ELSE add_boundary(table, r.end)
        /\ stage' = IF full THEN "done" ELSE stage
        /\ n' = n + 1
        /\ UNCHANGED <<banks, payload_end, map>>

TableReady ==
    /\ stage = "boundaries" /\ n > Len(Ranges)
    /\ stage' = "intervals" /\ n' = 1
    /\ UNCHANGED <<banks, payload_end, boundaries, map>>

MapInterval ==
    LET start == boundaries[n]
        end == boundaries[n + 1]
    IN  /\ stage = "intervals" /\ n < Len(boundaries)
        /\ map' = IF Flags(start, end) = "none" THEN map
                  ELSE map_add(map, start, end, Flags(start, end))
        /\ n' = n + 1
        /\ UNCHANGED <<banks, payload_end, stage, boundaries>>

MapReady ==
    /\ stage = "intervals" /\ n >= Len(boundaries)
    /\ stage' = "done"
    /\ UNCHANGED <<banks, payload_end, n, boundaries, map>>

BuildMap == AddRange \/ TableReady \/ MapInterval \/ MapReady

MapNext == (\E list \in BankLists, end \in Nat : BeginMap(list, end)) \/ BuildMap

MapSpec == MapInit /\ [][MapNext]_mapVars

(***************************************************************************)
(* rk356x_largest_low_free: an index of the map, or 0                      *)
(***************************************************************************)
LowFree == {i \in DOMAIN map : /\ map[i].flags = "unused"
                               /\ map[i].start < Phys4G /\ map[i].end <= Phys4G}
Size(i) == map[i].end - map[i].start

largest_low_free ==
    IF LowFree = {} THEN 0
    ELSE CHOOSE i \in LowFree :
            \A j \in LowFree : Size(j) < Size(i) \/ (Size(j) = Size(i) /\ i <= j)

(***************************************************************************)
(* Properties                                                              *)
(***************************************************************************)
\* What an address is, said without intervals: a device, or DRAM that is the
\* first of the reserved ranges it lies in, or free.
FlagsAt(a) ==
    LET inside == {j \in DOMAIN Reserved : Reserved[j].start <= a /\ a < Reserved[j].end}
    IN  IF MmioStart <= a /\ a < Phys4G THEN "mmio"
        ELSE IF ~\E i \in DOMAIN banks : InBank(a, banks[i]) THEN "none"
        ELSE IF inside = {} THEN "unused"
        ELSE Reserved[CHOOSE j \in inside : \A k \in inside : j <= k].flags

\* The finished map: its ranges are disjoint and in order, every address of a
\* range is what the range's flags say, and no address with flags is missing.
MapFaithful ==
    stage = "done" =>
        /\ \A i, j \in DOMAIN map : i < j => map[i].end <= map[j].start
        /\ \A i \in DOMAIN map : \A a \in map[i].start..(map[i].end - 1) :
              FlagsAt(a) = map[i].flags
        /\ \A a \in 0..AddrTop :
              FlagsAt(a) /= "none" =>
                 \E i \in DOMAIN map : map[i].start <= a /\ a < map[i].end
=============================================================================
