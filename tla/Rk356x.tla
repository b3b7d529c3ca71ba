-------------------------------- MODULE Rk356x --------------------------------
(***************************************************************************)
(* rk356x/rk356x.h: the address map of the normal RK356x firmware.         *)
(* Addresses and sizes count units of Cell KiB.                            *)
(***************************************************************************)
EXTENDS Integers, Sequences

CONSTANTS
    Cell,           \* the size of a unit of address, in KiB
    Page,           \* 4 KiB
    LowEnd,         \* 0x00200000, above it the firmware image is never linked
    Payload,        \* RK356X_PAYLOAD
    StackBottom, StackTop,
    DmaStart, DmaEnd,
    Dtb, Shared,    \* inside the DMA arena
    FbStart, FbEnd,
    MmioStart, Phys4G,
    MaxBanks        \* RK356X_MAX_DRAM_BANKS

ASSUME AddressAssumption ==
    /\ Cell \in Nat \ {0} /\ Page \in Nat \ {0} /\ MaxBanks \in Nat
    /\ {LowEnd, Payload, StackBottom, StackTop, DmaStart, DmaEnd, Dtb, Shared,
        FbStart, FbEnd, MmioStart, Phys4G} \subseteq Nat

\* struct Rk356xDramBank, and what the banks of a layout can be
Bank == [start : Nat, size : Nat]
BankLists == {banks \in Seq(Bank) : Len(banks) <= MaxBanks}

InBank(a, bank) == bank.start <= a /\ a < bank.start + bank.size
=============================================================================
