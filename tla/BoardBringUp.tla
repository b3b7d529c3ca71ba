---------------------------- MODULE BoardBringUp ----------------------------
(***************************************************************************)
(* What the two programs of a board do before the payload runs: the DRAM   *)
(* initialiser that the boot ROM calls, and the firmware.  A program is    *)
(* the list of its steps; most are a loop that reads a status bit of the   *)
(* hardware until it is set or the loop has turned too often, and what     *)
(* follows is what the code makes of the answer.  Register values are left *)
(* out: a step without a wait is its name.  "rk356x" is the firmware of    *)
(* the RK356x boards; the DRAM initialisers of RK3588 and RK356x are       *)
(* Rockchip's (external), behind a shim on the Genbook.                    *)
(***************************************************************************)
EXTENDS Integers, SequencesExt

CONSTANT Turns      \* how often a bounded loop reads its status bit

ASSUME TurnsAssumption == Turns \in Nat /\ Turns > 1

VARIABLES
    board,      \* the board that is brought up
    stage,      \* "rom", "ddr", "main", and at last "payload" or "halted"
    at,         \* the place of the next step in the program
    left,       \* how often the loop it is in may still read, 0 outside a loop
    bit,        \* the status bit of that loop
    log         \* what the waits of the program ended with, as far as it has come

boardVars == <<board, stage, at, left, bit, log>>

Boards == {"pinebook", "genbook", "rk356x"}

-----------------------------------------------------------------------------
\* The steps.  One that waits for nothing is the name of what it writes

\* RK3399: rk3399_cpu_clock_start, sys_soc_setup, rk3399_init_vop
Clusters == <<"APLL_L", "APLL_B", "GPLL", "CPLL">>
SocSetup == <<"soc">>
InitVop == <<"VPLL", "scanout">>

\* rk3399_ddr_entry: four passes over the controllers, then the two frequency changes
Rk3399Passes == <<"PCTL_1", "PCTL_2", "PCTL_3", "PCTL_4">>
Rk3399Frequencies == <<"DPLL_400", "DPLL_800">>

\* analogix_edp.c
EdpInit == <<"HPD", "EDP_PLL">>
EdpEnable == <<"EDP_LOCK", "CLOCK", "STREAM">>

\* RK3588: rk3588_sgrf_init, rk3588_init_power_domains, rk3588_setup_video_edp1
SgrfInit == <<"sgrf">>
PowerDomains == <<"version", "PHP", "PHP_mem", "SECURE", "VOP", "VOP_mem", "VO1", "VO1_mem">>
Vop2Init == <<"vop2">>
StartVideo == <<"scanout">>
SetupVideo == Vop2Init \o <<"V0PLL">> \o StartVideo \o EdpInit \o EdpEnable

\* RK356x: rk356x_display_init and rk356x_usb_init
DisplayClocks == <<"VO", "DCLK">>
Vop2Setup == <<"scanout">>
HdmiVideo == <<"video">>
PhySetup == <<"PHY1_drop", "PHY1_i2c", "PHY1_lock", "PHY2_drop", "PHY2_i2c", "PHY2_lock">>
DisplayInit == DisplayClocks \o Vop2Setup \o HdmiVideo \o PhySetup \o <<"active">>
UsbInit == <<"usb">>

\* The programs
Shim == <<"shim", "return">>            \* the rest of the initialiser is Rockchip's
PinebookDdr ==
    <<"pins">> \o Clusters \o <<"DPLL_48">> \o Rk3399Passes \o Rk3399Frequencies \o <<"return">>
Pinebook ==
    <<"pins">> \o Clusters \o SocSetup \o EdpInit \o InitVop \o EdpEnable \o <<"payload">>

Genbook ==
    <<"pins">> \o SgrfInit \o PowerDomains \o SetupVideo \o <<"payload">>

Rk356xFirmware == <<"pins">> \o DisplayInit \o <<"input">> \o UsbInit \o <<"payload">>

Programs ==
    [ddr |-> [pinebook |-> PinebookDdr, genbook |-> Shim, rk356x |-> Shim],
     main |-> [pinebook |-> Pinebook, genbook |-> Genbook, rk356x |-> Rk356xFirmware]]

Running == stage \in DOMAIN Programs
Program == Programs[stage][board]
Step == Program[at]
To(step) == CHOOSE i \in DOMAIN Program : Program[i] = step

-----------------------------------------------------------------------------
Result(step) == IF step \in DOMAIN log THEN log[step] ELSE "none"
\* The log when some waits more have ended with a result
Logged(steps, result) ==
    [step \in steps \cup DOMAIN log |-> IF step \in steps THEN result ELSE log[step]]

\* The waits.  found: the bits a loop can start with, "old" being one that an earlier setting
\* of the same thing left; reads: how often the bit is read, 0 for as long as it takes; last:
\* what is reported when only the last read finds the bit; never: when none does

\* while (timeout--) { if (bit) break; } if (timeout == 0) ...: the counter is 0 when the last
\* read found the bit, and -1 when none did
CountedDown(bits) == [found |-> bits, reads |-> Turns, last |-> "failed", never |-> "ok"]

PowerUp == CountedDown({"off", "on"})
PowerUpMemory == CountedDown({"off", "on"})
Rk3588SetPll == CountedDown({"off"})            \* powered down meanwhile
PmuVersion == [found |-> {"off", "on"}, reads |-> 1, last |-> "ok", never |-> "failed"]

\* Mutant: the lock of a PLL is awaited without a bound.
ClockSetPll_Forever == [found |-> {"off", "old"}, reads |-> 0, last |-> "ok", never |-> "ok"]
\* clock_set_pll: the PLL runs on while its dividers are written
ClockSetPll == [found |-> {"off", "old"}, reads |-> Turns + 1, last |-> "ok", never |-> "failed"]

WaitForPctl == [found |-> {"off", "on"}, reads |-> 0, last |-> "ok", never |-> "ok"]

EnableVoDomain == [found |-> {"off", "on"}, reads |-> Turns, last |-> "ok", never |-> "failed"]
SetVpll == [found |-> {"off"}, reads |-> Turns, last |-> "ok", never |-> "failed"]
\* Mutant: a write that is not answered counts as done.
PhyI2cWrite_Ignored == [found |-> {"off"}, reads |-> Turns, last |-> "ok", never |-> "ok"]
PhyI2cWrite == [found |-> {"off"}, reads |-> Turns, last |-> "ok", never |-> "failed"]

PhyDrop == [found |-> {"off", "on"}, reads |-> Turns, last |-> "ok", never |-> "ok"]
\* A lock that has not dropped is still there
PhyLock(drop) ==
    [found |-> IF Result(drop) = "off" THEN {"off", "old"} ELSE {"off"},
     reads |-> Turns, last |-> "ok", never |-> "failed"]

EdpHpd == [found |-> {"off", "on"}, reads |-> Turns, last |-> "ok", never |-> "ok"]
EdpPll == [found |-> {"off", "on"}, reads |-> Turns, last |-> "ok", never |-> "failed"]
EdpLock == [found |-> {"off", "on"}, reads |-> 1, last |-> "ok", never |-> "failed"]
\* The last turn of the clock loop returns before it reads
EdpClock == [found |-> {"off", "on"}, reads |-> Turns - 1, last |-> "ok", never |-> "failed"]
EdpStream == [found |-> {"off", "on"}, reads |-> Turns, last |-> "ok", never |-> "failed"]

\* The waits of a power domain: get_pd_config names no memory for PD_SECURE
PdConfig == [PHP |-> {"PHP", "PHP_mem"}, SECURE |-> {"SECURE"},
             VOP |-> {"VOP", "VOP_mem"}, VO1 |-> {"VO1", "VO1_mem"}]
Domains == DOMAIN PdConfig
Memories == {"PHP_mem", "VOP_mem", "VO1_mem"}
Rk3399Plls == Range(Clusters \o Rk3399Frequencies) \cup {"DPLL_48", "VPLL"}
Pctls == Range(Rk3399Passes)
Display == {"VO", "DCLK"} \cup Range(PhySetup)
Waits == Range(PowerDomains \o EdpInit \o EdpEnable) \cup Rk3399Plls \cup Pctls \cup Display
             \cup {"V0PLL"}

Wait(step) ==
    CASE step \in Domains -> PowerUp
      [] step \in Memories -> PowerUpMemory
      [] step \in Rk3399Plls -> ClockSetPll
      [] step \in Pctls -> WaitForPctl
      [] step \in {"PHY1_i2c", "PHY2_i2c"} -> PhyI2cWrite
      [] step \in {"PHY1_drop", "PHY2_drop"} -> PhyDrop
      [] step = "PHY1_lock" -> PhyLock("PHY1_drop")
      [] step = "PHY2_lock" -> PhyLock("PHY2_drop")
      [] step = "version" -> PmuVersion
      [] step = "V0PLL" -> Rk3588SetPll
      [] step = "VO" -> EnableVoDomain
      [] step = "DCLK" -> SetVpll
      [] step = "HPD" -> EdpHpd
      [] step = "EDP_PLL" -> EdpPll
      [] step = "EDP_LOCK" -> EdpLock
      [] step = "CLOCK" -> EdpClock
      [] step = "STREAM" -> EdpStream

-----------------------------------------------------------------------------
\* The actions

BoardInit ==
    /\ board \in Boards /\ stage = "rom" /\ at = 1 /\ left = 0 /\ bit = "off"
    /\ log = <<>>

\* The ROM enters a program
Start(program) ==
    /\ stage = "rom"
    /\ stage' = program /\ at' = 1 /\ left' = 0 /\ bit' = "off" /\ log' = <<>>
    /\ UNCHANGED board

\* A step that waits for nothing
Do ==
    /\ Running /\ Step \notin Waits \cup {"return", "payload"}
    /\ at' = at + 1
    /\ UNCHANGED <<board, stage, left, bit, log>>

\* ddr_entry returns to the ROM, the firmware jumps to the payload
Leave ==
    /\ Running /\ Step \in {"return", "payload"}
    /\ stage' = IF Step = "return" THEN "rom" ELSE "payload"
    /\ at' = 1
    /\ UNCHANGED <<board, left, bit, log>>

\* Where a program goes on when a wait is reported failed
AfterFailure ==
    CASE Step \in Rk3399Plls -> "halted"                          \* abort
      [] Step \in Range(PowerDomains) -> "vop2"                   \* rk3588_init_power_domains
      [] Step \in Range(EdpEnable) -> "payload"                   \* edp_enable
      [] Step \in Display -> "input"                              \* rk356x_display_init
      [] OTHER -> "next"

\* The loop of the step ends with a report, result being what was found
Finish(report, result) ==
    /\ log' = Logged({Step}, result)
    /\ left' = 0 /\ bit' = "off"
    /\ LET target == IF report = "ok" THEN "next" ELSE AfterFailure
       IN  /\ stage' = IF target = "halted" THEN "halted" ELSE stage
           /\ at' = CASE target = "next" -> at + 1
                      [] target = "halted" -> 1
                      [] OTHER -> To(target)
    /\ UNCHANGED board

\* A wait begins.  A power domain that is on already is done, its memory with it
Begin ==
    /\ Running /\ Step \in Waits /\ left = 0
    /\ \E b \in Wait(Step).found :
        IF Step \in Domains /\ b = "on"
        THEN /\ log' = Logged(PdConfig[Step], "on")
             /\ at' = at + Cardinality(PdConfig[Step])
             /\ UNCHANGED <<board, stage, left, bit>>
        ELSE /\ bit' = b
             /\ left' = Max({1, Wait(Step).reads})
             /\ UNCHANGED <<board, stage, at, log>>

\* A turn of the loop
Read ==
    /\ left > 0
    /\ LET last == left = 1 /\ Wait(Step).reads # 0
       IN  CASE bit \in {"on", "old"} /\ last /\ Wait(Step).last = "failed" ->
                  Finish("failed", "late")
             [] bit \in {"on", "old"} /\ ~(last /\ Wait(Step).last = "failed") ->
                  Finish("ok", bit)
             [] bit = "error" -> Finish("failed", "error")
             [] bit = "off" /\ last -> Finish(Wait(Step).never, "off")
             [] OTHER -> /\ left' = IF Wait(Step).reads = 0 THEN left ELSE left - 1
                         /\ UNCHANGED <<board, stage, at, bit, log>>

\* The hardware meanwhile: what was asked for comes, an earlier lock is lost, an I2C write fails
Hardware ==
    /\ left > 0
    /\ \/ bit = "off" /\ bit' = "on"
       \/ bit = "off" /\ bit' = "error" /\ Step \in {"PHY1_i2c", "PHY2_i2c"}
       \/ bit = "old" /\ bit' = "off"
    /\ UNCHANGED <<board, stage, at, left, log>>
=============================================================================
