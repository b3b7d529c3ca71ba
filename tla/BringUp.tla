------------------------------ MODULE BringUp -------------------------------
(***************************************************************************)
(* A board from its mask ROM to the payload: the ROM takes the DRAM        *)
(* initialiser from an image of makeboot or from rock, calls it, and does  *)
(* the same with the firmware.  While the initialiser runs the ROM answers *)
(* no transfer, and rock waits in one without a timeout.                   *)
(***************************************************************************)
EXTENDS BootMedia, BoardBringUp

CONSTANT None

\* The board that is brought up is one of the devices the bus can hold
ASSUME BoardAssumption == "board" \in Devices

VARIABLES
    way,        \* where the programs come from: "image" or "usb"
    code        \* what the ROM of the board loaded

vars == <<files, bus, rock, got, board, stage, at, left, bit, log, way, code>>

Soc == CASE board = "pinebook" -> "rk3399"
         [] board = "genbook" -> "rk3588"
         [] board = "rk356x" -> "rk356x"
\* make_v1 is for the RK3399, make_v2 for the others
Version == IF board = "pinebook" THEN 1 ELSE 2

Init ==
    /\ MediaInit /\ BoardInit
    /\ way \in {"image", "usb"}
    /\ "board" \in DOMAIN bus => way = "usb" /\ bus["board"] = Soc
    /\ way = "image" => DOMAIN bus = {}
    /\ code = [blob \in Blobs |-> None]

\* The ROM asks for the initialiser first, and for the firmware when that has returned
Wanted == IF code.ddr = None THEN "ddr" ELSE "os"

\* The ROM runs what it loaded: the program, when it is all there
Run(blob, data) ==
    /\ code' = [code EXCEPT ![blob] = data]
    /\ IF IsPrefix(File(blob), data)
       THEN Start(IF blob = "ddr" THEN "ddr" ELSE "main")
       ELSE stage' = "lost" /\ UNCHANGED <<board, at, left, bit, log>>
    /\ UNCHANGED <<mediaVars, way>>

LoadImage ==
    /\ stage = "rom" /\ way = "image" /\ code[Wanted] = None
    /\ Run(Wanted, Extent(Version, Wanted))

LoadUsb ==
    /\ stage = "rom" /\ way = "usb" /\ code[Wanted] = None
    /\ Has("board", Wanted)
    /\ Run(Wanted, Decoded("board", Wanted))

\* rock; its transfer of the firmware is taken when the ROM runs again
Answered == rock.at = "send" /\ rock.target = "board" =>
                stage = "rom" /\ Wanted = rock.blob
Host ==
    /\ way = "usb"
    /\ Discover \/ OpenBlob \/ (Answered /\ SendChunk)
    /\ UNCHANGED <<boardVars, way, code>>

Board ==
    /\ Do \/ Leave \/ Begin \/ Read
    /\ UNCHANGED <<mediaVars, way, code>>

Environment == Hardware /\ UNCHANGED <<mediaVars, way, code>>

Next == LoadImage \/ LoadUsb \/ Host \/ Board \/ Environment

\* The ROM, the processor and the host go on; the hardware promises nothing
Spec ==
    /\ Init /\ [][Next]_vars
    /\ WF_vars(LoadImage \/ LoadUsb) /\ WF_vars(Host) /\ WF_vars(Board)

-----------------------------------------------------------------------------
Ended == rock.at \in {"done", "failed"}

\* What the ROM runs is what was built: from USB each byte of the file comes out of the RC4
\* stream in its place and no other, and in an image the header leads to the file unless a
\* sector count of it does not fit its 16 bits (rock.c send_blob, makeboot.c make_v1, make_v2).
RunsWhatWasBuilt ==
    \A blob \in Blobs : code[blob] # None =>
        IF way = "usb" THEN code[blob] = File(blob)
        ELSE HeaderHolds(Version) => IsPrefix(File(blob), code[blob])

\* When rock says it is done, one device has both files, whole and with the checksums that its
\* ROM computes, whatever the lengths are to the size of a transfer; its ROM had taken the
\* initialiser before the firmware was sent; and it is one rock knows, alone on the bus, since
\* the programs of one board can hang or harm another (rock.c main, send_blob).
ExitMeansDelivered ==
    rock.at = "done" =>
        /\ \A blob \in Blobs : Has(rock.target, blob) /\ Decoded(rock.target, blob) = File(blob)
        /\ rock.target = "board" => code.ddr = File("ddr")
        /\ Rockchips = {rock.target} /\ bus[rock.target] \in Socs

\* A display is driven only when it is ready.  The Genbook touches its video output processor
\* with all its power domains and their memories on, unless a loop ran out, which power_up
\* reports as success, or the very last read found the bit, which it reports as failure
\* (genbook.c c_entry drops the result of rk3588_init_power_domains).  The screen an RK356x board
\* reports to the payload is lit: its power domain, its pixel clock and both locks of the PHY
\* came, and a lock is a new one unless the one before it had not dropped after its five reads
\* (hdmi.c rk356x_display_init, hdmi_phy_setup).
DisplayReady ==
    LET Fresh(drop, lock) == Result(lock) = "on" \/ Result(drop) = "off"
    IN  /\ board = "genbook" /\ stage = "main" /\ at >= To("vop2") =>
            \/ \A step \in Range(PowerDomains) : Result(step) = "on"
            \/ \E step \in Range(PowerDomains) : Result(step) \in {"off", "late"}
        /\ board = "rk356x" /\ stage = "main" /\ Step = "active" =>
            /\ \A step \in {"VO", "DCLK", "PHY1_i2c", "PHY2_i2c"} : Result(step) = "on"
            /\ Fresh("PHY1_drop", "PHY1_lock") /\ Fresh("PHY2_drop", "PHY2_lock")


\* rock ends, or waits for a board that does not come back to its ROM (rock.c: timeout 0).
HostEnds ==
    rock.at \in {"open", "send"} ~>
        Ended \/ stage \in {"halted", "lost"} \/ (stage = "ddr" /\ Step \in Pctls)
=============================================================================
