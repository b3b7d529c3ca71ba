------------------------------ MODULE BootMedia ------------------------------
(***************************************************************************)
(* How a board gets the two programs its boot ROM runs, the DRAM           *)
(* initialiser and the firmware: tools/makeboot.c lays them out in an SD   *)
(* image, tools/rock.c sends them over USB to a SoC in mask ROM mode.      *)
(* A byte is the file it is of and its place there.  RC4 is the place of   *)
(* the byte in the key stream that was spent on it, 0 for a plain byte,    *)
(* and the CRC of a stream is the stream: both tell apart what the device  *)
(* tells apart.  The mask ROM itself is external.                          *)
(***************************************************************************)
EXTENDS Integers, SequencesExt

CONSTANTS
    Sector,         \* the bytes of a sector
    SectorLimit,    \* a sector count of a header is kept modulo this (2^16)
    Chunk,          \* RK_MAX, the bytes of a full transfer
    Devices,        \* the devices the host's USB bus can hold
    DdrSizes, OsSizes

ASSUME MediaAssumption ==
    /\ {Sector, SectorLimit, Chunk} \subseteq Nat \ {0}
    /\ DdrSizes \subseteq Nat /\ OsSizes \subseteq Nat

VARIABLES
    files,      \* the lengths of the two files
    bus,        \* the devices on the bus and what they say they are
    rock,       \* the sending tool
    got         \* what each device received, per blob

mediaVars == <<files, bus, rock, got>>

Blobs == {"ddr", "os"}
Byte(blob, i) == [of |-> blob, place |-> i]
File(blob) == [i \in 1 .. files[blob] |-> Byte(blob, i)]
Blank == [of |-> "nothing", place |-> 0]

-----------------------------------------------------------------------------
\* makeboot.c.  Sectors count from the header, which is sector 64 of the card.

\* init_size and os_size of make_v1 and make_v2
InitSectors(version) ==
    IF version = 1 THEN ((files.ddr \div Sector) \div 4 + 1) * 4
                   ELSE files.ddr \div Sector + 1
OsSectors(version) ==
    IF version = 1 THEN files.os \div Sector + 2
                   ELSE ((files.os \div Sector + 1) \div 8 + 1) * 8

\* The two extents the header names: of a version 1 header they are init_size and
\* init_boot_size, of a version 2 header entries of its image table
Header(version) ==
    LET init == InitSectors(version) % SectorLimit
        boot == (InitSectors(version) + OsSectors(version)) % SectorLimit
    IN  [ddr |-> [offset |-> 4, size |-> init],
         os |-> IF version = 1
                THEN [offset |-> 4 + init, size |-> IF boot > init THEN boot - init ELSE 0]
                ELSE [offset |-> (InitSectors(version) + 4) % SectorLimit,
                      size |-> OsSectors(version) % SectorLimit]]

\* The byte at an offset from the header: write_file of both, the second over the first
ByteAt(version, p) ==
    LET ddrAt == 4 * Sector
        osAt == ddrAt + InitSectors(version) * Sector
    IN  IF p - osAt \in 0 .. files.os - 1 THEN Byte("os", p - osAt + 1)
        ELSE IF p - ddrAt \in 0 .. files.ddr - 1 THEN Byte("ddr", p - ddrAt + 1)
        ELSE Blank

\* What the boot ROM reads for a blob, by the header
Extent(version, blob) ==
    LET e == Header(version)[blob]
    IN  [i \in 1 .. e.size * Sector |-> ByteAt(version, e.offset * Sector + i - 1)]

\* Every size and offset has a value its 16 bits can hold
HeaderHolds(version) ==
    InitSectors(version) + (IF version = 1 THEN OsSectors(version) ELSE 4) < SectorLimit
    /\ OsSectors(version) < SectorLimit

-----------------------------------------------------------------------------
\* rock.c

Socs == {"rk3399", "rk356x", "rk3588"}
Pids == Socs \cup {"unsupported", "foreign"}
Idle == [at |-> "idle", target |-> "none", blob |-> "ddr", read |-> 0, key |-> 0, sum |-> <<>>]
Nothing == [blob \in Blobs |-> [data |-> <<>>, sums |-> <<>>]]
Rockchips == {d \in DOMAIN bus : bus[d] # "foreign"}

MediaInit ==
    /\ files \in [ddr : DdrSizes, os : OsSizes]
    /\ bus \in UNION {[attached -> Pids] : attached \in SUBSET Devices}
    /\ rock = Idle
    /\ got = [d \in Devices |-> Nothing]

\* main up to send_blob: the list of devices is read once
Discover ==
    /\ rock.at = "idle"
    /\ rock' = IF \E d \in Devices : Rockchips = {d} /\ bus[d] \in Socs
               THEN [rock EXCEPT !.at = "open", !.target = CHOOSE d \in Rockchips : TRUE]
               ELSE [rock EXCEPT !.at = "failed"]
    /\ UNCHANGED <<files, bus, got>>

\* send_blob up to its loop: fopen and libusb_open can fail
OpenBlob ==
    /\ rock.at = "open"
    /\ rock' \in {[rock EXCEPT !.at = "send", !.read = 0, !.key = 0, !.sum = <<>>],
                  [rock EXCEPT !.at = "failed"]}
    /\ UNCHANGED <<files, bus, got>>

RC4(bytes, used) ==
    [i \in DOMAIN bytes |-> [byte |-> bytes[i],
        key |-> IF bus[rock.target] = "rk3399" THEN used + i ELSE 0]]

\* Mutant: the key stream begins anew with each chunk.
Encode_Restarts(bytes) == RC4(bytes, 0)
\* rc4_encode_chunk: the key stream runs on from chunk to chunk
Encode(bytes) == RC4(bytes, rock.key)

\* Mutant: the checksum is taken before the bytes are encoded.
Checksum_OfPlain(bytes) == rock.sum \o [i \in DOMAIN bytes |-> [byte |-> bytes[i], key |-> 0]]
\* crc_sum_16 over what is sent, not over what is read
Checksum(bytes) == rock.sum \o Encode(bytes)

\* A turn of the loop of send_blob: the last chunk is the one shorter than Chunk, and it
\* carries the checksum of what was sent
SendChunk ==
    /\ rock.at = "send"
    /\ LET n == IF files[rock.blob] - rock.read < Chunk
                THEN files[rock.blob] - rock.read ELSE Chunk
           bytes == SubSeq(File(rock.blob), rock.read + 1, rock.read + n)
           chunk == Encode(bytes)
           sum == Checksum(bytes)
           Deliver(data, sums) ==
               got' = [got EXCEPT ![rock.target][rock.blob] =
                           [data |-> @.data \o data, sums |-> @.sums \o sums]]
       IN  \/ /\ n = Chunk
              /\ Deliver(chunk, <<>>)
              /\ rock' = [rock EXCEPT !.read = @ + n, !.key = @ + n, !.sum = sum]
           \/ /\ n < Chunk
              /\ Deliver(chunk, <<sum>>)
              /\ rock' = IF rock.blob = "ddr"
                         THEN [rock EXCEPT !.at = "open", !.blob = "os"]
                         ELSE [rock EXCEPT !.at = "done"]
           \* the file cannot be read, the transfer fails or is short
           \/ /\ \E k \in 0 .. n : Deliver(SubSeq(chunk, 1, k), <<>>)
              /\ rock' = [rock EXCEPT !.at = "failed"]
    /\ UNCHANGED <<files, bus>>

\* The mask ROM of a device has a blob when the checksum it was sent is that of the data
Has(d, blob) == got[d][blob].sums = <<got[d][blob].data>>

\* The data as the mask ROM decodes it: the RK3399 spends its own key stream
Decoded(d, blob) ==
    LET data == got[d][blob].data
        key == [i \in DOMAIN data |-> IF bus[d] = "rk3399" THEN i ELSE 0]
    IN  [i \in DOMAIN data |-> IF data[i].key = key[i] THEN data[i].byte ELSE Blank]
=============================================================================
