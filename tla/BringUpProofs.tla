---------------------------- MODULE BringUpProofs ----------------------------
(***************************************************************************)
(* Proofs about the way of a board to its payload, for files, sectors,     *)
(* header fields, transfers and loops of any size and any devices on the   *)
(* bus: the ROM runs what was built, rock reports what it delivered, a     *)
(* display that is driven is ready, and the programs only go on.           *)
(***************************************************************************)
EXTENDS BringUp, SequenceTheorems, FiniteSetTheorems, TLAPS

-----------------------------------------------------------------------------
(***************************************************************************)
(* The images of makeboot                                                  *)
(***************************************************************************)
FilesInv == files \in [ddr : Nat, os : Nat]

\* The sectors of a file hold it.
LEMMA SectorsHold ==
    ASSUME NEW n \in Nat
    PROVE  /\ n \div Sector \in Nat /\ n < (n \div Sector + 1) * Sector
<1>1. Sector \in Nat \ {0}
  BY MediaAssumption
<1> DEFINE q == n \div Sector
<1>2. q \in Nat /\ n = q * Sector + (n % Sector)
  BY <1>1
<1>3. n % Sector \in 0..(Sector - 1)
  BY <1>1
<1> HIDE DEF q
<1>4. (q + 1) * Sector = q * Sector + Sector
  BY <1>1, <1>2
<1>5. n < (q + 1) * Sector
  BY <1>1, <1>2, <1>3, <1>4
<1> QED
  BY <1>2, <1>5 DEF q

LEMMA ProductGrows ==
    ASSUME NEW a \in Nat, NEW b \in Nat, NEW c \in Nat, a <= b
    PROVE  a * c <= b * c /\ a * c \in Nat /\ b * c \in Nat
<1>1. \E d \in Nat : b = a + d
  <2>1. b - a \in Nat /\ b = a + (b - a)
    OBVIOUS
  <2> QED
    BY <2>1
<1>2. PICK d \in Nat : b = a + d
  BY <1>1
<1>3. b * c = a * c + d * c /\ d * c \in Nat
  BY <1>2
<1> QED
  BY <1>3

LEMMA SectorCounts ==
    ASSUME FilesInv, NEW version \in {1, 2}
    PROVE  /\ InitSectors(version) \in Nat /\ OsSectors(version) \in Nat \ {0}
           /\ files.ddr <= InitSectors(version) * Sector
           /\ files.os <= OsSectors(version) * Sector
<1>1. files.ddr \in Nat /\ files.os \in Nat /\ Sector \in Nat \ {0}
  BY MediaAssumption DEF FilesInv
<1> DEFINE d == files.ddr \div Sector
           o == files.os \div Sector
<1>2. /\ d \in Nat /\ files.ddr < (d + 1) * Sector
      /\ o \in Nat /\ files.os < (o + 1) * Sector
  BY <1>1, SectorsHold
<1> HIDE DEF d, o
<1>3. CASE version = 1
  <2>1. InitSectors(version) = (d \div 4 + 1) * 4 /\ OsSectors(version) = o + 2
    BY <1>3 DEF InitSectors, OsSectors, d, o
  <2>2. (d \div 4 + 1) * 4 \in Nat /\ d + 1 <= (d \div 4 + 1) * 4
    BY <1>2
  <2>3. (d + 1) * Sector <= InitSectors(version) * Sector
    BY <1>1, <1>2, <2>1, <2>2, ProductGrows
  <2>4. (o + 1) * Sector <= OsSectors(version) * Sector
    BY <1>1, <1>2, <2>1, ProductGrows
  <2>5. InitSectors(version) \in Nat /\ OsSectors(version) \in Nat \ {0}
    BY <1>2, <2>1, <2>2
  <2>6. (d + 1) * Sector \in Nat /\ (o + 1) * Sector \in Nat
        /\ InitSectors(version) * Sector \in Nat /\ OsSectors(version) * Sector \in Nat
    BY <1>1, <1>2, <2>5
  <2> QED
    BY <1>1, <1>2, <2>3, <2>4, <2>5, <2>6
<1>4. CASE version = 2
  <2>1. InitSectors(version) = d + 1 /\ OsSectors(version) = ((o + 1) \div 8 + 1) * 8
    BY <1>4 DEF InitSectors, OsSectors, d, o
  <2>2. ((o + 1) \div 8 + 1) * 8 \in Nat /\ o + 1 <= ((o + 1) \div 8 + 1) * 8
    BY <1>2
  <2>3. (o + 1) * Sector <= OsSectors(version) * Sector
    BY <1>1, <1>2, <2>1, <2>2, ProductGrows
  <2>4. InitSectors(version) \in Nat /\ OsSectors(version) \in Nat \ {0}
    BY <1>2, <2>1, <2>2
  <2>5. (o + 1) * Sector \in Nat /\ OsSectors(version) * Sector \in Nat
    BY <1>1, <1>2, <2>4
  <2> QED
    BY <1>1, <1>2, <2>1, <2>3, <2>4, <2>5
<1> QED
  BY <1>3, <1>4

Bytes == [of : Blobs \cup {"nothing"}, place : Nat]

LEMMA FilesAreBytes ==
    ASSUME FilesInv, NEW blob \in Blobs
    PROVE  /\ files[blob] \in Nat /\ File(blob) \in Seq(Bytes)
           /\ Len(File(blob)) = files[blob]
           /\ \A i \in 1 .. files[blob] : File(blob)[i] = Byte(blob, i)
<1>1. files[blob] \in Nat
  BY DEF FilesInv, Blobs
<1>2. \A i \in 1 .. files[blob] : Byte(blob, i) \in Bytes
  BY <1>1 DEF Byte, Bytes
<1>3. File(blob) \in [1 .. files[blob] -> Bytes]
  BY <1>2 DEF File
<1>4. File(blob) \in Seq(Bytes) /\ Len(File(blob)) = files[blob]
  BY <1>1, <1>3
<1> QED
  BY <1>1, <1>4 DEF File

\* A header whose values fit leads to both files.
LEMMA HeaderLeads ==
    ASSUME FilesInv, NEW version \in {1, 2}, HeaderHolds(version)
    PROVE  /\ Header(version).ddr = [offset |-> 4, size |-> InitSectors(version)]
           /\ Header(version).os = [offset |-> InitSectors(version) + 4,
                                    size |-> OsSectors(version)]
<1> DEFINE n == InitSectors(version)
           m == OsSectors(version)
<1>1. n \in Nat /\ m \in Nat \ {0} /\ SectorLimit \in Nat \ {0}
  BY SectorCounts, MediaAssumption
<1>2. /\ n + (IF version = 1 THEN m ELSE 4) < SectorLimit
      /\ m < SectorLimit
  BY DEF HeaderHolds
<1>3. Header(version) =
        LET init == n % SectorLimit
            boot == (n + m) % SectorLimit
        IN  [ddr |-> [offset |-> 4, size |-> init],
             os |-> IF version = 1
                    THEN [offset |-> 4 + init, size |-> IF boot > init THEN boot - init ELSE 0]
                    ELSE [offset |-> (n + 4) % SectorLimit, size |-> m % SectorLimit]]
  BY DEF Header
<1> HIDE DEF n, m
<1>4. \A x \in Nat : x < SectorLimit => x % SectorLimit = x
  BY <1>1
<1>5. n % SectorLimit = n /\ m % SectorLimit = m
  BY <1>1, <1>2, <1>4
<1>6. version = 1 => (n + m) % SectorLimit = n + m
  BY <1>1, <1>2, <1>4
<1>7. version # 1 => (n + 4) % SectorLimit = n + 4
  BY <1>1, <1>2, <1>4
<1>8. 4 + n = n + 4 /\ n + m > n /\ n + m - n = m
  BY <1>1
<1>9. Header(version).ddr = [offset |-> 4, size |-> n]
  BY <1>3, <1>5
<1>10. CASE version = 1
  <2>1. Header(version).os = [offset |-> n + 4, size |-> m]
    <3> DEFINE init == n % SectorLimit
               boot == (n + m) % SectorLimit
               Os(x, y) == [offset |-> 4 + x, size |-> IF y > x THEN y - x ELSE 0]
    <3>1. Header(version).os = Os(init, boot)
      BY <1>3, <1>10
    <3>2. init = n /\ boot = n + m
      BY <1>5, <1>6, <1>10
    <3>3. Os(n, n + m) = [offset |-> n + 4, size |-> m]
      BY <1>1
    <3> HIDE DEF init, boot, Os
    <3> QED
      BY <3>1, <3>2, <3>3, Zenon
  <2> QED
    BY <1>9, <2>1 DEF n, m
<1>11. CASE version = 2
  <2>1. Header(version).os = [offset |-> n + 4, size |-> m]
    BY <1>3, <1>5, <1>7, <1>11
  <2> QED
    BY <1>9, <2>1 DEF n, m
<1> QED
  BY <1>10, <1>11

\* The places of both files in an image.
LEMMA FilesInPlace ==
    ASSUME FilesInv, NEW version \in {1, 2}
    PROVE  /\ \A i \in 1 .. files.ddr : ByteAt(version, 4 * Sector + i - 1) = Byte("ddr", i)
           /\ \A i \in 1 .. files.os :
                ByteAt(version, (InitSectors(version) + 4) * Sector + i - 1) = Byte("os", i)
<1> DEFINE n == InitSectors(version)
           osAt == 4 * Sector + n * Sector
<1>1. n \in Nat /\ Sector \in Nat \ {0} /\ files.ddr \in Nat /\ files.os \in Nat
  BY SectorCounts, MediaAssumption DEF FilesInv
<1>2. files.ddr <= n * Sector
  BY SectorCounts
<1>3. \A p : ByteAt(version, p) =
        IF p - osAt \in 0 .. files.os - 1 THEN Byte("os", p - osAt + 1)
        ELSE IF p - 4 * Sector \in 0 .. files.ddr - 1 THEN Byte("ddr", p - 4 * Sector + 1)
        ELSE Blank
  BY DEF ByteAt
<1>4. (n + 4) * Sector = osAt /\ osAt \in Nat /\ 4 * Sector \in Nat /\ n * Sector \in Nat
  BY <1>1
<1>5. osAt = 4 * Sector + n * Sector
  OBVIOUS
<1> HIDE DEF n, osAt
<1>6. ASSUME NEW i \in 1 .. files.ddr
      PROVE  ByteAt(version, 4 * Sector + i - 1) = Byte("ddr", i)
  <2> DEFINE p == 4 * Sector + i - 1
  <2>1. p - osAt < 0 /\ p - 4 * Sector = i - 1 /\ p - 4 * Sector + 1 = i
    BY <1>1, <1>2, <1>4, <1>5
  <2>2. p - osAt \notin 0 .. files.os - 1 /\ p - 4 * Sector \in 0 .. files.ddr - 1
    BY <2>1, <1>1, <1>4
  <2> HIDE DEF p
  <2>3. ByteAt(version, p) = Byte("ddr", p - 4 * Sector + 1)
    BY <1>3, <2>2
  <2> QED
    BY <2>1, <2>3 DEF p
<1>7. ASSUME NEW i \in 1 .. files.os
      PROVE  ByteAt(version, (n + 4) * Sector + i - 1) = Byte("os", i)
  <2> DEFINE p == osAt + i - 1
  <2>1. p - osAt = i - 1 /\ p - osAt + 1 = i
    BY <1>1, <1>4
  <2>2. p - osAt \in 0 .. files.os - 1
    BY <2>1, <1>1, <1>4
  <2> HIDE DEF p
  <2>3. ByteAt(version, p) = Byte("os", p - osAt + 1)
    BY <1>3, <2>2
  <2> QED
    BY <1>4, <2>1, <2>3 DEF p
<1> QED
  BY <1>6, <1>7 DEF n

LEMMA BytesOfImages ==
    ASSUME FilesInv, NEW version \in {1, 2}, NEW p
    PROVE  p \in Int => ByteAt(version, p) \in Bytes
<1>1. InitSectors(version) \in Nat /\ Sector \in Nat /\ files.os \in Nat /\ files.ddr \in Nat
  BY SectorCounts, MediaAssumption DEF FilesInv
<1>2. \A i \in Nat : Byte("os", i) \in Bytes /\ Byte("ddr", i) \in Bytes
  BY DEF Byte, Bytes, Blobs
<1>3. Blank \in Bytes
  BY DEF Blank, Bytes
<1>4. \A i : i \in 0 .. files.os - 1 \/ i \in 0 .. files.ddr - 1 => i + 1 \in Nat
  BY <1>1
<1> QED
  BY <1>2, <1>3, <1>4 DEF ByteAt

\* What the ROM reads by such a header begins with the file.
LEMMA ImagesHoldTheFiles ==
    ASSUME FilesInv, NEW version \in {1, 2}, HeaderHolds(version), NEW blob \in Blobs
    PROVE  IsPrefix(File(blob), Extent(version, blob))
<1> DEFINE e == Header(version)[blob]
           s == Extent(version, blob)
           f == File(blob)
           n == files[blob]
<1>1. /\ e.offset \in Nat /\ e.size \in Nat /\ n <= e.size * Sector
      /\ \A i \in 1 .. n : ByteAt(version, e.offset * Sector + i - 1) = Byte(blob, i)
  <2>1. CASE blob = "ddr"
    BY <2>1, HeaderLeads, SectorCounts, FilesInPlace
  <2>2. CASE blob = "os"
    BY <2>2, HeaderLeads, SectorCounts, FilesInPlace
  <2> QED
    BY <2>1, <2>2 DEF Blobs
<1>2. n \in Nat /\ f \in Seq(Bytes) /\ Len(f) = n /\ \A i \in 1 .. n : f[i] = Byte(blob, i)
  BY FilesAreBytes
<1>3. Sector \in Nat /\ e.size * Sector \in Nat /\ e.offset * Sector \in Nat
  BY <1>1, MediaAssumption
<1>4. s = [i \in 1 .. e.size * Sector |-> ByteAt(version, e.offset * Sector + i - 1)]
  BY DEF Extent
<1> HIDE DEF e, s, f, n
<1>5. \A i \in 1 .. e.size * Sector : ByteAt(version, e.offset * Sector + i - 1) \in Bytes
  BY <1>3, BytesOfImages
<1>6. s \in [1 .. e.size * Sector -> Bytes]
  BY <1>4, <1>5
<1>7. s \in Seq(Bytes) /\ Len(s) = e.size * Sector
  BY <1>3, <1>6
<1>8. \A i \in 1 .. n : s[i] = f[i] /\ s[i] \in Bytes
  <2> TAKE i \in 1 .. n
  <2>1. i \in 1 .. e.size * Sector
    BY <1>1, <1>2, <1>3
  <2>2. s[i] = ByteAt(version, e.offset * Sector + i - 1) /\ s[i] \in Bytes
    BY <1>4, <1>6, <2>1, Zenon
  <2> QED
    BY <1>1, <1>2, <2>2, Zenon
<1>9. SubSeq(s, 1, n) = f
  <2>1. /\ SubSeq(s, 1, n) \in Seq(Bytes)
        /\ Len(SubSeq(s, 1, n)) = n
        /\ \A i \in 1 .. n : SubSeq(s, 1, n)[i] = s[i]
    BY <1>2, <1>8, SubSeqProperties
  <2> QED
    BY <1>2, <1>8, <2>1, SeqEqual
<1>10. SubSeq(f, 1, Len(f)) = f
  BY <1>2, SubSeqFull
<1> QED
  BY <1>1, <1>2, <1>7, <1>9, <1>10 DEF IsPrefix, s, f

-----------------------------------------------------------------------------
(***************************************************************************)
(* What rock sends                                                         *)
(***************************************************************************)
Cells == [byte : Bytes, key : Nat]
Cell(d, blob, i) == [byte |-> Byte(blob, i), key |-> IF bus[d] = "rk3399" THEN i ELSE 0]
\* The first n bytes of a file as they go to a device
Sent(d, blob, n) == [i \in 1 .. n |-> Cell(d, blob, i)]

LEMMA SentCells ==
    ASSUME NEW d, NEW blob \in Blobs, NEW n \in Nat
    PROVE  /\ Sent(d, blob, n) \in Seq(Cells) /\ Len(Sent(d, blob, n)) = n
           /\ \A i \in 1 .. n : Sent(d, blob, n)[i] = Cell(d, blob, i)
<1>1. \A i \in 1 .. n : Byte(blob, i) \in Bytes
  BY DEF Byte, Bytes
<1>2. \A i \in 1 .. n : Cell(d, blob, i) \in Cells
  <2>1. TAKE i \in 1 .. n
  <2>2. (IF bus[d] = "rk3399" THEN i ELSE 0) \in Nat
    OBVIOUS
  <2> QED
    BY <1>1, <2>2 DEF Cell, Cells
<1>3. Sent(d, blob, n) \in [1 .. n -> Cells]
  BY <1>2 DEF Sent
<1> QED
  BY <1>3 DEF Sent

\* The m bytes of a file after the first n
Follows(chunk, d, blob, n, m) ==
    /\ chunk \in Seq(Cells) /\ Len(chunk) = m
    /\ \A i \in 1 .. m : chunk[i] = Cell(d, blob, n + i)

Extends(chunk, d, blob, n, m) ==
    blob \in Blobs /\ n \in Nat /\ m \in Nat /\ Follows(chunk, d, blob, n, m)
Joins(chunk, d, blob, n, m) == Sent(d, blob, n) \o chunk = Sent(d, blob, n + m)

LEMMA SentGrows ==
    ASSUME NEW d, NEW blob, NEW n, NEW m, NEW chunk, Extends(chunk, d, blob, n, m)
    PROVE  Joins(chunk, d, blob, n, m)
<1> blob \in Blobs /\ n \in Nat /\ m \in Nat /\ Follows(chunk, d, blob, n, m)
  BY DEF Extends
<1> DEFINE s == Sent(d, blob, n)
           t == Sent(d, blob, n + m)
<1>1. /\ s \in Seq(Cells) /\ Len(s) = n /\ \A i \in 1 .. n : s[i] = Cell(d, blob, i)
      /\ chunk \in Seq(Cells) /\ Len(chunk) = m
      /\ \A i \in 1 .. m : chunk[i] = Cell(d, blob, n + i)
  BY SentCells DEF Follows
<1>2. n + m \in Nat
  OBVIOUS
<1>3. t \in Seq(Cells) /\ Len(t) = n + m /\ \A i \in 1 .. n + m : t[i] = Cell(d, blob, i)
  BY <1>2, SentCells
<1> HIDE DEF s, t
<1>4. /\ s \o chunk \in Seq(Cells) /\ Len(s \o chunk) = n + m
      /\ \A i \in 1 .. n + m : (s \o chunk)[i] = IF i <= n THEN s[i] ELSE chunk[i - n]
  BY <1>1, ConcatProperties
<1>5. ASSUME NEW i \in 1 .. n + m
      PROVE  (s \o chunk)[i] = t[i]
  <2>1. CASE i <= n
    BY <1>1, <1>3, <1>4, <2>1
  <2>2. CASE ~(i <= n)
    <3>1. i - n \in 1 .. m /\ n + (i - n) = i
      BY <2>2
    <3> QED
      BY <1>1, <1>3, <1>4, <2>2, <3>1
  <2> QED
    BY <2>1, <2>2
<1>6. s \o chunk = t
  BY <1>3, <1>4, <1>5, SeqEqual
<1> QED
  BY <1>6 DEF s, t, Joins

\* A chunk goes on where the one before it ended.
LEMMA ChunksGoOn ==
    ASSUME FilesInv, NEW r \in Nat, NEW n \in Nat, rock.blob \in Blobs, rock.key = r,
           r + n <= files[rock.blob]
    PROVE  Follows(Encode(SubSeq(File(rock.blob), r + 1, r + n)), rock.target, rock.blob, r, n)
<1> DEFINE b == rock.blob
           f == File(b)
           s == SubSeq(f, r + 1, r + n)
           chunk == Encode(s)
<1>1. f \in Seq(Bytes) /\ Len(f) = files[b] /\ files[b] \in Nat
      /\ \A i \in 1 .. files[b] : f[i] = Byte(b, i)
  BY FilesAreBytes
<1>2. \A i \in r + 1 .. r + n : f[i] \in Bytes /\ f[i] = Byte(b, i)
  BY <1>1
<1> HIDE DEF f
<1>3. /\ s \in Seq(Bytes) /\ Len(s) = n
      /\ \A i \in 1 .. n : s[i] = f[r + 1 + i - 1]
  <2>1. r + 1 \in Int /\ r + n \in Int /\ (r + n) - (r + 1) + 1 = n
        /\ (IF r + 1 <= r + n THEN (r + n) - (r + 1) + 1 ELSE 0) = n
    OBVIOUS
  <2>2. \A i \in r + 1 .. r + n : f[i] \in Bytes
    BY <1>2
  <2>3. /\ s \in Seq(Bytes)
        /\ Len(s) = IF r + 1 <= r + n THEN (r + n) - (r + 1) + 1 ELSE 0
        /\ \A i \in 1 .. (r + n) - (r + 1) + 1 : s[i] = f[r + 1 + i - 1]
    BY <2>1, <2>2, SubSeqProperties
  <2> QED
    BY <2>1, <2>3
<1>4. \A i \in 1 .. n : s[i] = Byte(b, r + i)
  <2>1. TAKE i \in 1 .. n
  <2>2. r + 1 + i - 1 = r + i /\ r + i \in r + 1 .. r + n
    OBVIOUS
  <2> QED
    BY <1>2, <1>3, <2>2
<1> HIDE DEF s
<1>5. DOMAIN s = 1 .. n
  BY <1>3
<1>6. chunk = [i \in 1 .. n |-> [byte |-> s[i], key |-> IF bus[rock.target] = "rk3399"
                                                        THEN r + i ELSE 0]]
  BY <1>5 DEF Encode, RC4
<1>7. \A i \in 1 .. n : chunk[i] = Cell(rock.target, b, r + i)
  BY <1>4, <1>6 DEF Cell
<1>8. \A i \in 1 .. n : Cell(rock.target, b, r + i) \in Cells
  <2>1. TAKE i \in 1 .. n
  <2>2. r + n \in Nat /\ r + i \in 1 .. r + n
    OBVIOUS
  <2>3. Sent(rock.target, b, r + n)[r + i] \in Cells
    BY <2>2, SentCells, ElementOfSeq
  <2> QED
    BY <2>2, <2>3, SentCells
<1>9. chunk \in [1 .. n -> Cells]
  BY <1>6, <1>7, <1>8
<1>10. chunk \in Seq(Cells) /\ Len(chunk) = n
  BY <1>9
<1> QED
  BY <1>7, <1>10 DEF Follows, s, f

\* A device was sent so much of a file and no checksum, or all of it and its checksum
Part(d, blob, n) == got[d][blob] = [data |-> Sent(d, blob, n), sums |-> <<>>]
Whole(d, blob) ==
    LET data == Sent(d, blob, files[blob])
    IN  got[d][blob] = [data |-> data, sums |-> <<data>>]

Deliveries == [data : Seq(Cells), sums : Seq(Seq(Cells))]

GotInv ==
    /\ got \in [Devices -> [Blobs -> Deliveries]]
    /\ \A d \in Devices, blob \in Blobs :
        Whole(d, blob) \/ \E n \in 0 .. files[blob] : Part(d, blob, n)

RockTypes ==
    rock \in [at : {"idle", "open", "send", "done", "failed"}, target : Devices \cup {"none"},
              blob : Blobs, read : Nat, key : Nat, sum : Seq(Cells)]

\* The device that rock sends to
TargetInv ==
    rock.at \in {"open", "send", "done"} =>
        Rockchips = {rock.target} /\ rock.target \in Devices /\ bus[rock.target] \in Socs

\* What it has sent when it is there
SendingInv ==
    /\ rock.at = "idle" =>
        rock = Idle /\ \A d \in Devices, blob \in Blobs : Part(d, blob, 0)
    /\ rock.at = "open" => Part(rock.target, rock.blob, 0)
    /\ rock.at = "send" =>
        /\ rock.read <= files[rock.blob] /\ rock.key = rock.read
        /\ rock.sum = Sent(rock.target, rock.blob, rock.read)
        /\ Part(rock.target, rock.blob, rock.read)
    /\ rock.at \in {"open", "send"} =>
        IF rock.blob = "ddr" THEN Part(rock.target, "os", 0) ELSE Whole(rock.target, "ddr")
    /\ rock.at = "done" => \A blob \in Blobs : Whole(rock.target, blob)

MediaInv ==
    FilesInv /\ DOMAIN bus \subseteq Devices /\ GotInv /\ RockTypes /\ TargetInv /\ SendingInv

LEMMA MediaInitHolds ==
    ASSUME MediaInit
    PROVE  MediaInv
<1>1. FilesInv
  BY MediaAssumption DEF MediaInit, FilesInv
<1>2. DOMAIN bus \subseteq Devices
  BY DEF MediaInit
<1>3. rock = Idle /\ got = [d \in Devices |-> Nothing]
  BY DEF MediaInit
<1>4. ASSUME NEW d \in Devices, NEW blob \in Blobs
      PROVE  Part(d, blob, 0)
  <2>1. Sent(d, blob, 0) = <<>>
    BY SentCells, EmptySeq
  <2>2. got[d][blob] = [data |-> <<>>, sums |-> <<>>]
    BY <1>3 DEF Nothing
  <2> QED
    BY <2>1, <2>2 DEF Part
<1>5. GotInv
  <2>1. <<>> \in Seq(Cells) /\ <<>> \in Seq(Seq(Cells))
    BY EmptySeq
  <2>2. got \in [Devices -> [Blobs -> Deliveries]]
    BY <1>3, <2>1 DEF Nothing, Deliveries
  <2>3. \A blob \in Blobs : 0 \in 0 .. files[blob]
    BY <1>1 DEF FilesInv, Blobs
  <2> QED
    BY <1>4, <2>2, <2>3 DEF GotInv
<1>6. RockTypes /\ TargetInv /\ SendingInv
  <2>1. <<>> \in Seq(Cells)
    BY EmptySeq
  <2> QED
    BY <1>3, <1>4, <2>1 DEF RockTypes, TargetInv, SendingInv, Idle, Blobs
<1> QED
  BY <1>1, <1>2, <1>5, <1>6 DEF MediaInv

LEMMA FrameKeeps ==
    ASSUME MediaInv, UNCHANGED <<files, bus, got>>
    PROVE  FilesInv' /\ (DOMAIN bus \subseteq Devices)' /\ GotInv'
<1>1. \A d, blob, n : Sent(d, blob, n)' = Sent(d, blob, n)
  BY DEF Sent, Cell
<1>2. \A d, blob, n : Part(d, blob, n)' <=> Part(d, blob, n)
  BY <1>1 DEF Part
<1>3. \A d, blob : Whole(d, blob)' <=> Whole(d, blob)
  BY <1>1 DEF Whole
<1>4. GotInv'
  BY <1>2, <1>3 DEF MediaInv, GotInv
<1> QED
  BY <1>4 DEF MediaInv, FilesInv

LEMMA DiscoverKeeps ==
    ASSUME MediaInv, Discover
    PROVE  MediaInv'
<1> USE DEF MediaInv
<1>1. UNCHANGED <<files, bus, got>> /\ rock.at = "idle" /\ rock = Idle
  BY DEF Discover, SendingInv
<1>2. FilesInv' /\ (DOMAIN bus \subseteq Devices)' /\ GotInv'
  BY <1>1, FrameKeeps
<1>3. rock.blob = "ddr" /\ \A d \in Devices, blob \in Blobs : Part(d, blob, 0)'
  BY <1>1 DEF Idle, SendingInv, Part, Sent, Cell
<1>4. CASE rock' = [rock EXCEPT !.at = "failed"]
  <2>1. RockTypes'
    BY <1>4 DEF RockTypes
  <2>2. rock'.at = "failed"
    BY <1>4 DEF RockTypes
  <2> QED
    BY <1>2, <2>1, <2>2 DEF TargetInv, SendingInv
<1>5. CASE /\ \E d \in Devices : Rockchips = {d} /\ bus[d] \in Socs
           /\ rock' = [rock EXCEPT !.at = "open", !.target = CHOOSE d \in Rockchips : TRUE]
  <2>1. PICK d \in Devices : Rockchips = {d} /\ bus[d] \in Socs
    BY <1>5
  <2>2. (CHOOSE c \in Rockchips : TRUE) = d
    BY <2>1
  <2>3. rock' = [rock EXCEPT !.at = "open", !.target = d]
    BY <1>5, <2>2
  <2>4. RockTypes'
    BY <2>3 DEF RockTypes
  <2>5. rock'.at = "open" /\ rock'.target = d /\ rock'.blob = "ddr"
    BY <1>3, <2>3 DEF RockTypes
  <2>6. TargetInv'
    BY <1>1, <2>1, <2>5 DEF TargetInv, Rockchips
  <2>7. SendingInv'
    BY <1>3, <2>5 DEF SendingInv, Blobs, Part
  <2> QED
    BY <1>2, <2>4, <2>6, <2>7
<1> QED
  BY <1>4, <1>5 DEF Discover

LEMMA OpenBlobKeeps ==
    ASSUME MediaInv, OpenBlob
    PROVE  MediaInv'
<1> USE DEF MediaInv
<1>1. UNCHANGED <<files, bus, got>> /\ rock.at = "open"
  BY DEF OpenBlob
<1>2. FilesInv' /\ (DOMAIN bus \subseteq Devices)' /\ GotInv'
  BY <1>1, FrameKeeps
<1>3. CASE rock' = [rock EXCEPT !.at = "failed"]
  <2>1. RockTypes' /\ rock'.at = "failed"
    BY <1>3 DEF RockTypes
  <2> QED
    BY <1>2, <2>1 DEF TargetInv, SendingInv
<1>4. CASE rock' = [rock EXCEPT !.at = "send", !.read = 0, !.key = 0, !.sum = <<>>]
  <2>1. <<>> \in Seq(Cells)
    BY EmptySeq
  <2>2. RockTypes'
    BY <1>4, <2>1 DEF RockTypes
  <2>3. /\ rock'.at = "send" /\ rock'.read = 0 /\ rock'.key = 0 /\ rock'.sum = <<>>
        /\ rock'.target = rock.target /\ rock'.blob = rock.blob /\ rock.blob \in Blobs
    BY <1>4 DEF RockTypes
  <2>4. TargetInv'
    BY <1>1, <2>3 DEF TargetInv, Rockchips
  <2>5. Part(rock.target, rock.blob, 0)
    BY <1>1 DEF SendingInv
  <2>6. Sent(rock.target, rock.blob, 0) = <<>>
    BY <2>3, SentCells, EmptySeq
  <2>7. 0 <= files[rock.blob]
    BY <2>3, FilesAreBytes
  <2>8. IF rock.blob = "ddr" THEN Part(rock.target, "os", 0) ELSE Whole(rock.target, "ddr")
    BY <1>1 DEF SendingInv
  <2>9. SendingInv'
    BY <1>1, <2>3, <2>5, <2>6, <2>7, <2>8 DEF SendingInv, Part, Whole, Sent, Cell
  <2> QED
    BY <1>2, <2>2, <2>4, <2>9
<1> QED
  BY <1>3, <1>4 DEF OpenBlob

\* Deliver of SendChunk
Deliver(t, b, data, sums) ==
    got' = [got EXCEPT ![t][b] = [data |-> @.data \o data, sums |-> @.sums \o sums]]

\* A transfer adds to what its device has of the file, and to nothing else.
Transfer(t, b, r, data, sums) ==
    /\ t \in Devices /\ b \in Blobs /\ r \in Nat /\ Part(t, b, r)
    /\ data \in Seq(Cells) /\ sums \in Seq(Seq(Cells))
    /\ Deliver(t, b, data, sums)

LEMMA TransferAdds ==
    ASSUME MediaInv, NEW t, NEW b, NEW r, NEW data, NEW sums, Transfer(t, b, r, data, sums)
    PROVE  /\ got' \in [Devices -> [Blobs -> Deliveries]]
           /\ got'[t][b] = [data |-> Sent(t, b, r) \o data, sums |-> sums]
           /\ \A d \in Devices, blob \in Blobs :
                d # t \/ blob # b => got'[d][blob] = got[d][blob]
<1> t \in Devices /\ b \in Blobs /\ r \in Nat /\ Part(t, b, r)
    /\ data \in Seq(Cells) /\ sums \in Seq(Seq(Cells))
    /\ Deliver(t, b, data, sums)
  BY DEF Transfer
<1>1. got \in [Devices -> [Blobs -> Deliveries]]
  BY DEF MediaInv, GotInv
<1> DEFINE s == Sent(t, b, r)
           g == [data |-> s \o data, sums |-> <<>> \o sums]
<1>2. got[t][b] = [data |-> s, sums |-> <<>>]
  BY DEF Part
<1>3. s \in Seq(Cells)
  BY SentCells
<1> HIDE DEF s
<1>4. got' = [got EXCEPT ![t][b] = g]
  <2>1. got[t][b].data = s /\ got[t][b].sums = <<>>
    BY <1>2
  <2> QED
    BY <2>1 DEF Deliver
<1>5. s \o data \in Seq(Cells) /\ <<>> \o sums = sums
  BY <1>3, ConcatProperties, ConcatEmptySeq
<1>6. g \in Deliveries /\ g = [data |-> s \o data, sums |-> sums]
  BY <1>5 DEF Deliveries
<1> HIDE DEF g
<1> DEFINE row == [got[t] EXCEPT ![b] = g]
<1>7. got' = [got EXCEPT ![t] = row]
  BY <1>4
<1>8. /\ row \in [Blobs -> Deliveries] /\ row[b] = g
      /\ \A blob \in Blobs \ {b} : row[blob] = got[t][blob]
  BY <1>1, <1>6
<1> HIDE DEF row
<1>9. /\ got' \in [Devices -> [Blobs -> Deliveries]] /\ got'[t] = row
      /\ \A d \in Devices \ {t} : got'[d] = got[d]
  BY <1>1, <1>7, <1>8
<1>10. \A d \in Devices, blob \in Blobs : d # t \/ blob # b => got'[d][blob] = got[d][blob]
  BY <1>8, <1>9
<1> QED
  BY <1>6, <1>8, <1>9, <1>10 DEF s

LEMMA SendChunkKeeps ==
    ASSUME MediaInv, SendChunk
    PROVE  MediaInv'
<1>0. SUFFICES ASSUME NEW t, NEW b, NEW r, NEW n, NEW chunk, NEW sum,
                    t = rock.target, b = rock.blob, r = rock.read,
                    n = IF files[b] - r < Chunk THEN files[b] - r ELSE Chunk,
                    chunk = Encode(SubSeq(File(b), r + 1, r + n)),
                    sum = Checksum(SubSeq(File(b), r + 1, r + n))
             PROVE  MediaInv'
  OBVIOUS
<1>1. /\ rock.at = "send" /\ UNCHANGED <<files, bus>>
      /\ \/ /\ n = Chunk
            /\ Deliver(t, b, chunk, <<>>)
            /\ rock' = [rock EXCEPT !.read = @ + n, !.key = @ + n, !.sum = sum]
         \/ /\ n < Chunk
            /\ Deliver(t, b, chunk, <<sum>>)
            /\ rock' = IF b = "ddr" THEN [rock EXCEPT !.at = "open", !.blob = "os"]
                                    ELSE [rock EXCEPT !.at = "done"]
         \/ /\ \E k \in 0 .. n : Deliver(t, b, SubSeq(chunk, 1, k), <<>>)
            /\ rock' = [rock EXCEPT !.at = "failed"]
  BY <1>0 DEF SendChunk, Deliver
<1>2. /\ RockTypes /\ t \in Devices /\ b \in Blobs /\ r \in Nat /\ files[b] \in Nat
      /\ Rockchips = {t} /\ bus[t] \in Socs
      /\ Chunk \in Nat \ {0}
  BY <1>0, <1>1, MediaAssumption, FilesAreBytes DEF MediaInv, RockTypes, TargetInv
<1>3. /\ r <= files[b] /\ rock.key = r /\ rock.sum = Sent(t, b, r) /\ Part(t, b, r)
      /\ IF b = "ddr" THEN Part(t, "os", 0) ELSE Whole(t, "ddr")
  BY <1>0, <1>1 DEF MediaInv, SendingInv
<1>4. n \in Nat /\ r + n <= files[b] /\ (n < Chunk => r + n = files[b]) /\ r + n \in Nat
  BY <1>0, <1>2, <1>3
<1>5. b \in Blobs /\ r \in Nat /\ n \in Nat /\ t \in Devices
  BY <1>2, <1>4
<1>6. Follows(chunk, t, b, r, n) /\ chunk \in Seq(Cells)
  <2>1. Follows(chunk, t, b, r, n)
    BY <1>0, <1>2, <1>3, <1>4, ChunksGoOn DEF MediaInv
  <2> QED
    BY <2>1 DEF Follows
<1>7. sum = Sent(t, b, r) \o chunk
  BY <1>0, <1>3 DEF Checksum
<1>8. Sent(t, b, r) \o chunk = Sent(t, b, r + n)
  <2>1. Extends(chunk, t, b, r, n)
    BY <1>5, <1>6, Zenon DEF Extends
  <2>2. Joins(chunk, t, b, r, n)
    BY <2>1, SentGrows, Zenon
  <2> QED
    BY <2>2, Zenon DEF Joins
<1>9. sum = Sent(t, b, r + n) /\ sum \in Seq(Cells)
  BY <1>2, <1>4, <1>7, <1>8, SentCells
<1>10. /\ \A d, blob, k : Sent(d, blob, k)' = Sent(d, blob, k)
      /\ FilesInv' /\ (DOMAIN bus \subseteq Devices)'
      /\ files' = files /\ bus' = bus /\ Rockchips' = Rockchips
  BY <1>1 DEF Sent, Cell, MediaInv, FilesInv, Rockchips
<1>11. <<>> \in Seq(Cells) /\ <<>> \in Seq(Seq(Cells))
  BY EmptySeq
<1>12. <<sum>> \in Seq(Seq(Cells))
  BY <1>9
<1>13. Part(t, b, r) /\ chunk \in Seq(Cells)
  BY <1>3, <1>6
<1> DEFINE Others == \A d \in Devices, blob \in Blobs :
                        d # t \/ blob # b => got'[d][blob] = got[d][blob]
<1>14. ASSUME Others, Whole(t, b)' \/ \E k \in 0 .. files[b] : Part(t, b, k)',
              got' \in [Devices -> [Blobs -> Deliveries]]
       PROVE  GotInv'
  <2>1. ASSUME NEW d \in Devices, NEW blob \in Blobs
        PROVE  Whole(d, blob)' \/ \E k \in 0 .. files[blob] : Part(d, blob, k)'
    <3>1. CASE d = t /\ blob = b
      BY <1>14, <3>1
    <3>2. CASE d # t \/ blob # b
      <4>1. got'[d][blob] = got[d][blob]
        BY <1>14, <3>2
      <4>2. Whole(d, blob) \/ \E k \in 0 .. files[blob] : Part(d, blob, k)
        BY DEF MediaInv, GotInv
      <4> QED
        BY <1>10, <4>1, <4>2 DEF Whole, Part
    <3> QED
      BY <3>1, <3>2
  <2> QED
    BY <1>10, <1>14, <2>1 DEF GotInv
<1>15. CASE /\ n = Chunk
            /\ Deliver(t, b, chunk, <<>>)
            /\ rock' = [rock EXCEPT !.read = @ + n, !.key = @ + n, !.sum = sum]
  <2>1. /\ got' \in [Devices -> [Blobs -> Deliveries]] /\ Others
        /\ got'[t][b] = [data |-> Sent(t, b, r) \o chunk, sums |-> <<>>]
    <3>1. Transfer(t, b, r, chunk, <<>>)
      BY <1>5, <1>11, <1>13, <1>15 DEF Transfer
    <3> QED
      BY <3>1, TransferAdds
  <2>2. Part(t, b, r + n)'
    BY <1>8, <1>10, <2>1 DEF Part
  <2>3. GotInv'
    BY <1>4, <1>14, <2>1, <2>2
  <2>4. /\ rock'.at = "send" /\ rock'.target = t /\ rock'.blob = b
        /\ rock'.read = r + n /\ rock'.key = r + n /\ rock'.sum = sum
    BY <1>0, <1>1, <1>2, <1>3, <1>15 DEF RockTypes
  <2>5. RockTypes'
    BY <1>0, <1>2, <1>3, <1>4, <1>9, <1>15 DEF RockTypes
  <2>6. TargetInv'
    BY <1>2, <1>10, <2>4 DEF TargetInv
  <2>7. IF b = "ddr" THEN Part(t, "os", 0)' ELSE Whole(t, "ddr")'
    BY <1>2, <1>3, <1>10, <2>1 DEF Part, Whole, Blobs
  <2>8. SendingInv'
    <3>1. Part(t, b, r + n)' /\ r + n <= files'[b] /\ sum = Sent(t, b, r + n)'
      BY <1>4, <1>9, <1>10, <2>2
    <3> QED
      BY <2>4, <2>7, <3>1 DEF SendingInv, Part, Whole, Sent, Cell
  <2> QED
    BY <1>10, <2>3, <2>5, <2>6, <2>8 DEF MediaInv
<1>16. CASE /\ n < Chunk
            /\ Deliver(t, b, chunk, <<sum>>)
            /\ rock' = IF b = "ddr" THEN [rock EXCEPT !.at = "open", !.blob = "os"]
                                    ELSE [rock EXCEPT !.at = "done"]
  <2>1. /\ got' \in [Devices -> [Blobs -> Deliveries]] /\ Others
        /\ got'[t][b] = [data |-> Sent(t, b, r) \o chunk, sums |-> <<sum>>]
    <3>1. Transfer(t, b, r, chunk, <<sum>>)
      BY <1>5, <1>12, <1>13, <1>16 DEF Transfer
    <3> QED
      BY <3>1, TransferAdds
  <2>2. Whole(t, b)'
    BY <1>4, <1>8, <1>9, <1>10, <1>16, <2>1 DEF Whole
  <2>3. GotInv'
    BY <1>14, <2>1, <2>2
  <2>4. CASE b = "ddr"
    <3>1. rock' = [rock EXCEPT !.at = "open", !.blob = "os"]
      BY <1>16, <2>4
    <3>2. RockTypes' /\ rock'.at = "open" /\ rock'.blob = "os" /\ rock'.target = t
      BY <1>0, <1>2, <3>1 DEF RockTypes, Blobs
    <3>3. TargetInv'
      BY <1>2, <1>10, <3>2 DEF TargetInv
    <3>4. Part(t, "os", 0)'
      BY <1>2, <1>3, <1>10, <2>1, <2>4 DEF Part, Blobs
    <3>5. SendingInv'
      BY <2>2, <2>4, <3>2, <3>4 DEF SendingInv, Part, Whole, Sent, Cell
    <3> QED
      BY <1>10, <2>3, <3>2, <3>3, <3>5 DEF MediaInv
  <2>5. CASE b # "ddr"
    <3>1. rock' = [rock EXCEPT !.at = "done"] /\ b = "os"
      BY <1>2, <1>16, <2>5 DEF Blobs
    <3>2. RockTypes' /\ rock'.at = "done" /\ rock'.target = t
      BY <1>0, <1>2, <3>1 DEF RockTypes
    <3>3. TargetInv'
      BY <1>2, <1>10, <3>2 DEF TargetInv
    <3>4. Whole(t, "ddr")'
      BY <1>2, <1>3, <1>10, <2>1, <2>5 DEF Whole, Blobs
    <3>5. \A blob \in Blobs : Whole(t, blob)'
      BY <2>2, <3>1, <3>4 DEF Blobs
    <3>6. SendingInv'
      BY <3>2, <3>5 DEF SendingInv, Whole, Sent, Cell
    <3> QED
      BY <1>10, <2>3, <3>2, <3>3, <3>6 DEF MediaInv
  <2> QED
    BY <2>4, <2>5
<1>17. CASE /\ \E k \in 0 .. n : Deliver(t, b, SubSeq(chunk, 1, k), <<>>)
            /\ rock' = [rock EXCEPT !.at = "failed"]
  <2>1. PICK k \in 0 .. n : Deliver(t, b, SubSeq(chunk, 1, k), <<>>)
    BY <1>17
  <2>part. SUFFICES ASSUME NEW part, part = SubSeq(chunk, 1, k)
                    PROVE  MediaInv'
    OBVIOUS
  <2>2. k \in Nat /\ k <= n /\ r + k <= files[b] /\ r + k \in Nat
    BY <1>2, <1>4
  <2>3. Follows(part, t, b, r, k) /\ part \in Seq(Cells)
    <3>1. \A i \in 1 .. k : chunk[i] \in Cells /\ chunk[i] = Cell(t, b, r + i)
      BY <1>4, <1>6, <2>2, ElementOfSeq DEF Follows
    <3>2. k - 1 + 1 = k /\ (IF 1 <= k THEN k - 1 + 1 ELSE 0) = k /\ k \in Int
      BY <2>2
    <3>3. /\ part \in Seq(Cells)
          /\ Len(part) = IF 1 <= k THEN k - 1 + 1 ELSE 0
          /\ \A i \in 1 .. k - 1 + 1 : part[i] = chunk[1 + i - 1]
      BY <3>1, <3>2, <2>part, SubSeqProperties
    <3>4. \A i \in 1 .. k : 1 + i - 1 = i
      OBVIOUS
    <3> QED
      BY <3>1, <3>2, <3>3, <3>4 DEF Follows
  <2>4. Sent(t, b, r) \o part = Sent(t, b, r + k)
    <3>1. Extends(part, t, b, r, k)
      BY <1>5, <2>2, <2>3, Zenon DEF Extends
    <3>2. Joins(part, t, b, r, k)
      BY <3>1, SentGrows, Zenon
    <3> QED
      BY <3>2, Zenon DEF Joins
  <2>5. /\ got' \in [Devices -> [Blobs -> Deliveries]] /\ Others
        /\ got'[t][b] = [data |-> Sent(t, b, r) \o part, sums |-> <<>>]
    <3>1. Transfer(t, b, r, part, <<>>)
      BY <1>5, <1>11, <1>13, <2>1, <2>3, <2>part DEF Transfer
    <3> QED
      BY <3>1, TransferAdds
  <2>6. Part(t, b, r + k)' /\ r + k \in 0 .. files[b]
    <3>1. got'[t][b] = [data |-> Sent(t, b, r + k), sums |-> <<>>]
      BY <2>4, <2>5
    <3>2. Sent(t, b, r + k)' = Sent(t, b, r + k)
      BY <1>10
    <3> QED
      BY <1>2, <2>2, <3>1, <3>2 DEF Part
  <2>7. GotInv'
    BY <1>14, <2>5, <2>6
  <2>8. RockTypes' /\ rock'.at = "failed"
    BY <1>2, <1>17 DEF RockTypes
  <2> QED
    BY <1>10, <2>7, <2>8 DEF MediaInv, TargetInv, SendingInv
<1> QED
  BY <1>1, <1>15, <1>16, <1>17

LEMMA MediaRests ==
    ASSUME MediaInv, UNCHANGED mediaVars
    PROVE  MediaInv'
<1>1. /\ files' = files /\ bus' = bus /\ got' = got /\ rock' = rock
      /\ FilesInv' /\ (DOMAIN bus \subseteq Devices)' /\ GotInv'
  BY FrameKeeps DEF mediaVars
<1>2. \A d, blob, n : Sent(d, blob, n)' = Sent(d, blob, n)
  BY <1>1 DEF Sent, Cell
<1>3. RockTypes' /\ TargetInv'
  BY <1>1 DEF MediaInv, RockTypes, TargetInv, Rockchips
<1>4. \A d, blob, n : Part(d, blob, n)' <=> Part(d, blob, n)
  BY <1>1, <1>2 DEF Part
<1>5. \A d, blob : Whole(d, blob)' <=> Whole(d, blob)
  BY <1>1, <1>2 DEF Whole
<1>6. SendingInv'
  BY <1>1, <1>2, <1>4, <1>5 DEF MediaInv, SendingInv
<1> QED
  BY <1>1, <1>3, <1>6 DEF MediaInv

\* What a ROM has whole it decodes to the file.
LEMMA RomDecodes ==
    ASSUME FilesInv, NEW d \in Devices, NEW blob \in Blobs, Whole(d, blob)
    PROVE  Has(d, blob) /\ Decoded(d, blob) = File(blob)
<1> DEFINE n == files[blob]
           data == Sent(d, blob, n)
           f == File(blob)
<1>1. n \in Nat /\ f \in Seq(Bytes) /\ Len(f) = n /\ \A i \in 1 .. n : f[i] = Byte(blob, i)
  BY FilesAreBytes
<1>2. data \in Seq(Cells) /\ Len(data) = n /\ \A i \in 1 .. n : data[i] = Cell(d, blob, i)
  BY <1>1, SentCells
<1>3. got[d][blob].data = data /\ got[d][blob].sums = <<data>>
  BY DEF Whole
<1>4. DOMAIN data = 1 .. n /\ f = [i \in 1 .. n |-> Byte(blob, i)]
  BY <1>1, <1>2 DEF File
<1> HIDE DEF data, n, f
<1>5. \A i \in 1 .. n : /\ data[i].key = (IF bus[d] = "rk3399" THEN i ELSE 0)
                        /\ data[i].byte = Byte(blob, i)
  BY <1>2 DEF Cell
<1>6. Decoded(d, blob) =
        [i \in 1 .. n |-> IF data[i].key = [j \in 1 .. n |-> IF bus[d] = "rk3399" THEN j ELSE 0][i]
                          THEN data[i].byte ELSE Blank]
  BY <1>3, <1>4 DEF Decoded
<1>7. Decoded(d, blob) = [i \in 1 .. n |-> Byte(blob, i)]
  BY <1>5, <1>6
<1>8. Has(d, blob)
  BY <1>3 DEF Has
<1> QED
  BY <1>4, <1>7, <1>8 DEF f

\* It has a file only when that is whole.
LEMMA RomHasWhole ==
    ASSUME MediaInv, NEW d \in Devices, NEW blob \in Blobs, Has(d, blob)
    PROVE  Whole(d, blob)
<1>1. ASSUME NEW n, Part(d, blob, n)
      PROVE  FALSE
  <2>1. got[d][blob].sums = <<>>
    BY <1>1 DEF Part
  <2>2. \A x : <<x>> # <<>>
    OBVIOUS
  <2>3. <<got[d][blob].data>> = <<>>
    BY <2>1 DEF Has
  <2> QED
    BY <2>2, <2>3, Zenon
<1> QED
  BY <1>1 DEF MediaInv, GotInv

-----------------------------------------------------------------------------
(***************************************************************************)
(* The ROM and the host                                                    *)
(***************************************************************************)
CodeInv ==
    /\ way \in {"image", "usb"} /\ code = [blob \in Blobs |-> code[blob]]
    /\ RunsWhatWasBuilt
    /\ rock.at = "done" => way = "usb" /\ (rock.target = "board" => code.ddr = File("ddr"))

DeliveryInv == MediaInv /\ CodeInv

LEMMA WantedIsBlob == Wanted \in Blobs
  BY DEF Wanted, Blobs

LEMMA RunKeeps ==
    ASSUME DeliveryInv, UNCHANGED <<mediaVars, way, board>>, NEW data,
           way = "usb" => data = File(Wanted),
           way = "image" => (HeaderHolds(Version) => IsPrefix(File(Wanted), data)),
           code' = [code EXCEPT ![Wanted] = data]
    PROVE  DeliveryInv'
<1>1. MediaInv'
  BY MediaRests DEF DeliveryInv
<1>2. files' = files /\ rock' = rock /\ way' = way /\ board' = board
  BY DEF mediaVars
<1>3. /\ \A blob : File(blob)' = File(blob)
      /\ Version' = Version
  BY <1>2 DEF File, Version
<1>4. HeaderHolds(Version)' <=> HeaderHolds(Version)
  BY <1>2, <1>3 DEF HeaderHolds, InitSectors, OsSectors, Version
<1>5. /\ code' = [blob \in Blobs |-> code'[blob]]
      /\ code'[Wanted] = data
      /\ \A blob \in Blobs : blob # Wanted => code'[blob] = code[blob]
  BY WantedIsBlob DEF DeliveryInv, CodeInv
<1>6. RunsWhatWasBuilt'
  <2>1. ASSUME NEW blob \in Blobs, code'[blob] # None
        PROVE  IF way = "usb" THEN code'[blob] = File(blob)
               ELSE HeaderHolds(Version) => IsPrefix(File(blob), code'[blob])
    <3>1. CASE blob = Wanted
      BY <1>5, <3>1 DEF DeliveryInv, CodeInv
    <3>2. CASE blob # Wanted
      BY <1>5, <2>1, <3>2 DEF DeliveryInv, CodeInv, RunsWhatWasBuilt
    <3> QED
      BY <3>1, <3>2
  <2> QED
    BY <1>2, <1>3, <1>4, <2>1 DEF RunsWhatWasBuilt
<1>7. (rock.at = "done" => way = "usb" /\ (rock.target = "board" => code.ddr = File("ddr")))'
  <2>1. SUFFICES ASSUME rock.at = "done"
                 PROVE  way = "usb" /\ (rock.target = "board" => code'.ddr = File("ddr"))
    BY <1>2, <1>3
  <2>2. way = "usb" /\ (rock.target = "board" => code.ddr = File("ddr"))
    BY <2>1 DEF DeliveryInv, CodeInv
  <2>3. CASE Wanted = "ddr"
    BY <1>5, <2>2, <2>3
  <2>4. CASE Wanted # "ddr"
    BY <1>5, <2>2, <2>4 DEF Blobs
  <2> QED
    BY <2>3, <2>4
<1> QED
  BY <1>1, <1>2, <1>5, <1>6, <1>7 DEF DeliveryInv, CodeInv

LEMMA FrameKeepsCode ==
    ASSUME CodeInv, UNCHANGED <<files, way, board, code>>,
           rock'.at = "done" => rock' = rock
    PROVE  CodeInv'
<1>1. /\ \A blob : File(blob)' = File(blob)
      /\ Version' = Version
      /\ files' = files /\ way' = way /\ code' = code
  BY DEF File, Version
<1>2. HeaderHolds(Version)' <=> HeaderHolds(Version)
  BY <1>1 DEF HeaderHolds, InitSectors, OsSectors, Version
<1>3. RunsWhatWasBuilt'
  BY <1>1, <1>2 DEF CodeInv, RunsWhatWasBuilt
<1> QED
  BY <1>1, <1>3 DEF CodeInv

LEMMA HostKeeps ==
    ASSUME DeliveryInv, Host
    PROVE  DeliveryInv'
<1> USE DEF DeliveryInv
<1>1. way = "usb" /\ UNCHANGED <<board, way, code>>
  BY DEF Host, boardVars
<1>2. CASE Discover
  <2>1. rock'.at # "done" /\ files' = files
    BY <1>2 DEF Discover, MediaInv, RockTypes
  <2> QED
    BY <1>1, <1>2, <2>1, DiscoverKeeps, FrameKeepsCode
<1>3. CASE OpenBlob
  <2>1. rock'.at # "done" /\ files' = files
    BY <1>3 DEF OpenBlob, MediaInv, RockTypes
  <2> QED
    BY <1>1, <1>3, <2>1, OpenBlobKeeps, FrameKeepsCode
<1>4. CASE Answered /\ SendChunk
  <2>1. rock.at = "send" /\ files' = files
    BY <1>4 DEF SendChunk
  <2>2. MediaInv'
    BY <1>4, SendChunkKeeps
  <2>3. rock'.at = "done" => rock.blob = "os" /\ rock'.target = rock.target
    <3>1. \/ rock' = [rock EXCEPT !.at = "open", !.blob = "os"]
          \/ rock.blob # "ddr" /\ rock' = [rock EXCEPT !.at = "done"]
          \/ rock' = [rock EXCEPT !.at = "failed"]
          \/ rock'.at = "send"
      <4> DEFINE b == rock.blob
                 r == rock.read
                 n == IF files[b] - r < Chunk THEN files[b] - r ELSE Chunk
                 sum == Checksum(SubSeq(File(b), r + 1, r + n))
      <4>1. \/ rock' = [rock EXCEPT !.read = @ + n, !.key = @ + n, !.sum = sum]
            \/ rock' = IF rock.blob = "ddr" THEN [rock EXCEPT !.at = "open", !.blob = "os"]
                                            ELSE [rock EXCEPT !.at = "done"]
            \/ rock' = [rock EXCEPT !.at = "failed"]
        BY <1>4 DEF SendChunk
      <4> HIDE DEF n, sum
      <4>2. [rock EXCEPT !.read = @ + n, !.key = @ + n, !.sum = sum].at = rock.at
        BY DEF MediaInv, RockTypes
      <4>3. CASE rock' = [rock EXCEPT !.read = @ + n, !.key = @ + n, !.sum = sum]
        BY <2>1, <4>2, <4>3
      <4>4. CASE rock' = IF rock.blob = "ddr" THEN [rock EXCEPT !.at = "open", !.blob = "os"]
                                              ELSE [rock EXCEPT !.at = "done"]
        BY <4>4
      <4> QED
        BY <4>1, <4>3, <4>4
    <3> QED
      BY <3>1 DEF MediaInv, RockTypes, Blobs
  <2>4. rock.target = "board" => (rock.blob = "os" => code.ddr = File("ddr"))
    <3>1. SUFFICES ASSUME rock.target = "board", rock.blob = "os"
                   PROVE  code.ddr = File("ddr")
      OBVIOUS
    <3>2. Wanted = "os"
      BY <1>4, <2>1, <3>1 DEF Answered
    <3>3. code.ddr # None
      BY <3>2 DEF Wanted
    <3> QED
      BY <1>1, <3>3 DEF CodeInv, RunsWhatWasBuilt, Blobs
  <2>5. CodeInv'
    <3>1. File("ddr")' = File("ddr")
      BY <2>1 DEF File
    <3>2. RunsWhatWasBuilt'
      <4>1. HeaderHolds(Version)' <=> HeaderHolds(Version)
        BY <1>1, <2>1 DEF HeaderHolds, InitSectors, OsSectors, Version
      <4>2. \A blob : File(blob)' = File(blob)
        BY <2>1 DEF File
      <4> QED
        BY <1>1, <4>1, <4>2 DEF CodeInv, RunsWhatWasBuilt
    <3> QED
      BY <1>1, <2>3, <2>4, <3>1, <3>2 DEF CodeInv
  <2> QED
    BY <2>2, <2>5
<1> QED
  BY <1>2, <1>3, <1>4 DEF Host

\* The programs of the board go on as they were loaded.
LEMMA DeliveryInvariant == Spec => []DeliveryInv
<1>1. Init => DeliveryInv
  <2> SUFFICES ASSUME Init
               PROVE  DeliveryInv
    OBVIOUS
  <2>1. MediaInv
    BY MediaInitHolds DEF Init
  <2>2. rock.at = "idle"
    BY DEF Init, MediaInit, Idle
  <2>3. way \in {"image", "usb"} /\ code = [blob \in Blobs |-> None]
    BY DEF Init
  <2> QED
    BY <2>1, <2>2, <2>3 DEF DeliveryInv, CodeInv, RunsWhatWasBuilt
<1>2. DeliveryInv /\ [Next]_vars => DeliveryInv'
  <2> SUFFICES ASSUME DeliveryInv, [Next]_vars
               PROVE  DeliveryInv'
    OBVIOUS
  <2>1. ASSUME NEW data, Run(Wanted, data)
        PROVE  UNCHANGED <<mediaVars, way, board>> /\ code' = [code EXCEPT ![Wanted] = data]
    BY <2>1 DEF Run, Start
  <2>2. CASE LoadImage
    <3>1. way = "image" /\ Run(Wanted, Extent(Version, Wanted))
      BY <2>2 DEF LoadImage
    <3>2. HeaderHolds(Version) => IsPrefix(File(Wanted), Extent(Version, Wanted))
      <4>1. Version \in {1, 2}
        BY DEF Version
      <4> QED
        BY <4>1, ImagesHoldTheFiles, WantedIsBlob DEF DeliveryInv, MediaInv
    <3> QED
      BY <2>1, <3>1, <3>2, RunKeeps
  <2>3. CASE LoadUsb
    <3>1. way = "usb" /\ Has("board", Wanted) /\ Run(Wanted, Decoded("board", Wanted))
      BY <2>3 DEF LoadUsb
    <3>2. Whole("board", Wanted)
      BY <3>1, BoardAssumption, RomHasWhole, WantedIsBlob DEF DeliveryInv
    <3>3. Decoded("board", Wanted) = File(Wanted)
      BY <3>2, BoardAssumption, RomDecodes, WantedIsBlob DEF DeliveryInv, MediaInv
    <3> QED
      BY <2>1, <3>1, <3>3, RunKeeps
  <2>4. CASE Host
    BY <2>4, HostKeeps
  <2>5. ASSUME UNCHANGED <<mediaVars, way, code>>, board' = board
        PROVE  DeliveryInv'
    <3>1. MediaInv' /\ rock' = rock /\ files' = files
      BY <2>5, MediaRests DEF DeliveryInv, mediaVars
    <3> QED
      BY <2>5, <3>1, FrameKeepsCode DEF DeliveryInv
  <2>6. CASE Board
    <3>1. board' = board
      BY <2>6 DEF Board, Do, Leave, Begin, Read, Finish
    <3> QED
      BY <2>5, <2>6, <3>1 DEF Board
  <2>7. CASE Environment
    BY <2>5, <2>7 DEF Environment, Hardware
  <2>8. CASE UNCHANGED vars
    BY <2>5, <2>8 DEF vars, mediaVars
  <2> QED
    BY <2>2, <2>3, <2>4, <2>6, <2>7, <2>8 DEF Next
<1> QED
  BY <1>1, <1>2, PTL DEF Spec

\* What a ROM runs is what was built, in files, sectors, counts and transfers of any size
\* (rock.c send_blob, makeboot.c make_v1, make_v2).
THEOREM RomRunsTheFiles == Spec => []RunsWhatWasBuilt
<1>1. DeliveryInv => RunsWhatWasBuilt
  BY DEF DeliveryInv, CodeInv
<1> QED
  BY <1>1, DeliveryInvariant, PTL

\* When rock ends well, the one device it knows on the bus has both files whole, and its ROM
\* ran the initialiser before the firmware was sent (rock.c main, send_blob).
THEOREM DoneMeansDelivered == Spec => []ExitMeansDelivered
<1>1. DeliveryInv => ExitMeansDelivered
  <2> SUFFICES ASSUME DeliveryInv, rock.at = "done"
               PROVE  /\ \A blob \in Blobs : /\ Has(rock.target, blob)
                                             /\ Decoded(rock.target, blob) = File(blob)
                      /\ rock.target = "board" => code.ddr = File("ddr")
                      /\ Rockchips = {rock.target} /\ bus[rock.target] \in Socs
    BY DEF ExitMeansDelivered
  <2>1. \A blob \in Blobs : Whole(rock.target, blob)
    BY DEF DeliveryInv, MediaInv, SendingInv
  <2>2. rock.target \in Devices /\ Rockchips = {rock.target} /\ bus[rock.target] \in Socs
    BY DEF DeliveryInv, MediaInv, TargetInv
  <2>3. \A blob \in Blobs : /\ Has(rock.target, blob)
                            /\ Decoded(rock.target, blob) = File(blob)
    BY <2>1, <2>2, RomDecodes DEF DeliveryInv, MediaInv
  <2> QED
    BY <2>2, <2>3 DEF DeliveryInv, CodeInv
<1> QED
  BY <1>1, DeliveryInvariant, PTL

-----------------------------------------------------------------------------
(***************************************************************************)
(* The displays.  The programs with a display, step by step                *)
(***************************************************************************)
LEMMA GenbookSteps ==
    /\ DOMAIN Genbook = 1 .. 19
    /\ Genbook[1] = "pins" /\ Genbook[2] = "sgrf" /\ Genbook[3] = "version"
    /\ Genbook[4] = "PHP" /\ Genbook[5] = "PHP_mem" /\ Genbook[6] = "SECURE"
    /\ Genbook[7] = "VOP" /\ Genbook[8] = "VOP_mem" /\ Genbook[9] = "VO1"
    /\ Genbook[10] = "VO1_mem" /\ Genbook[11] = "vop2" /\ Genbook[12] = "V0PLL"
    /\ Genbook[13] = "scanout" /\ Genbook[14] = "HPD" /\ Genbook[15] = "EDP_PLL"
    /\ Genbook[16] = "EDP_LOCK" /\ Genbook[17] = "CLOCK" /\ Genbook[18] = "STREAM"
    /\ Genbook[19] = "payload"
  BY DEF Genbook, SgrfInit, PowerDomains, SetupVideo, Vop2Init, StartVideo,
         EdpInit, EdpEnable

LEMMA Rk356xSteps ==
    /\ DOMAIN Rk356xFirmware = 1 .. 15
    /\ Rk356xFirmware[1] = "pins" /\ Rk356xFirmware[2] = "VO" /\ Rk356xFirmware[3] = "DCLK"
    /\ Rk356xFirmware[4] = "scanout" /\ Rk356xFirmware[5] = "video" /\ Rk356xFirmware[6] = "PHY1_drop"
    /\ Rk356xFirmware[7] = "PHY1_i2c" /\ Rk356xFirmware[8] = "PHY1_lock" /\ Rk356xFirmware[9] = "PHY2_drop"
    /\ Rk356xFirmware[10] = "PHY2_i2c" /\ Rk356xFirmware[11] = "PHY2_lock" /\ Rk356xFirmware[12] = "active"
    /\ Rk356xFirmware[13] = "input" /\ Rk356xFirmware[14] = "usb" /\ Rk356xFirmware[15] = "payload"
  BY DEF Rk356xFirmware, UsbInit, DisplayInit, DisplayClocks, Vop2Setup, HdmiVideo,
         PhySetup

LEMMA MainProgram ==
    ASSUME stage = "main"
    PROVE  /\ Running
           /\ board = "genbook" => Program = Genbook
           /\ board = "rk356x" => Program = Rk356xFirmware
  BY DEF Program, Programs, Running

LEMMA Lists ==
    /\ Rk3399Plls = {"APLL_L", "APLL_B", "GPLL", "CPLL", "DPLL_400", "DPLL_800", "DPLL_48", "VPLL"}
    /\ Pctls = {"PCTL_1", "PCTL_2", "PCTL_3", "PCTL_4"}
    /\ Range(PowerDomains) =
         {"version", "PHP", "PHP_mem", "SECURE", "VOP", "VOP_mem", "VO1", "VO1_mem"}
    /\ Range(EdpEnable) = {"EDP_LOCK", "CLOCK", "STREAM"}
    /\ Range(EdpInit) = {"HPD", "EDP_PLL"}
    /\ Range(PowerDomains \o EdpInit \o EdpEnable) =
         {"version", "PHP", "PHP_mem", "SECURE", "VOP", "VOP_mem", "VO1", "VO1_mem",
          "HPD", "EDP_PLL", "EDP_LOCK", "CLOCK", "STREAM"}
    /\ Display = {"VO", "DCLK", "PHY1_drop", "PHY1_i2c", "PHY1_lock", "PHY2_drop", "PHY2_i2c",
                  "PHY2_lock"}
    /\ Domains = {"PHP", "SECURE", "VOP", "VO1"}
<1>1. /\ Rk3399Plls =
            {"APLL_L", "APLL_B", "GPLL", "CPLL", "DPLL_400", "DPLL_800", "DPLL_48", "VPLL"}
      /\ Pctls = {"PCTL_1", "PCTL_2", "PCTL_3", "PCTL_4"}
  BY DEF Rk3399Plls, Clusters, Rk3399Frequencies, Pctls, Rk3399Passes, Range
<1>2. /\ Range(PowerDomains) =
            {"version", "PHP", "PHP_mem", "SECURE", "VOP", "VOP_mem", "VO1", "VO1_mem"}
      /\ Range(EdpEnable) = {"EDP_LOCK", "CLOCK", "STREAM"}
      /\ Range(EdpInit) = {"HPD", "EDP_PLL"}
  BY DEF PowerDomains, EdpEnable, EdpInit, Range
<1>3. Range(PowerDomains \o EdpInit \o EdpEnable) =
         {"version", "PHP", "PHP_mem", "SECURE", "VOP", "VOP_mem", "VO1", "VO1_mem",
          "HPD", "EDP_PLL", "EDP_LOCK", "CLOCK", "STREAM"}
  BY DEF PowerDomains, EdpEnable, EdpInit, Range
<1>4. /\ Display = {"VO", "DCLK", "PHY1_drop", "PHY1_i2c", "PHY1_lock", "PHY2_drop",
                    "PHY2_i2c", "PHY2_lock"}
      /\ Domains = {"PHP", "SECURE", "VOP", "VO1"}
  BY DEF Display, PhySetup, Range, Domains, PdConfig
<1> QED
  BY <1>1, <1>2, <1>3, <1>4

\* How many waits a power domain that is on already skips.
LEMMA DomainSizes ==
    /\ Cardinality(PdConfig["PHP"]) = 2 /\ Cardinality(PdConfig["SECURE"]) = 1
    /\ Cardinality(PdConfig["VOP"]) = 2 /\ Cardinality(PdConfig["VO1"]) = 2
<1>1. ASSUME NEW x, NEW y, x # y
      PROVE  Cardinality({x, y}) = 2
  <2>1. IsFiniteSet({x}) /\ Cardinality({x}) = 1
    BY FS_Singleton
  <2>2. Cardinality({x} \cup {y}) = 1 + 1 /\ {x} \cup {y} = {x, y}
    BY <1>1, <2>1, FS_AddElement
  <2> QED
    BY <2>2
<1>2. /\ PdConfig["PHP"] = {"PHP", "PHP_mem"} /\ PdConfig["SECURE"] = {"SECURE"}
      /\ PdConfig["VOP"] = {"VOP", "VOP_mem"} /\ PdConfig["VO1"] = {"VO1", "VO1_mem"}
  BY DEF PdConfig
<1>3. /\ Cardinality({"PHP", "PHP_mem"}) = 2 /\ Cardinality({"VOP", "VOP_mem"}) = 2
      /\ Cardinality({"VO1", "VO1_mem"}) = 2
  <2>1. "PHP" # "PHP_mem" /\ "VOP" # "VOP_mem" /\ "VO1" # "VO1_mem"
    OBVIOUS
  <2> QED
    BY <1>1, <2>1, Zenon
<1>4. Cardinality({"SECURE"}) = 1
  BY FS_Singleton
<1> QED
  BY <1>2, <1>3, <1>4

\* Result of some log
ResultIn(results, step) == IF step \in DOMAIN results THEN results[step] ELSE "none"

LEMMA LoggedResults ==
    ASSUME NEW steps, NEW r, log' = Logged(steps, r)
    PROVE  /\ \A step \in steps : ResultIn(log', step) = r
           /\ \A step : step \notin steps => ResultIn(log', step) = ResultIn(log, step)
           /\ DOMAIN log' = steps \cup DOMAIN log
  BY DEF Logged, ResultIn

LEMMA LoggedResult ==
    ASSUME NEW step, NEW r, log' = Logged({step}, r)
    PROVE  /\ ResultIn(log', step) = r
           /\ \A s : s # step => ResultIn(log', s) = ResultIn(log, s)
<1>1. /\ \A s \in {step} : ResultIn(log', s) = r
      /\ \A s : s \notin {step} => ResultIn(log', s) = ResultIn(log, s)
  BY LoggedResults
<1> QED
  BY <1>1

\* The ways a loop goes on or ends.
LEMMA Turn ==
    ASSUME Read
    PROVE  \/ UNCHANGED <<board, stage, at, bit, log>>
           \/ bit \in {"on", "old"} /\ Wait(Step).last = "failed" /\ Finish("failed", "late")
           \/ bit \in {"on", "old"} /\ Finish("ok", bit)
           \/ bit = "error" /\ Finish("failed", "error")
           \/ bit = "off" /\ Finish(Wait(Step).never, "off")
  BY DEF Read

\* The bits a loop of the Genbook starts with.
LEMMA GenbookWaits ==
    \A step \in {"version", "PHP", "PHP_mem", "SECURE", "VOP", "VOP_mem", "VO1", "VO1_mem",
                "V0PLL", "HPD", "EDP_PLL", "EDP_LOCK", "CLOCK", "STREAM"} :
        Wait(step).found \subseteq {"off", "on"}
<1>1. /\ \A step \in Domains : Wait(step) = PowerUp
      /\ \A step \in Memories : Wait(step) = PowerUpMemory
      /\ Wait("version") = PmuVersion /\ Wait("V0PLL") = Rk3588SetPll /\ Wait("HPD") = EdpHpd
      /\ Wait("EDP_PLL") = EdpPll /\ Wait("EDP_LOCK") = EdpLock /\ Wait("CLOCK") = EdpClock
      /\ Wait("STREAM") = EdpStream
  BY Lists DEF Wait, Memories
<1>2. \A w \in {PowerUp, PowerUpMemory, PmuVersion, Rk3588SetPll, EdpHpd, EdpPll, EdpLock, EdpClock,
              EdpStream} : w.found \subseteq {"off", "on"}
  BY DEF PowerUp, PowerUpMemory, PmuVersion, Rk3588SetPll, CountedDown, EdpHpd, EdpPll, EdpLock,
         EdpClock, EdpStream
<1> QED
  BY <1>1, <1>2, Lists DEF Memories

\* How the waits of an RK356x board end.
LEMMA Rk356xWaits ==
    /\ \A step \in {"VO", "DCLK", "PHY1_i2c", "PHY2_i2c"} :
        /\ Wait(step).found \subseteq {"off", "on"} /\ Wait(step).last = "ok"
        /\ Wait(step).never = "failed"
    /\ \A step \in {"PHY1_drop", "PHY2_drop"} :
        Wait(step).found \subseteq {"off", "on"} /\ Wait(step).last = "ok"
    /\ \A step \in {"PHY1_lock", "PHY2_lock"} :
        /\ Wait(step).last = "ok" /\ Wait(step).never = "failed"
        /\ Wait(step).found \subseteq {"off", "old"}
    /\ "old" \in Wait("PHY1_lock").found => Result("PHY1_drop") = "off"
    /\ "old" \in Wait("PHY2_lock").found => Result("PHY2_drop") = "off"
<1>1. /\ Wait("PHY1_i2c") = PhyI2cWrite /\ Wait("PHY2_i2c") = PhyI2cWrite
      /\ Wait("PHY1_drop") = PhyDrop /\ Wait("PHY2_drop") = PhyDrop
      /\ Wait("PHY1_lock") = PhyLock("PHY1_drop") /\ Wait("PHY2_lock") = PhyLock("PHY2_drop")
      /\ Wait("VO") = EnableVoDomain /\ Wait("DCLK") = SetVpll
  BY Lists DEF Wait, Memories
<1>2. /\ PhyI2cWrite.found = {"off"} /\ PhyI2cWrite.last = "ok" /\ PhyI2cWrite.never = "failed"
      /\ PhyDrop.found = {"off", "on"} /\ PhyDrop.last = "ok"
      /\ EnableVoDomain.found = {"off", "on"} /\ EnableVoDomain.last = "ok"
      /\ EnableVoDomain.never = "failed"
      /\ SetVpll.found = {"off"} /\ SetVpll.last = "ok" /\ SetVpll.never = "failed"
  BY DEF PhyI2cWrite, PhyDrop, EnableVoDomain, SetVpll
<1>3. \A drop : /\ PhyLock(drop).last = "ok" /\ PhyLock(drop).never = "failed"
                /\ PhyLock(drop).found \subseteq {"off", "old"}
                /\ "old" \in PhyLock(drop).found => Result(drop) = "off"
  BY DEF PhyLock
<1> QED
  BY <1>1, <1>2, <1>3

\* The Genbook in its firmware: every wait for a power domain so far found it on, or one of
\* them ended without a bit or only with its last read.
GenbookOn ==
    \/ \A i \in 3 .. 10 : i < at => ResultIn(log, Genbook[i]) = "on"
    \/ \E i \in 3 .. 10 : ResultIn(log, Genbook[i]) \in {"off", "late"}
GenbookInv ==
    board = "genbook" /\ stage = "main" =>
        /\ at \in 1 .. 19 /\ bit \in {"off", "on"} /\ (left = 0 \/ Genbook[at] \in Waits)
        /\ \A i \in at .. 19 : Genbook[i] \notin DOMAIN log
        /\ GenbookOn

LEMMA GenbookDistinct ==
    \A i, j \in 1 .. 19 : Genbook[i] = Genbook[j] => i = j
  BY GenbookSteps

\* The firmware has come to a later step, its loops up to there with a result.
GenbookGoes(steps, r) ==
    /\ UNCHANGED <<board, stage>> /\ bit' \in {"off", "on"} /\ left' = 0
    /\ at' \in at + 1 .. 19 /\ log' = Logged(steps, r)
    /\ \A i \in 1 .. 19 : Genbook[i] \in steps => at <= i /\ i < at'
    /\ \/ at > 10
       \/ r = "on" /\ \A i \in 3 .. 10 : at <= i /\ i < at' => Genbook[i] \in steps
       \/ r \in {"off", "late"} /\ \E i \in 3 .. 10 : Genbook[i] \in steps

LEMMA GenbookProgress ==
    ASSUME GenbookInv, board = "genbook", stage = "main", NEW steps, NEW r, GenbookGoes(steps, r)
    PROVE  GenbookInv'
<1>1. at \in 1 .. 19 /\ at' \in 1 .. 19 /\ at < at'
  <2>1. at \in 1 .. 19 /\ at' \in at + 1 .. 19
    BY DEF GenbookInv, GenbookGoes
  <2> QED
    BY <2>1
<1>2. \A i \in at .. 19 : Genbook[i] \notin DOMAIN log
  BY DEF GenbookInv
<1>3. /\ \A step \in steps : ResultIn(log', step) = r
      /\ \A step : step \notin steps => ResultIn(log', step) = ResultIn(log, step)
      /\ DOMAIN log' = steps \cup DOMAIN log
  BY LoggedResults DEF GenbookGoes
<1>4. \A i \in 1 .. 19 : Genbook[i] \in steps => at <= i /\ i < at'
  BY DEF GenbookGoes
<1>5. ASSUME NEW i \in at' .. 19
      PROVE  Genbook[i] \notin DOMAIN log'
  <2>1. i \in 1 .. 19 /\ i \in at .. 19 /\ ~(i < at')
    BY <1>1
  <2>2. Genbook[i] \notin steps /\ Genbook[i] \notin DOMAIN log
    BY <1>2, <1>4, <2>1
  <2> QED
    BY <1>3, <2>2
<1>6. ASSUME NEW i \in 3 .. 10, i < at
      PROVE  ResultIn(log', Genbook[i]) = ResultIn(log, Genbook[i])
  <2>1. i \in 1 .. 19 /\ ~(at <= i)
    BY <1>1, <1>6
  <2>2. Genbook[i] \notin steps
    BY <1>4, <2>1
  <2> QED
    BY <1>3, <2>2
<1>7. ASSUME NEW i \in 3 .. 10, ResultIn(log, Genbook[i]) \in {"off", "late"}
      PROVE  ResultIn(log', Genbook[i]) \in {"off", "late"}
  <2>1. Genbook[i] \in DOMAIN log
    BY <1>7 DEF ResultIn
  <2>2. i \notin at .. 19
    BY <1>2, <2>1
  <2>3. i < at
    BY <1>1, <2>2
  <2> QED
    BY <1>6, <1>7, <2>3
<1>8. ASSUME \E i \in 3 .. 10 : ResultIn(log, Genbook[i]) \in {"off", "late"}
      PROVE  GenbookOn'
  <2>1. PICK i \in 3 .. 10 : ResultIn(log, Genbook[i]) \in {"off", "late"}
    BY <1>8
  <2>2. ResultIn(log', Genbook[i]) \in {"off", "late"}
    BY <1>7, <2>1
  <2> QED
    BY <2>2 DEF GenbookOn
<1>9. ASSUME \A i \in 3 .. 10 : i < at => ResultIn(log, Genbook[i]) = "on"
      PROVE  GenbookOn'
  <2>1. CASE at > 10
    <3>1. ASSUME NEW i \in 3 .. 10
          PROVE  ResultIn(log', Genbook[i]) = "on"
      <4>1. i < at
        BY <1>1, <2>1
      <4> QED
        BY <1>6, <1>9, <4>1
    <3> QED
      BY <3>1 DEF GenbookOn
  <2>2. CASE r = "on" /\ \A i \in 3 .. 10 : at <= i /\ i < at' => Genbook[i] \in steps
    <3>1. ASSUME NEW i \in 3 .. 10, i < at'
          PROVE  ResultIn(log', Genbook[i]) = "on"
      <4>1. CASE i < at
        BY <1>6, <1>9, <4>1
      <4>2. CASE ~(i < at)
        <5>1. at <= i
          BY <1>1, <4>2
        <5> QED
          BY <1>3, <2>2, <3>1, <5>1
      <4> QED
        BY <4>1, <4>2
    <3> QED
      BY <3>1 DEF GenbookOn
  <2>3. CASE r \in {"off", "late"} /\ \E i \in 3 .. 10 : Genbook[i] \in steps
    <3>1. PICK i \in 3 .. 10 : Genbook[i] \in steps
      BY <2>3
    <3>2. ResultIn(log', Genbook[i]) \in {"off", "late"}
      BY <1>3, <2>3, <3>1
    <3> QED
      BY <3>2 DEF GenbookOn
  <2> QED
    BY <2>1, <2>2, <2>3 DEF GenbookGoes
<1>10. GenbookOn'
  <2>1. GenbookOn
    BY DEF GenbookInv
  <2> QED
    BY <1>8, <1>9, <2>1 DEF GenbookOn
<1>11. bit' \in {"off", "on"} /\ left' = 0
  BY DEF GenbookGoes
<1> QED
  BY <1>1, <1>5, <1>10, <1>11 DEF GenbookInv

LEMMA GenbookStands ==
    ASSUME stage = "main", board = "genbook"
    PROVE  Step = Genbook[at] /\ \A i \in 1 .. 19 : Program[i] = Genbook[i]
  BY MainProgram DEF Step

LEMMA GenbookGoals ==
    ASSUME stage = "main", board = "genbook"
    PROVE  To("vop2") = 11 /\ To("payload") = 19
<1>1. DOMAIN Program = 1 .. 19 /\ Program = Genbook
  BY MainProgram, GenbookSteps
<1>2. \A i \in 1 .. 19 : Genbook[i] = "vop2" => i = 11
  BY GenbookSteps
<1>3. \A i \in 1 .. 19 : Genbook[i] = "payload" => i = 19
  BY GenbookSteps
<1>4. Genbook[11] = "vop2" /\ Genbook[19] = "payload"
  BY GenbookSteps
<1> QED
  BY <1>1, <1>2, <1>3, <1>4 DEF To

\* Where a loop of it leads when it has ended.
LEMMA GenbookEnds ==
    ASSUME stage = "main", board = "genbook", at \in 1 .. 18, NEW report, NEW result,
           Finish(report, result)
    PROVE  /\ board' = "genbook" /\ stage' = "main" /\ left' = 0 /\ bit' = "off"
           /\ log' = Logged({Genbook[at]}, result)
           /\ at' \in at + 1 .. 19
           /\ report = "ok" => at' = at + 1
<1>1. Step = Genbook[at]
  BY GenbookStands
<1>2. /\ Step \notin Rk3399Plls /\ Step \notin Display
      /\ Step \in Range(PowerDomains) => at \in 3 .. 10
      /\ Step \in Range(EdpEnable) => at \in 16 .. 18
  BY <1>1, GenbookSteps, Lists
<1>3. /\ Step \in Range(PowerDomains) => AfterFailure = "vop2"
      /\ Step \in Range(EdpEnable) /\ Step \notin Range(PowerDomains) => AfterFailure = "payload"
      /\ Step \notin Range(EdpEnable) \cup Range(PowerDomains) => AfterFailure = "next"
  BY <1>2 DEF AfterFailure
<1> DEFINE target == IF report = "ok" THEN "next" ELSE AfterFailure
<1>4. /\ stage' = IF target = "halted" THEN "halted" ELSE stage
      /\ at' = CASE target = "next" -> at + 1
                 [] target = "halted" -> 1
                 [] OTHER -> To(target)
      /\ log' = Logged({Step}, result) /\ left' = 0 /\ bit' = "off" /\ board' = board
  BY DEF Finish
<1>5. \/ target = "next"
      \/ report # "ok" /\ target = "vop2" /\ at \in 3 .. 10
      \/ report # "ok" /\ target = "payload" /\ at \in 16 .. 18
  BY <1>2, <1>3
<1> HIDE DEF target
<1>6. \/ at' = at + 1
      \/ report # "ok" /\ at' = 11 /\ at \in 3 .. 10
      \/ report # "ok" /\ at' = 19 /\ at \in 16 .. 18
  BY <1>4, <1>5, GenbookGoals
<1>7. stage' = "main"
  BY <1>4, <1>5
<1> QED
  BY <1>1, <1>4, <1>6, <1>7

LEMMA GenbookReads ==
    ASSUME GenbookInv, Read
    PROVE  GenbookInv'
<1>1. board' = board
  BY DEF Read, Finish
<1>2. CASE ~(board = "genbook" /\ stage = "main")
  <2>1. stage' \in {stage, "halted"}
    BY DEF Read, Finish
  <2> QED
    BY <1>1, <1>2, <2>1 DEF GenbookInv
<1>3. CASE board = "genbook" /\ stage = "main"
  <2>1. /\ at \in 1 .. 19 /\ bit \in {"off", "on"} /\ left # 0 /\ Genbook[at] \in Waits
    BY <1>3 DEF GenbookInv, Read
  <2>2. Step = Genbook[at] /\ at # 19
    <3>1. "payload" \notin Waits
      BY Lists DEF Waits
    <3> QED
      BY <1>3, <2>1, <3>1, GenbookStands, GenbookSteps
  <2>3. CASE UNCHANGED <<board, stage, at, bit, log>>
    BY <1>3, <2>1, <2>3 DEF GenbookInv, GenbookOn
  <2>4. ASSUME NEW report, NEW result, Finish(report, result),
               (result = "on" /\ report = "ok") \/ result \in {"off", "late"}
        PROVE  GenbookInv'
    <3>1. at \in 1 .. 18
      BY <2>1, <2>2
    <3>2. /\ board' = "genbook" /\ stage' = "main" /\ left' = 0 /\ bit' = "off"
          /\ log' = Logged({Genbook[at]}, result)
          /\ at' \in at + 1 .. 19
          /\ report = "ok" => at' = at + 1
      BY <1>3, <2>4, <3>1, GenbookEnds
    <3>3. \A i \in 1 .. 19 : Genbook[i] \in {Genbook[at]} => i = at
      BY <2>1, GenbookDistinct
    <3>4. at < at' /\ (report = "ok" => at' = at + 1)
      BY <3>1, <3>2
    <3>5. at >= 3
      <4>1. {"pins", "sgrf"} \cap Waits = {}
        BY Lists DEF Waits
      <4> QED
        BY <2>1, <3>1, <4>1, GenbookSteps
    <3>6. \/ at > 10
          \/ result = "on" /\ \A i \in 3 .. 10 : at <= i /\ i < at' => Genbook[i] \in {Genbook[at]}
          \/ result \in {"off", "late"} /\ \E i \in 3 .. 10 : Genbook[i] \in {Genbook[at]}
      <4>1. CASE at > 10
        BY <4>1
      <4>2. CASE at \in 3 .. 10 /\ result \in {"off", "late"}
        BY <4>2
      <4>3. CASE at \in 3 .. 10 /\ result = "on" /\ report = "ok"
        <5>1. \A i \in 3 .. 10 : at <= i /\ i < at' => i = at
          BY <3>1, <3>4, <4>3
        <5> QED
          BY <4>3, <5>1
      <4> QED
        BY <2>4, <3>1, <3>5, <4>1, <4>2, <4>3
    <3>7. \A i \in 1 .. 19 : Genbook[i] \in {Genbook[at]} => at <= i /\ i < at'
      BY <3>1, <3>3, <3>4
    <3>8. GenbookGoes({Genbook[at]}, result)
      BY <1>3, <3>2, <3>6, <3>7 DEF GenbookGoes
    <3> QED
      BY <1>3, <3>8, GenbookProgress
  <2> QED
    BY <2>1, <2>3, <2>4, Turn
<1> QED
  BY <1>2, <1>3

LEMMA GenbookBegins ==
    ASSUME GenbookInv, Begin
    PROVE  GenbookInv'
<1>1. board' = board /\ stage' = stage
  BY DEF Begin
<1>2. CASE ~(board = "genbook" /\ stage = "main")
  BY <1>1, <1>2 DEF GenbookInv
<1>3. CASE board = "genbook" /\ stage = "main"
  <2>1. at \in 1 .. 19 /\ bit \in {"off", "on"} /\ Step = Genbook[at] /\ left = 0
        /\ Genbook[at] \in Waits
    BY <1>3, GenbookStands DEF GenbookInv, Begin
  <2>2. PICK b \in Wait(Step).found :
            \/ /\ Step \in Domains /\ b = "on"
               /\ log' = Logged(PdConfig[Step], "on")
               /\ at' = at + Cardinality(PdConfig[Step])
               /\ UNCHANGED <<board, stage, left, bit>>
            \/ bit' = b /\ UNCHANGED <<board, stage, at, log>>
    BY DEF Begin
  <2>3. b \in {"off", "on"}
    <3>1. /\ \A i \in {1, 2, 11, 13, 19} : Genbook[i] \notin Waits
          /\ \A i \in 1 .. 19 \ {1, 2, 11, 13, 19} :
                Genbook[i] \in {"version", "PHP", "PHP_mem", "SECURE", "VOP", "VOP_mem", "VO1",
                                "VO1_mem", "V0PLL", "HPD", "EDP_PLL", "EDP_LOCK", "CLOCK", "STREAM"}
      BY GenbookSteps, Lists DEF Waits
    <3>2. at \in 1 .. 19 \ {1, 2, 11, 13, 19}
      BY <2>1, <3>1
    <3> QED
      BY <2>1, <2>2, <3>1, <3>2, GenbookWaits
  <2>4. CASE bit' = b /\ UNCHANGED <<board, stage, at, log>>
    BY <1>3, <2>1, <2>3, <2>4 DEF GenbookInv, GenbookOn
  <2>5. CASE /\ Step \in Domains /\ b = "on"
             /\ log' = Logged(PdConfig[Step], "on")
             /\ at' = at + Cardinality(PdConfig[Step])
             /\ UNCHANGED <<board, stage, left, bit>>
    <3>1. /\ PdConfig["PHP"] = {"PHP", "PHP_mem"} /\ PdConfig["SECURE"] = {"SECURE"}
          /\ PdConfig["VOP"] = {"VOP", "VOP_mem"} /\ PdConfig["VO1"] = {"VO1", "VO1_mem"}
      BY DEF PdConfig
    <3>2. /\ Cardinality({"PHP", "PHP_mem"}) = 2 /\ Cardinality({"VOP", "VOP_mem"}) = 2
          /\ Cardinality({"VO1", "VO1_mem"}) = 2 /\ Cardinality({"SECURE"}) = 1
      BY <3>1, DomainSizes
    <3>3. /\ at = 4 => PdConfig[Step] = {Genbook[4], Genbook[5]} /\ at' = 6
          /\ at = 6 => PdConfig[Step] = {Genbook[6]} /\ at' = 7
          /\ at = 7 => PdConfig[Step] = {Genbook[7], Genbook[8]} /\ at' = 9
          /\ at = 9 => PdConfig[Step] = {Genbook[9], Genbook[10]} /\ at' = 11
      <4>1. ASSUME at = 4
            PROVE  PdConfig[Step] = {Genbook[4], Genbook[5]} /\ at' = 6
        <5>1. Step = "PHP" /\ {Genbook[4], Genbook[5]} = {"PHP", "PHP_mem"}
          BY <2>1, <4>1, GenbookSteps
        <5>2. PdConfig[Step] = {"PHP", "PHP_mem"} /\ Cardinality(PdConfig[Step]) = 2
          BY <3>1, <3>2, <5>1
        <5>3. at' = 4 + 2
          BY <2>5, <4>1, <5>2
        <5> QED
          BY <5>1, <5>2, <5>3
      <4>2. ASSUME at = 6
            PROVE  PdConfig[Step] = {Genbook[6]} /\ at' = 7
        <5>1. Step = "SECURE" /\ {Genbook[6]} = {"SECURE"}
          BY <2>1, <4>2, GenbookSteps
        <5>2. PdConfig[Step] = {"SECURE"} /\ Cardinality(PdConfig[Step]) = 1
          BY <3>1, <3>2, <5>1
        <5>3. at' = 6 + 1
          BY <2>5, <4>2, <5>2
        <5> QED
          BY <5>1, <5>2, <5>3
      <4>3. ASSUME at = 7
            PROVE  PdConfig[Step] = {Genbook[7], Genbook[8]} /\ at' = 9
        <5>1. Step = "VOP" /\ {Genbook[7], Genbook[8]} = {"VOP", "VOP_mem"}
          BY <2>1, <4>3, GenbookSteps
        <5>2. PdConfig[Step] = {"VOP", "VOP_mem"} /\ Cardinality(PdConfig[Step]) = 2
          BY <3>1, <3>2, <5>1
        <5>3. at' = 7 + 2
          BY <2>5, <4>3, <5>2
        <5> QED
          BY <5>1, <5>2, <5>3
      <4>4. ASSUME at = 9
            PROVE  PdConfig[Step] = {Genbook[9], Genbook[10]} /\ at' = 11
        <5>1. Step = "VO1" /\ {Genbook[9], Genbook[10]} = {"VO1", "VO1_mem"}
          BY <2>1, <4>4, GenbookSteps
        <5>2. PdConfig[Step] = {"VO1", "VO1_mem"} /\ Cardinality(PdConfig[Step]) = 2
          BY <3>1, <3>2, <5>1
        <5>3. at' = 9 + 2
          BY <2>5, <4>4, <5>2
        <5> QED
          BY <5>1, <5>2, <5>3
      <4> QED
        BY <4>1, <4>2, <4>3, <4>4
    <3>4. at \in {4, 6, 7, 9}
      BY <2>1, <2>5, Lists, GenbookSteps
    <3>5. at' \in at + 1 .. 19
      BY <3>3, <3>4
    <3>6. ASSUME NEW i \in 1 .. 19, Genbook[i] \in PdConfig[Step]
          PROVE  at <= i /\ i < at'
      BY <3>3, <3>4, <3>6, GenbookDistinct
    <3>7. ASSUME NEW i \in 3 .. 10, at <= i, i < at'
          PROVE  Genbook[i] \in PdConfig[Step]
      BY <3>3, <3>4, <3>7
    <3>8. left' = 0 /\ bit' \in {"off", "on"}
      BY <2>1, <2>5
    <3>9. GenbookGoes(PdConfig[Step], "on")
      BY <1>1, <2>5, <3>5, <3>6, <3>7, <3>8 DEF GenbookGoes
    <3> QED
      BY <1>3, <3>9, GenbookProgress
  <2> QED
    BY <2>2, <2>4, <2>5
<1> QED
  BY <1>2, <1>3

LEMMA GenbookDoes ==
    ASSUME GenbookInv, Do
    PROVE  GenbookInv'
<1>1. UNCHANGED <<board, stage, left, bit, log>>
  BY DEF Do
<1>2. CASE ~(board = "genbook" /\ stage = "main")
  BY <1>1, <1>2 DEF GenbookInv
<1>3. CASE board = "genbook" /\ stage = "main"
  <2>1. at \in 1 .. 19 /\ bit \in {"off", "on"} /\ Step = Genbook[at] /\ at' = at + 1
        /\ Genbook[at] \notin Waits \cup {"return", "payload"}
        /\ (left = 0 \/ Genbook[at] \in Waits)
        /\ (\A i \in at .. 19 : Genbook[i] \notin DOMAIN log) /\ GenbookOn
    BY <1>3, GenbookStands DEF GenbookInv, Do
  <2>2. at # 19 /\ at \notin 3 .. 10 /\ left = 0
    <3>1. {"version", "PHP", "PHP_mem", "SECURE", "VOP", "VOP_mem", "VO1", "VO1_mem"} \subseteq Waits
      BY Lists DEF Waits
    <3> QED
      BY <2>1, <3>1, GenbookSteps
  <2>3. at' \in 1 .. 19 /\ \A i \in at' .. 19 : i \in at .. 19
    BY <2>1, <2>2
  <2>4. \A i \in 3 .. 10 : i < at' => i < at
    BY <2>1, <2>2
  <2>5. GenbookOn'
    BY <1>1, <2>1, <2>4 DEF GenbookOn
  <2> QED
    BY <1>1, <2>1, <2>2, <2>3, <2>5 DEF GenbookInv
<1> QED
  BY <1>2, <1>3

LEMMA GenbookInvariant == Spec => []GenbookInv
<1>1. Init => GenbookInv
  BY DEF Init, BoardInit, GenbookInv
<1>2. GenbookInv /\ [Next]_vars => GenbookInv'
  <2> SUFFICES ASSUME GenbookInv, [Next]_vars
               PROVE  GenbookInv'
    OBVIOUS
  <2>1. ASSUME UNCHANGED boardVars
        PROVE  GenbookInv'
    BY <2>1 DEF boardVars, GenbookInv, GenbookOn
  <2>2. ASSUME NEW blob, NEW data, Run(blob, data)
        PROVE  GenbookInv'
    <3>1. CASE stage' = "main" /\ at' = 1 /\ left' = 0 /\ bit' = "off" /\ log' = <<>>
      <4>1. DOMAIN log' = {}
        BY <3>1
      <4>2. GenbookOn'
        BY <3>1 DEF GenbookOn
      <4> QED
        BY <3>1, <4>1, <4>2 DEF GenbookInv
    <3>2. CASE stage' # "main"
      BY <3>2 DEF GenbookInv
    <3> QED
      BY <2>2, <3>1, <3>2 DEF Run, Start
  <2>3. CASE LoadImage \/ LoadUsb
    BY <2>2, <2>3 DEF LoadImage, LoadUsb
  <2>4. CASE Host
    BY <2>1, <2>4 DEF Host
  <2>5. CASE Board
    <3>1. CASE Leave
      <4>1. stage' # "main"
        BY <3>1 DEF Leave
      <4> QED
        BY <4>1 DEF GenbookInv
    <3> QED
      BY <2>5, <3>1, GenbookDoes, GenbookBegins, GenbookReads DEF Board
  <2>6. CASE Environment
    <3>1. UNCHANGED <<board, stage, at, left, log>> /\ left # 0
          /\ (bit' = "on" \/ bit' = "off" \/ Step \in {"PHY1_i2c", "PHY2_i2c"})
      BY <2>6 DEF Environment, Hardware
    <3>2. CASE board = "genbook" /\ stage = "main"
      <4>1. at \in 1 .. 19 /\ Step = Genbook[at]
        BY <3>2, GenbookStands DEF GenbookInv
      <4>2. Step \notin {"PHY1_i2c", "PHY2_i2c"}
        BY <4>1, GenbookSteps
      <4> QED
        BY <3>1, <4>2 DEF GenbookInv, GenbookOn
    <3> QED
      BY <3>1, <3>2 DEF GenbookInv
  <2>7. CASE UNCHANGED vars
    BY <2>1, <2>7 DEF vars, boardVars
  <2> QED
    BY <2>3, <2>4, <2>5, <2>6, <2>7 DEF Next
<1> QED
  BY <1>1, <1>2, PTL DEF Spec

\* An RK356x board in its firmware: what it waited for has come, as far as it is, and a lock
\* that was there from the start is a new one.
NewLock(results, drop, lock) ==
    ResultIn(results, lock) = "on" \/ ResultIn(results, drop) = "off"
Rk356xLit ==
    /\ 2 < at => ResultIn(log, "VO") = "on"
    /\ 3 < at => ResultIn(log, "DCLK") = "on"
    /\ 7 < at => ResultIn(log, "PHY1_i2c") = "on"
    /\ 8 < at => NewLock(log, "PHY1_drop", "PHY1_lock")
    /\ 10 < at => ResultIn(log, "PHY2_i2c") = "on"
    /\ 11 < at => NewLock(log, "PHY2_drop", "PHY2_lock")
OldLock ==
    \/ at = 8 /\ ResultIn(log, "PHY1_drop") = "off"
    \/ at = 11 /\ ResultIn(log, "PHY2_drop") = "off"
Rk356xInv ==
    board = "rk356x" /\ stage = "main" =>
        /\ at \in 1 .. 15 /\ (left = 0 \/ Rk356xFirmware[at] \in Waits)
        /\ bit \in {"off", "on", "old", "error"} /\ (bit = "old" => OldLock)
        /\ at <= 12 => Rk356xLit

LEMMA Rk356xStands ==
    ASSUME stage = "main", board = "rk356x", at \in 1 .. 15
    PROVE  /\ Step = Rk356xFirmware[at]
           /\ Step \in Waits <=> at \in {2, 3, 6, 7, 8, 9, 10, 11}
           /\ Step \in Waits => Step \in Display
           /\ Step \notin Domains
<1>1. Step = Rk356xFirmware[at]
  BY MainProgram DEF Step
<1>2. /\ \A i \in {1, 4, 5, 12, 13, 14, 15} : Rk356xFirmware[i] \notin Waits \cup Domains
      /\ \A i \in {2, 3, 6, 7, 8, 9, 10, 11} :
            Rk356xFirmware[i] \in Display /\ Rk356xFirmware[i] \notin Domains
  BY Rk356xSteps, Lists DEF Waits
<1>3. Display \subseteq Waits
  BY DEF Waits
<1>4. at \in {1, 4, 5, 12, 13, 14, 15} \/ at \in {2, 3, 6, 7, 8, 9, 10, 11}
  OBVIOUS
<1>5. {1, 4, 5, 12, 13, 14, 15} \cap {2, 3, 6, 7, 8, 9, 10, 11} = {}
  OBVIOUS
<1> QED
  BY <1>1, <1>2, <1>3, <1>4, <1>5

LEMMA Rk356xEnds ==
    ASSUME stage = "main", board = "rk356x", at \in 1 .. 15, Step \in Waits,
           NEW report, NEW result, Finish(report, result)
    PROVE  /\ board' = "rk356x" /\ stage' = "main" /\ left' = 0 /\ bit' = "off"
           /\ log' = Logged({Rk356xFirmware[at]}, result)
           /\ at' = IF report = "ok" THEN at + 1 ELSE 13
<1>1. Step = Rk356xFirmware[at] /\ Step \in Display
  BY Rk356xStands
<1>2. /\ Step \notin Rk3399Plls /\ Step \notin Range(PowerDomains)
      /\ Step \notin Range(EdpEnable)
  BY <1>1, Lists
<1>3. AfterFailure = "input"
  BY <1>1, <1>2 DEF AfterFailure
<1>4. To("input") = 13
  <2>1. DOMAIN Program = 1 .. 15 /\ Program = Rk356xFirmware
    BY MainProgram, Rk356xSteps
  <2>2. Rk356xFirmware[13] = "input" /\ \A i \in 1 .. 15 : Rk356xFirmware[i] = "input" => i = 13
    BY Rk356xSteps
  <2> QED
    BY <2>1, <2>2 DEF To
<1> DEFINE target == IF report = "ok" THEN "next" ELSE AfterFailure
<1>5. /\ stage' = IF target = "halted" THEN "halted" ELSE stage
      /\ at' = CASE target = "next" -> at + 1
                 [] target = "halted" -> 1
                 [] OTHER -> To(target)
      /\ log' = Logged({Step}, result) /\ left' = 0 /\ bit' = "off" /\ board' = board
  BY DEF Finish
<1>6. target = IF report = "ok" THEN "next" ELSE "input"
  BY <1>3
<1> HIDE DEF target
<1>7. at' = IF report = "ok" THEN at + 1 ELSE 13
  BY <1>4, <1>5, <1>6
<1>8. stage' = "main"
  BY <1>5, <1>6
<1> QED
  BY <1>1, <1>5, <1>7, <1>8

LEMMA Rk356xReads ==
    ASSUME Rk356xInv, Read
    PROVE  Rk356xInv'
<1>1. board' = board /\ stage' \in {stage, "halted"}
  BY DEF Read, Finish
<1>2. CASE ~(board = "rk356x" /\ stage = "main")
  BY <1>1, <1>2 DEF Rk356xInv
<1>3. CASE board = "rk356x" /\ stage = "main"
  <2> DEFINE step == Rk356xFirmware[at]
  <2>1. /\ at \in 1 .. 15 /\ left # 0 /\ step \in Waits /\ bit \in {"off", "on", "old", "error"}
        /\ bit = "old" => OldLock
        /\ at <= 12 => Rk356xLit
    BY <1>3 DEF Rk356xInv, Read
  <2>2. Step = step /\ at \in {2, 3, 6, 7, 8, 9, 10, 11}
    BY <1>3, <2>1, Rk356xStands
  <2>3. Wait(step).last = "ok" /\ (at \notin {6, 9} => Wait(step).never = "failed")
    BY <2>2, Rk356xSteps, Rk356xWaits
  <2>4. CASE UNCHANGED <<board, stage, at, bit, log>>
    <3>1. OldLock' = OldLock /\ Rk356xLit' = Rk356xLit
      BY <2>4 DEF OldLock, Rk356xLit, NewLock
    <3> QED
      BY <1>3, <2>1, <2>4, <3>1 DEF Rk356xInv
  <2>5. ASSUME NEW report, NEW result, Finish(report, result),
               \/ report # "ok"
               \/ result = "on"
               \/ result = "old" /\ OldLock
               \/ result = "off" /\ at \in {6, 9}
        PROVE  Rk356xInv'
    <3>1. /\ board' = "rk356x" /\ stage' = "main" /\ left' = 0 /\ bit' = "off"
          /\ log' = Logged({step}, result)
          /\ at' = IF report = "ok" THEN at + 1 ELSE 13
      BY <1>3, <2>1, <2>2, <2>5, Rk356xEnds
    <3>2. CASE report # "ok"
      BY <3>1, <3>2 DEF Rk356xInv
    <3>3. CASE report = "ok"
      <4>1. at' = at + 1 /\ at' \in 1 .. 15
        <5>1. at \in Nat /\ at <= 11 /\ at >= 2
          BY <2>2
        <5>2. at' = at + 1
          BY <3>1, <3>3
        <5> QED
          BY <5>1, <5>2
      <4>2. ResultIn(log', step) = result
            /\ \A s : s # step => ResultIn(log', s) = ResultIn(log, s)
        <5>1. log' = Logged({step}, result)
          BY <3>1
        <5> HIDE DEF step
        <5> QED
          BY <5>1, LoggedResult
      <4>3. Rk356xLit
        BY <2>1, <2>2
      <4>4. /\ 2 < at' => ResultIn(log', "VO") = "on"
            /\ 3 < at' => ResultIn(log', "DCLK") = "on"
        BY <2>2, <2>5, <3>3, <4>1, <4>2, <4>3, Rk356xSteps DEF Rk356xLit, OldLock
      <4>5. /\ 7 < at' => ResultIn(log', "PHY1_i2c") = "on"
            /\ 10 < at' => ResultIn(log', "PHY2_i2c") = "on"
        BY <2>2, <2>5, <3>3, <4>1, <4>2, <4>3, Rk356xSteps DEF Rk356xLit, OldLock
      <4>6. 8 < at' => NewLock(log', "PHY1_drop", "PHY1_lock")
        BY <2>2, <2>5, <3>3, <4>1, <4>2, <4>3, Rk356xSteps DEF Rk356xLit, OldLock, NewLock
      <4>7. 11 < at' => NewLock(log', "PHY2_drop", "PHY2_lock")
        BY <2>2, <2>5, <3>3, <4>1, <4>2, <4>3, Rk356xSteps DEF Rk356xLit, OldLock, NewLock
      <4>8. Rk356xLit'
        BY <4>4, <4>5, <4>6, <4>7 DEF Rk356xLit
      <4> QED
        BY <3>1, <4>1, <4>8 DEF Rk356xInv
    <3> QED
      BY <3>2, <3>3
  <2>6. bit = "off" /\ Finish(Wait(Step).never, "off") => Rk356xInv'
    BY <2>2, <2>3, <2>5
  <2>7. bit \in {"on", "old"} /\ Finish("ok", bit) => Rk356xInv'
    BY <2>1, <2>5
  <2>8. bit = "error" /\ Finish("failed", "error") => Rk356xInv'
    BY <2>5
  <2>9. Wait(Step).last # "failed"
    BY <2>2, <2>3
  <2> QED
    BY <2>4, <2>6, <2>7, <2>8, <2>9, Turn
<1> QED
  BY <1>2, <1>3

LEMMA Rk356xBegins ==
    ASSUME Rk356xInv, Begin
    PROVE  Rk356xInv'
<1>1. board' = board /\ stage' = stage
  BY DEF Begin
<1>2. CASE ~(board = "rk356x" /\ stage = "main")
  BY <1>1, <1>2 DEF Rk356xInv
<1>3. CASE board = "rk356x" /\ stage = "main"
  <2>1. at \in 1 .. 15 /\ (at <= 12 => Rk356xLit)
    BY <1>3 DEF Rk356xInv
  <2>2. /\ Step = Rk356xFirmware[at] /\ at \in {2, 3, 6, 7, 8, 9, 10, 11}
        /\ Step \in Waits /\ Step \notin Domains
    <3>1. Step \in Waits
      BY DEF Begin
    <3> QED
      BY <1>3, <2>1, <3>1, Rk356xStands
  <2>3. PICK b \in Wait(Step).found : bit' = b /\ UNCHANGED <<board, stage, at, log>>
    BY <2>2 DEF Begin
  <2>4. b \in {"off", "on", "old"}
    BY <2>2, <2>3, Rk356xSteps, Rk356xWaits
  <2>5. b = "old" => OldLock
    BY <2>2, <2>3, Rk356xSteps, Rk356xWaits DEF OldLock, Result, ResultIn
  <2>6. OldLock' = OldLock /\ Rk356xLit' = Rk356xLit
    BY <2>3 DEF OldLock, Rk356xLit, NewLock
  <2> QED
    BY <1>3, <2>1, <2>2, <2>3, <2>4, <2>5, <2>6 DEF Rk356xInv
<1> QED
  BY <1>2, <1>3

LEMMA Rk356xDoes ==
    ASSUME Rk356xInv, Do
    PROVE  Rk356xInv'
<1>1. UNCHANGED <<board, stage, left, bit, log>>
  BY DEF Do
<1>2. CASE ~(board = "rk356x" /\ stage = "main")
  BY <1>1, <1>2 DEF Rk356xInv
<1>3. CASE board = "rk356x" /\ stage = "main"
  <2>1. /\ at \in 1 .. 15 /\ (left = 0 \/ Rk356xFirmware[at] \in Waits)
        /\ bit \in {"off", "on", "old", "error"} /\ (bit = "old" => OldLock)
        /\ at <= 12 => Rk356xLit
    BY <1>3 DEF Rk356xInv
  <2>2. /\ Step = Rk356xFirmware[at] /\ at \notin {2, 3, 6, 7, 8, 9, 10, 11}
        /\ Step \notin Waits /\ at' = at + 1 /\ Step # "payload"
    <3>1. Step \notin Waits /\ at' = at + 1 /\ Step # "payload"
      BY DEF Do
    <3> QED
      BY <1>3, <2>1, <3>1, Rk356xStands
  <2>3. at # 15
    BY <2>2, Rk356xSteps
  <2>4. at \in {1, 4, 5, 12, 13, 14}
    BY <2>1, <2>2, <2>3
  <2>5. left = 0 /\ bit # "old"
    BY <2>1, <2>2, <2>4 DEF OldLock
  <2>6. at' <= 12 => Rk356xLit'
    <3>1. CASE at \in {1, 4, 5}
      BY <1>1, <2>1, <2>2, <3>1 DEF Rk356xLit, NewLock
    <3>2. CASE at \in {12, 13, 14}
      BY <2>2, <3>2
    <3> QED
      BY <2>4, <3>1, <3>2
  <2> QED
    BY <1>1, <2>1, <2>2, <2>4, <2>5, <2>6 DEF Rk356xInv
<1> QED
  BY <1>2, <1>3

LEMMA Rk356xInvariant == Spec => []Rk356xInv
<1>1. Init => Rk356xInv
  BY DEF Init, BoardInit, Rk356xInv
<1>2. Rk356xInv /\ [Next]_vars => Rk356xInv'
  <2> SUFFICES ASSUME Rk356xInv, [Next]_vars
               PROVE  Rk356xInv'
    OBVIOUS
  <2>1. ASSUME UNCHANGED boardVars
        PROVE  Rk356xInv'
    BY <2>1 DEF boardVars, Rk356xInv, OldLock, Rk356xLit, NewLock
  <2>2. ASSUME NEW blob, NEW data, Run(blob, data)
        PROVE  Rk356xInv'
    <3>1. CASE stage' = "main" /\ at' = 1 /\ left' = 0 /\ bit' = "off" /\ log' = <<>>
      BY <3>1 DEF Rk356xInv, Rk356xLit
    <3>2. CASE stage' # "main"
      BY <3>2 DEF Rk356xInv
    <3> QED
      BY <2>2, <3>1, <3>2 DEF Run, Start
  <2>3. CASE LoadImage \/ LoadUsb
    BY <2>2, <2>3 DEF LoadImage, LoadUsb
  <2>4. CASE Host
    BY <2>1, <2>4 DEF Host
  <2>5. CASE Board
    <3>1. CASE Leave
      <4>1. stage' # "main"
        BY <3>1 DEF Leave
      <4> QED
        BY <4>1 DEF Rk356xInv
    <3> QED
      BY <2>5, <3>1, Rk356xDoes, Rk356xBegins, Rk356xReads DEF Board
  <2>6. CASE Environment
    <3>1. UNCHANGED <<board, stage, at, left, log>> /\ bit' \in {"on", "off", "error"}
      BY <2>6 DEF Environment, Hardware
    <3>2. OldLock' = OldLock /\ Rk356xLit' = Rk356xLit
      BY <3>1 DEF OldLock, Rk356xLit, NewLock
    <3> QED
      BY <3>1, <3>2 DEF Rk356xInv
  <2>7. CASE UNCHANGED vars
    BY <2>1, <2>7 DEF vars, boardVars
  <2> QED
    BY <2>3, <2>4, <2>5, <2>6, <2>7 DEF Next
<1> QED
  BY <1>1, <1>2, PTL DEF Spec

\* A display is driven only when it is ready: the power domains of the Genbook are on before its
\* video output processor is touched, unless a wait for one ended without its bit or with its
\* last read, and the screen an RK356x board reports has its power domain, its pixel clock, its
\* answers from the PHY and two new locks (rk3588_init_power_domains, rk356x_display_init).
THEOREM DisplaysAreReady == Spec => []DisplayReady
<1>1. GenbookInv /\ Rk356xInv => DisplayReady
  <2> SUFFICES ASSUME GenbookInv, Rk356xInv
               PROVE  DisplayReady
    OBVIOUS
  <2>1. \A step : Result(step) = ResultIn(log, step)
    BY DEF Result, ResultIn
  <2>2. ASSUME board = "genbook", stage = "main", at >= To("vop2")
        PROVE  \/ \A step \in Range(PowerDomains) : Result(step) = "on"
               \/ \E step \in Range(PowerDomains) : Result(step) \in {"off", "late"}
    <3>1. at \in 1 .. 19 /\ at >= 11 /\ GenbookOn
      BY <2>2, GenbookGoals DEF GenbookInv
    <3>2. Range(PowerDomains) = {Genbook[i] : i \in 3 .. 10}
      BY Lists, GenbookSteps
    <3>3. \A i \in 3 .. 10 : i < at
      BY <3>1
    <3> QED
      BY <2>1, <3>1, <3>2, <3>3 DEF GenbookOn
  <2>3. ASSUME board = "rk356x", stage = "main", Step = "active"
        PROVE  /\ \A step \in {"VO", "DCLK", "PHY1_i2c", "PHY2_i2c"} : Result(step) = "on"
               /\ Result("PHY1_lock") = "on" \/ Result("PHY1_drop") = "off"
               /\ Result("PHY2_lock") = "on" \/ Result("PHY2_drop") = "off"
    <3>1. at \in 1 .. 15 /\ (at <= 12 => Rk356xLit)
      BY <2>3 DEF Rk356xInv
    <3>2. at = 12
      <4>1. \A i \in 1 .. 15 : Rk356xFirmware[i] = "active" => i = 12
        BY Rk356xSteps
      <4>2. Step = Rk356xFirmware[at]
        BY <2>3, <3>1, Rk356xStands
      <4> QED
        BY <2>3, <3>1, <4>1, <4>2
    <3> QED
      BY <2>1, <3>1, <3>2 DEF Rk356xLit, NewLock
  <2> QED
    BY <2>2, <2>3 DEF DisplayReady
<1> QED
  BY <1>1, GenbookInvariant, Rk356xInvariant, PTL

-----------------------------------------------------------------------------
(***************************************************************************)
(* The programs only go on                                                 *)
(***************************************************************************)
\* A program names a step once, ends with the step that leaves it, and has the places a failure
\* or a power domain that is on already leads to behind the step itself.
Behind(p, i, step) == \E j \in DOMAIN p : i < j /\ p[j] = step

WellOrdered(p) ==
    /\ \A i, j \in DOMAIN p : p[i] = p[j] => i = j
    /\ \A i \in DOMAIN p :
        /\ p[i] \notin {"return", "payload"} => i + 1 \in DOMAIN p
        /\ p[i] \in Range(PowerDomains) => Behind(p, i, "vop2")
        /\ p[i] \in Range(EdpEnable) => Behind(p, i, "payload")
        /\ p[i] \in Display => Behind(p, i, "input")
        /\ p[i] \in Domains => i + Cardinality(PdConfig[p[i]]) \in DOMAIN p

LEMMA ShimSteps == DOMAIN Shim = 1 .. 2 /\ Shim[1] = "shim" /\ Shim[2] = "return"
  BY DEF Shim

LEMMA PinebookDdrSteps ==
    /\ DOMAIN PinebookDdr = 1 .. 13
    /\ PinebookDdr[1] = "pins" /\ PinebookDdr[2] = "APLL_L" /\ PinebookDdr[3] = "APLL_B"
    /\ PinebookDdr[4] = "GPLL" /\ PinebookDdr[5] = "CPLL" /\ PinebookDdr[6] = "DPLL_48"
    /\ PinebookDdr[7] = "PCTL_1" /\ PinebookDdr[8] = "PCTL_2" /\ PinebookDdr[9] = "PCTL_3"
    /\ PinebookDdr[10] = "PCTL_4" /\ PinebookDdr[11] = "DPLL_400" /\ PinebookDdr[12] = "DPLL_800"
    /\ PinebookDdr[13] = "return"
  BY DEF PinebookDdr, Clusters, Rk3399Passes, Rk3399Frequencies

LEMMA PinebookSteps ==
    /\ DOMAIN Pinebook = 1 .. 14
    /\ Pinebook[1] = "pins" /\ Pinebook[2] = "APLL_L" /\ Pinebook[3] = "APLL_B"
    /\ Pinebook[4] = "GPLL" /\ Pinebook[5] = "CPLL" /\ Pinebook[6] = "soc"
    /\ Pinebook[7] = "HPD" /\ Pinebook[8] = "EDP_PLL" /\ Pinebook[9] = "VPLL"
    /\ Pinebook[10] = "scanout" /\ Pinebook[11] = "EDP_LOCK" /\ Pinebook[12] = "CLOCK"
    /\ Pinebook[13] = "STREAM" /\ Pinebook[14] = "payload"
  BY DEF Pinebook, Clusters, SocSetup, EdpInit, InitVop, EdpEnable

LEMMA ShimOrdered == WellOrdered(Shim)
  BY ShimSteps, Lists DEF WellOrdered, Behind

LEMMA PinebookDdrOrdered == WellOrdered(PinebookDdr)
<1>1. \A i, j \in 1 .. 13 : PinebookDdr[i] = PinebookDdr[j] => i = j
  BY PinebookDdrSteps
<1>2. \A i \in 1 .. 13 :
        /\ PinebookDdr[i] \notin Range(PowerDomains) \cup Range(EdpEnable) \cup Display \cup Domains
        /\ PinebookDdr[i] \notin {"return", "payload"} => i + 1 \in 1 .. 13
  BY PinebookDdrSteps, Lists
<1> QED
  BY <1>1, <1>2, PinebookDdrSteps DEF WellOrdered

LEMMA PinebookOrdered == WellOrdered(Pinebook)
<1>1. \A i, j \in 1 .. 14 : Pinebook[i] = Pinebook[j] => i = j
  BY PinebookSteps
<1>2. \A i \in 1 .. 14 :
        /\ Pinebook[i] \notin Range(PowerDomains) \cup Display \cup Domains
        /\ Pinebook[i] \notin {"return", "payload"} => i + 1 \in 1 .. 14
        /\ Pinebook[i] \in Range(EdpEnable) => i < 14
  BY PinebookSteps, Lists
<1>3. \A i \in 1 .. 14 : i < 14 => Behind(Pinebook, i, "payload")
  BY PinebookSteps DEF Behind
<1> QED
  BY <1>1, <1>2, <1>3, PinebookSteps DEF WellOrdered

LEMMA GenbookOrdered == WellOrdered(Genbook)
<1>1. \A i \in 1 .. 19 :
        /\ Genbook[i] \notin Display
        /\ Genbook[i] \notin {"return", "payload"} => i + 1 \in 1 .. 19
        /\ Genbook[i] \in Range(EdpEnable) => i < 19
        /\ Genbook[i] \in Range(PowerDomains) => i < 11
  BY GenbookSteps, Lists
<1>2. \A i \in 1 .. 19 : Genbook[i] \in Domains => i \in {4, 6, 7, 9}
  BY GenbookSteps, Lists
<1>3. \A i \in {4, 6, 7, 9} : i + Cardinality(PdConfig[Genbook[i]]) \in 1 .. 19
  BY GenbookSteps, DomainSizes
<1>4. \A i \in 1 .. 19 : i < 19 => Behind(Genbook, i, "payload")
  BY GenbookSteps DEF Behind
<1>5. \A i \in 1 .. 19 : i < 11 => Behind(Genbook, i, "vop2")
  BY GenbookSteps DEF Behind
<1>6. \A i \in 1 .. 19 :
        /\ Genbook[i] \in Range(EdpEnable) => Behind(Genbook, i, "payload")
        /\ Genbook[i] \in Range(PowerDomains) => Behind(Genbook, i, "vop2")
  BY <1>1, <1>4, <1>5, Zenon
<1>7. \A i \in 1 .. 19 : Genbook[i] \in Domains => i + Cardinality(PdConfig[Genbook[i]]) \in 1 .. 19
  BY <1>2, <1>3, Zenon
<1>8. DOMAIN Genbook = 1 .. 19
  BY GenbookSteps
<1> QED
  BY <1>1, <1>6, <1>7, <1>8, GenbookDistinct, Zenon DEF WellOrdered

LEMMA Rk356xOrdered == WellOrdered(Rk356xFirmware)
<1>1. \A i, j \in 1 .. 15 : Rk356xFirmware[i] = Rk356xFirmware[j] => i = j
  BY Rk356xSteps
<1>2. \A i \in 1 .. 15 :
        /\ Rk356xFirmware[i] \notin Range(PowerDomains) \cup Range(EdpEnable) \cup Domains
        /\ Rk356xFirmware[i] \notin {"return", "payload"} => i + 1 \in 1 .. 15
        /\ Rk356xFirmware[i] \in Display => i < 13
  BY Rk356xSteps, Lists
<1>3. \A i \in 1 .. 15 : i < 13 => Behind(Rk356xFirmware, i, "input")
  BY Rk356xSteps DEF Behind
<1> QED
  BY <1>1, <1>2, <1>3, Rk356xSteps DEF WellOrdered

\* The program a board is in.
LEMMA ProgramOrdered ==
    ASSUME board \in Boards, Running
    PROVE  /\ WellOrdered(Program) /\ stage \in {"ddr", "main"}
           /\ DOMAIN Program \subseteq Nat /\ 1 \in DOMAIN Program
           /\ \A i \in DOMAIN Program : /\ Program[i] = "return" => stage = "ddr"
                                        /\ Program[i] = "payload" => stage = "main"
<1>1. stage \in {"ddr", "main"} /\ board \in {"pinebook", "genbook", "rk356x"}
  BY DEF Running, Programs, Boards
<1>2. CASE stage = "ddr" /\ board = "pinebook"
  <2>1. Program = PinebookDdr
    BY <1>2 DEF Program, Programs
  <2> QED
    BY <1>2, <2>1, PinebookDdrSteps, PinebookDdrOrdered
<1>3. CASE stage = "ddr" /\ board \in {"genbook", "rk356x"}
  <2>1. Program = Shim
    BY <1>3 DEF Program, Programs
  <2> QED
    BY <1>3, <2>1, ShimSteps, ShimOrdered
<1>4. CASE stage = "main" /\ board = "pinebook"
  <2>1. Program = Pinebook
    BY <1>4 DEF Program, Programs
  <2> QED
    BY <1>4, <2>1, PinebookSteps, PinebookOrdered
<1>5. CASE stage = "main" /\ board = "genbook"
  <2>1. Program = Genbook
    BY <1>5 DEF Program, Programs
  <2> QED
    BY <1>5, <2>1, GenbookSteps, GenbookOrdered
<1>6. CASE stage = "main" /\ board = "rk356x"
  <2>1. Program = Rk356xFirmware
    BY <1>6 DEF Program, Programs
  <2> QED
    BY <1>6, <2>1, Rk356xSteps, Rk356xOrdered
<1> QED
  BY <1>1, <1>2, <1>3, <1>4, <1>5, <1>6

LEMMA ToIsBehind ==
    ASSUME board \in Boards, Running, at \in DOMAIN Program, NEW step, Behind(Program, at, step)
    PROVE  To(step) \in DOMAIN Program /\ at < To(step)
<1>1. PICK j \in DOMAIN Program : at < j /\ Program[j] = step
  BY DEF Behind
<1>2. \A i \in DOMAIN Program : Program[i] = step => i = j
  BY <1>1, ProgramOrdered DEF WellOrdered
<1>3. To(step) = j
  BY <1>1, <1>2 DEF To
<1> QED
  BY <1>1, <1>3

\* A loop reads its bit Turns + 1 times at most; one without a bound counts as no reads.
LEMMA ReadsAreBounded ==
    \A step \in Waits : Wait(step).reads \in 0 .. Turns + 1 /\ Wait(step).found \subseteq {"off", "on", "old"}
<1> DEFINE Bounded(w) == w.reads \in 0 .. Turns + 1 /\ w.found \subseteq {"off", "on", "old"}
<1>1. Turns \in Nat /\ Turns > 1
  BY TurnsAssumption
<1>2. /\ \A step \in Domains : Wait(step) = PowerUp
      /\ \A step \in Memories : Wait(step) = PowerUpMemory
      /\ \A step \in Rk3399Plls : Wait(step) = ClockSetPll
      /\ \A step \in Pctls : Wait(step) = WaitForPctl
  BY Lists DEF Wait, Memories
<1>3. /\ Wait("version") = PmuVersion /\ Wait("V0PLL") = Rk3588SetPll /\ Wait("HPD") = EdpHpd
      /\ Wait("EDP_PLL") = EdpPll /\ Wait("EDP_LOCK") = EdpLock /\ Wait("CLOCK") = EdpClock
      /\ Wait("STREAM") = EdpStream
  BY Lists DEF Wait, Memories
<1>4. /\ Wait("PHY1_i2c") = PhyI2cWrite /\ Wait("PHY2_i2c") = PhyI2cWrite
      /\ Wait("PHY1_drop") = PhyDrop /\ Wait("PHY2_drop") = PhyDrop
      /\ Wait("PHY1_lock") = PhyLock("PHY1_drop") /\ Wait("PHY2_lock") = PhyLock("PHY2_drop")
      /\ Wait("VO") = EnableVoDomain /\ Wait("DCLK") = SetVpll
  BY Lists DEF Wait, Memories
<1>5. \A w \in {PowerUp, PowerUpMemory, ClockSetPll, WaitForPctl, PmuVersion, Rk3588SetPll, EdpHpd,
                EdpPll, EdpLock, EdpClock, EdpStream} : Bounded(w)
  BY <1>1 DEF PowerUp, PowerUpMemory, ClockSetPll, WaitForPctl, PmuVersion, Rk3588SetPll, CountedDown,
     EdpHpd, EdpPll, EdpLock, EdpClock, EdpStream
<1>6. /\ \A w \in {PhyI2cWrite, PhyDrop, EnableVoDomain, SetVpll} : Bounded(w)
      /\ \A drop : Bounded(PhyLock(drop))
  BY <1>1 DEF PhyI2cWrite, PhyDrop, PhyLock, EnableVoDomain, SetVpll
<1>7. Waits = {"version", "V0PLL", "HPD", "EDP_PLL", "EDP_LOCK", "CLOCK", "STREAM", "PHY1_i2c",
               "PHY2_i2c", "PHY1_drop", "PHY2_drop", "PHY1_lock", "PHY2_lock", "VO", "DCLK"}
                  \cup Domains \cup Memories \cup Rk3399Plls \cup Pctls
  BY Lists DEF Waits, Memories
<1> HIDE DEF Bounded
<1>8. \A step \in Waits : Bounded(Wait(step))
  BY <1>2, <1>3, <1>4, <1>5, <1>6, <1>7
<1> QED
  BY <1>8 DEF Bounded

\* A board in a program is at one of its steps, and in a loop only at a step that waits.
PlacedInv ==
    /\ board \in Boards /\ left \in Nat /\ bit \in {"off", "on", "old", "error"}
    /\ Running => at \in DOMAIN Program
    /\ left > 0 => Running /\ Step \in Waits

\* The bit of a loop: a lock of before can be lost, and then what was asked for comes or fails.
BitMoves == {<<"old", "off">>, <<"off", "on">>, <<"off", "error">>}

\* What a step can be.  In a program it is one to a later step, the start of a loop, a turn that
\* leaves fewer of them, or one of the hardware.
GoesOn ==
    \/ stage = "rom" /\ stage' \in {"ddr", "main", "lost"}
    \/ Running /\ stage' \in {"halted", IF stage = "ddr" THEN "rom" ELSE "payload"}
    \/ /\ Running /\ stage' = stage
       /\ \/ at' \in DOMAIN Program /\ at < at' /\ left' = 0
          \/ at' = at /\ left = 0 /\ left' \in 1 .. Turns + 1
          \/ at' = at /\ 0 < left' /\ left' < left
          \/ UNCHANGED <<at, left>> /\ <<bit, bit'>> \in BitMoves

LEMMA LeavingIsNoWait == "return" \notin Waits /\ "payload" \notin Waits
  BY Lists DEF Waits

LEMMA StaysInProgram ==
    ASSUME PlacedInv, Running, UNCHANGED <<board, stage>>, at' \in DOMAIN Program, left' \in Nat,
           bit' \in {"off", "on", "old", "error"}, left' > 0 => at' = at /\ Step \in Waits
    PROVE  PlacedInv'
<1>1. Program' = Program /\ Running'
  BY DEF Program, Running
<1>2. left' > 0 => Step' \in Waits
  BY <1>1 DEF Step
<1> QED
  BY <1>1, <1>2 DEF PlacedInv

LEMMA LeavesProgram ==
    ASSUME PlacedInv, board' = board, stage' \notin {"ddr", "main"}, left' = 0,
           bit' \in {"off", "on", "old", "error"}
    PROVE  PlacedInv'
  BY DEF PlacedInv, Running, Programs

LEMMA DoGoes ==
    ASSUME PlacedInv, Do
    PROVE  GoesOn /\ PlacedInv'
<1>1. /\ Running /\ at \in DOMAIN Program /\ at' = at + 1 /\ UNCHANGED <<board, stage, left, bit>>
      /\ Program[at] \notin Waits \cup {"return", "payload"} /\ left = 0
  BY DEF PlacedInv, Do, Step
<1>3. bit' \in {"off", "on", "old", "error"}
  BY <1>1 DEF PlacedInv
<1>2. at \in Nat /\ at' \in DOMAIN Program
  BY <1>1, ProgramOrdered DEF WellOrdered, PlacedInv
<1> QED
  BY <1>1, <1>2, <1>3, StaysInProgram DEF GoesOn

LEMMA LeaveGoes ==
    ASSUME PlacedInv, Leave
    PROVE  GoesOn /\ PlacedInv'
<1>1. /\ Running /\ at \in DOMAIN Program /\ UNCHANGED <<board, left, bit>>
      /\ Program[at] \in {"return", "payload"} /\ Step = Program[at]
      /\ stage' = IF Step = "return" THEN "rom" ELSE "payload"
  BY DEF PlacedInv, Leave, Step
<1>2. left = 0 /\ bit' \in {"off", "on", "old", "error"}
  BY <1>1, LeavingIsNoWait DEF PlacedInv
<1>3. stage' = IF stage = "ddr" THEN "rom" ELSE "payload"
  BY <1>1, ProgramOrdered DEF PlacedInv
<1> QED
  BY <1>1, <1>2, <1>3, LeavesProgram DEF GoesOn

LEMMA FinishGoes ==
    ASSUME PlacedInv, Running, Step \in Waits, NEW report, NEW result, Finish(report, result)
    PROVE  GoesOn /\ PlacedInv'
<1>1. /\ at \in DOMAIN Program /\ board \in Boards /\ Step = Program[at]
      /\ Program[at] \notin {"return", "payload"} /\ at \in Nat
  BY LeavingIsNoWait, ProgramOrdered DEF PlacedInv, Step
<1> DEFINE target == IF report = "ok" THEN "next" ELSE AfterFailure
<1>2. /\ stage' = IF target = "halted" THEN "halted" ELSE stage
      /\ at' = CASE target = "next" -> at + 1
                 [] target = "halted" -> 1
                 [] OTHER -> To(target)
      /\ left' = 0 /\ bit' = "off" /\ board' = board
  BY DEF Finish
<1>3. \/ target \in {"next", "halted"}
      \/ target \in {"vop2", "payload", "input"} /\ Behind(Program, at, target)
  BY <1>1, ProgramOrdered DEF AfterFailure, WellOrdered
<1> HIDE DEF target
<1>4. CASE target = "halted"
  BY <1>2, <1>4, LeavesProgram DEF GoesOn
<1>5. CASE target = "next"
  <2>1. at + 1 \in DOMAIN Program
    BY <1>1, ProgramOrdered DEF WellOrdered
  <2> QED
    BY <1>1, <1>2, <1>5, <2>1, StaysInProgram DEF GoesOn
<1>6. CASE target \in {"vop2", "payload", "input"} /\ Behind(Program, at, target)
  <2>1. To(target) \in DOMAIN Program /\ at < To(target)
    BY <1>1, <1>6, ToIsBehind
  <2>2. at' = To(target) /\ stage' = stage
    BY <1>2, <1>6
  <2> QED
    BY <1>2, <2>1, <2>2, StaysInProgram DEF GoesOn
<1> QED
  BY <1>3, <1>4, <1>5, <1>6

LEMMA BeginGoes ==
    ASSUME PlacedInv, Begin
    PROVE  GoesOn /\ PlacedInv'
<1>1. /\ Running /\ Step \in Waits /\ left = 0 /\ at \in DOMAIN Program /\ board \in Boards
      /\ Step = Program[at] /\ at \in Nat /\ bit \in {"off", "on", "old", "error"}
  BY ProgramOrdered DEF PlacedInv, Begin, Step
<1>2. PICK b \in Wait(Step).found :
          \/ /\ Step \in Domains /\ b = "on"
             /\ at' = at + Cardinality(PdConfig[Step])
             /\ UNCHANGED <<board, stage, left, bit>>
          \/ bit' = b /\ left' = Max({1, Wait(Step).reads}) /\ UNCHANGED <<board, stage, at, log>>
  BY DEF Begin
<1>3. CASE /\ Step \in Domains /\ b = "on"
           /\ at' = at + Cardinality(PdConfig[Step])
           /\ UNCHANGED <<board, stage, left, bit>>
  <2>1. at' \in DOMAIN Program
    BY <1>1, <1>3, ProgramOrdered DEF WellOrdered
  <2>2. Cardinality(PdConfig[Step]) \in {1, 2}
    BY <1>3, DomainSizes, Lists
  <2>3. at < at'
    BY <1>1, <1>3, <2>2
  <2> QED
    BY <1>1, <1>3, <2>1, <2>3, StaysInProgram DEF GoesOn
<1>4. CASE bit' = b /\ left' = Max({1, Wait(Step).reads}) /\ UNCHANGED <<board, stage, at, log>>
  <2>1. Wait(Step).reads \in 0 .. Turns + 1 /\ b \in {"off", "on", "old"} /\ Turns \in Nat
    BY <1>1, ReadsAreBounded, TurnsAssumption
  <2> DEFINE n == Wait(Step).reads
  <2>2. Max({1, n}) = IF n = 0 THEN 1 ELSE n
    <3>1. n \in Nat
      BY <2>1
    <3> HIDE DEF n
    <3>2. CASE n \in {0, 1}
      <4>1. 1 \in {1, n} /\ \A x \in {1, n} : 1 >= x
        BY <3>2
      <4>2. \A y \in {1, n} : (\A x \in {1, n} : y >= x) => y = 1
        BY <3>2
      <4> QED
        BY <3>2, <4>1, <4>2 DEF Max
    <3>3. CASE n > 1
      <4>1. n \in {1, n} /\ \A x \in {1, n} : n >= x
        BY <3>1, <3>3
      <4>2. \A y \in {1, n} : (\A x \in {1, n} : y >= x) => y = n
        BY <3>1, <3>3
      <4> QED
        BY <3>1, <3>3, <4>1, <4>2 DEF Max
    <3> QED
      BY <3>1, <3>2, <3>3
  <2>3. left' \in 1 .. Turns + 1
    BY <1>4, <2>1, <2>2
  <2> QED
    BY <1>1, <1>4, <2>1, <2>3, StaysInProgram DEF GoesOn
<1> QED
  BY <1>2, <1>3, <1>4

LEMMA ReadGoes ==
    ASSUME PlacedInv, Read
    PROVE  (GoesOn \/ UNCHANGED boardVars) /\ PlacedInv'
<1>1. /\ Running /\ Step \in Waits /\ left > 0 /\ left \in Nat /\ at \in DOMAIN Program
      /\ bit \in {"off", "on", "old", "error"}
  BY DEF PlacedInv, Read
<1>2. \/ \E report, result : Finish(report, result)
      \/ UNCHANGED boardVars
      \/ left > 1 /\ left' = left - 1 /\ UNCHANGED <<board, stage, at, bit, log>>
  BY <1>1 DEF Read, boardVars
<1>3. CASE UNCHANGED boardVars
  BY <1>1, <1>3, StaysInProgram DEF boardVars
<1>4. CASE left > 1 /\ left' = left - 1 /\ UNCHANGED <<board, stage, at, bit, log>>
  BY <1>1, <1>4, StaysInProgram DEF GoesOn
<1> QED
  BY <1>1, <1>2, <1>3, <1>4, FinishGoes

LEMMA HardwareGoes ==
    ASSUME PlacedInv, Hardware
    PROVE  GoesOn /\ PlacedInv'
<1>1. /\ Running /\ Step \in Waits /\ left > 0 /\ left \in Nat /\ at \in DOMAIN Program
      /\ UNCHANGED <<board, stage, at, left>> /\ <<bit, bit'>> \in BitMoves
  BY DEF PlacedInv, Hardware, BitMoves
<1>2. bit' \in {"off", "on", "old", "error"}
  BY <1>1 DEF BitMoves
<1> QED
  BY <1>1, <1>2, StaysInProgram DEF GoesOn

LEMMA RunGoes ==
    ASSUME PlacedInv, stage = "rom", NEW blob, NEW data, Run(blob, data)
    PROVE  GoesOn /\ PlacedInv'
<1>1. CASE stage' = "lost" /\ UNCHANGED <<board, at, left, bit, log>>
  BY <1>1 DEF GoesOn, PlacedInv, Running, Programs
<1>2. CASE /\ stage' \in {"ddr", "main"} /\ at' = 1 /\ left' = 0 /\ bit' = "off"
           /\ board' = board
  <2>1. board' \in Boards /\ Running'
    BY <1>2 DEF PlacedInv, Running, Programs
  <2>2. 1 \in DOMAIN Program'
    <3>1. \A s \in {"ddr", "main"} : \A b \in Boards : 1 \in DOMAIN Programs[s][b]
      BY ShimSteps, PinebookDdrSteps, PinebookSteps, GenbookSteps, Rk356xSteps DEF Programs, Boards
    <3>2. Program' = Programs[stage'][board']
      BY DEF Program
    <3> QED
      BY <1>2, <2>1, <3>1, <3>2
  <2> QED
    BY <1>2, <2>1, <2>2 DEF GoesOn, PlacedInv
<1> QED
  BY <1>1, <1>2 DEF Run, Start

\* A board only goes on: each program is entered at its first step and left for what comes after it,
\* each step leads to a later one, whatever its waits end with, and each turn of a loop leaves fewer,
\* of Turns + 1 at most (pinebook.c and genbook.c c_entry, rk356x_board_entry, and the loops of
\* clock.c, pmu.c, hdmi.c and analogix_edp.c).  Where the model stutters is the loop without a
\* bound, wait_for_pctl.  This is the half of BoardHandsOver that is about safety.
THEOREM BoardsGoOn == Spec => [][GoesOn]_boardVars
<1>1. Init => PlacedInv
  BY DEF Init, BoardInit, PlacedInv, Running, Programs
<1>2. ASSUME PlacedInv, [Next]_vars
      PROVE  [GoesOn]_boardVars /\ PlacedInv'
  <2>1. CASE LoadImage \/ LoadUsb
    BY <1>2, <2>1, RunGoes DEF LoadImage, LoadUsb
  <2>2. CASE Board
    BY <1>2, <2>2, DoGoes, LeaveGoes, BeginGoes, ReadGoes DEF Board
  <2>3. CASE Environment
    BY <1>2, <2>3, HardwareGoes DEF Environment
  <2>4. CASE UNCHANGED boardVars
    BY <1>2, <2>4 DEF boardVars, PlacedInv, Running, Program, Step
  <2>5. CASE Host \/ UNCHANGED vars
    <3>1. UNCHANGED boardVars
      BY <2>5 DEF Host, vars, boardVars
    <3> QED
      BY <2>4, <3>1
  <2> QED
    BY <1>2, <2>1, <2>2, <2>3, <2>5 DEF Next
<1> QED
  BY <1>1, <1>2, PTL DEF Spec

=============================================================================
