------------------------------- MODULE Sha256 -------------------------------
(***************************************************************************)
(* chain_sha256_init, _update and _final: how a message that comes in      *)
(* pieces is cut into blocks and padded.  The compression function is left *)
(* uninterpreted: the hash is the sequence of the blocks it absorbed.  The *)
(* buffer keeps the bytes of the block before, as it does in the code.     *)
(***************************************************************************)
EXTENDS Integers, SequencesExt

CONSTANTS
    BlockSize,      \* 64
    LengthSize,     \* 8, the bytes of the bit count at the end
    LongestMessage  \* how long the messages are that HashesBlocks is about

ASSUME ShaAssumption ==
    {BlockSize, LengthSize, LongestMessage} \subseteq Nat /\ LengthSize < BlockSize

\* What a byte of a block can be: one of the message, padding, or of the bit count
Byte(k) == <<"byte", k, 0>>
Zero == <<"zero", 0, 0>>
Mark == <<"0x80", 0, 0>>
LengthByte(total, i) == <<"length", total, i>>

Sha256Init == [h |-> <<>>, total |-> 0, used |-> 0, block |-> [i \in 1 .. BlockSize |-> Zero]]

Transform(ctx) == [ctx EXCEPT !.h = Append(@, ctx.block), !.used = 0]

\* copy_bytes of one byte behind those in use, and the block when it is full
Put(ctx, byte) ==
    LET next == [ctx EXCEPT !.block[ctx.used + 1] = byte, !.used = @ + 1]
    IN  IF next.used = BlockSize THEN Transform(next) ELSE next

Update(ctx, data) ==
    FoldLeft(Put, [ctx EXCEPT !.total = @ + Len(data)], data)

\* The block from place first up to last set to zero
Clear(ctx, last) ==
    [ctx EXCEPT !.block = [i \in 1 .. BlockSize |->
        IF i > ctx.used /\ i <= last THEN Zero ELSE ctx.block[i]], !.used = last]

\* Mutant: a block is begun only when the mark leaves no room at all.
Final_NoRoom(ctx) ==
    LET marked == [ctx EXCEPT !.block[ctx.used + 1] = Mark, !.used = @ + 1]
        room == BlockSize - LengthSize
        begun == IF marked.used = BlockSize THEN Transform(marked) ELSE marked
        cleared == IF begun.used < room THEN Clear(begun, room) ELSE begun
    IN  Transform([cleared EXCEPT !.block = [i \in 1 .. BlockSize |->
            IF i > room THEN LengthByte(ctx.total, i - room) ELSE cleared.block[i]]]).h

\* The mark never fills the block: used is below BlockSize whenever Update returns
Final(ctx) ==
    LET marked == [ctx EXCEPT !.block[ctx.used + 1] = Mark, !.used = @ + 1]
        room == BlockSize - LengthSize
        begun == IF marked.used > room THEN Transform(Clear(marked, BlockSize)) ELSE marked
        cleared == Clear(begun, room)
    IN  Transform([cleared EXCEPT !.block = [i \in 1 .. BlockSize |->
            IF i > room THEN LengthByte(ctx.total, i - room) ELSE cleared.block[i]]]).h

Digest(pieces) == Final(FoldLeft(Update, Sha256Init, pieces))

-----------------------------------------------------------------------------
\* The padding of FIPS 180-4, and its blocks
Padded(message) ==
    LET body == Append(message, Mark)
        zeros == CHOOSE k \in 0 .. BlockSize - 1 :
                     (Len(body) + k + LengthSize) % BlockSize = 0
    IN  body \o [i \in 1 .. zeros |-> Zero]
             \o [i \in 1 .. LengthSize |-> LengthByte(Len(message), i)]
Blocks(bytes) ==
    [b \in 1 .. Len(bytes) \div BlockSize |->
        SubSeq(bytes, (b - 1) * BlockSize + 1, b * BlockSize)]

\* However a message is cut into three pieces, what is hashed are the blocks of the padded
\* message: no byte of an earlier block is hashed again, and the length gets a block of its own
\* exactly when it does not fit behind the mark (sha256.c chain_sha256_update, _final).
HashesBlocks ==
    \A n \in 0 .. LongestMessage : \A i \in 0 .. n : \A j \in i .. n :
        LET message == [k \in 1 .. n |-> Byte(k)]
            pieces == <<SubSeq(message, 1, i), SubSeq(message, i + 1, j), SubSeq(message, j + 1, n)>>
        IN  Digest(pieces) = Blocks(Padded(message))
=============================================================================
