----------------------------- MODULE Lz4xFormat -----------------------------
(***************************************************************************)
(* compress together with the decoder of Libraries/lz4x/lz4x.cpp, which is *)
(* the reference for what a block of codes means: each block is decoded as *)
(* soon as it is written.  The program never runs the decoder: decompress  *)
(* stands between #if 0 and #endif, and it is the repository's only        *)
(* statement of the format that compress writes.                           *)
(*                                                                         *)
(* decompress has a g_buf of its own, memory.  A block is decoded at 0,    *)
(* its codes are read from BLOCK_SIZE on, and the eight bytes at a time of *)
(* wild_copy may run past either.  LZ4_MAGIC, for which decompress skips a *)
(* block, is no length that compress writes.                               *)
(***************************************************************************)
EXTENDS Lz4x

VARIABLES
  comp,    \* g_buf of compress from BLOCK_SIZE to op: the bytes of codes
  phase,   \* where decompress is: "idle", "token", "match", "write", "corrupt"
  memory,  \* g_buf of decompress, a function on 0..(GBUF_SIZE - 1)
  at,      \* its p
  ip,      \* index in memory of the next byte to read
  token,   \* the last token
  g_out    \* what decompress has written

decoder   == <<phase, memory, at, ip, token, g_out>>
codecVars == <<vars, comp, decoder>>

(***************************************************************************)
(* Copying size bytes upwards from one index of mem to a higher or a lower *)
(* one, step at a time: a byte read below d plus the steps already made    *)
(* has been written by this same copy.  Bytes past GBUF_SIZE enlarge mem.   *)
(***************************************************************************)
Copied(mem, d, from, size, step) ==
  LET byte[i \in 0..(size - 1)] ==
        IF from + i >= d /\ from + i < d + step * (i \div step)
        THEN byte[from + i - d] ELSE mem[from + i]
  IN [j \in 0..(MAX(GBUF_SIZE, d + size) - 1) |->
       IF d <= j /\ j < d + size THEN byte[j - d] ELSE mem[j]]

\* Eight bytes at a time, in two COPY_32.
wild_copy(mem, d, from, len) == Copied(mem, d, from, WildSize(MAX(len, 1)), 4)

\* A count of 15 goes on in the bytes at i, up to the first that is not 255.
Extended(mem, i, nibble) ==
  LET more == CHOOSE k \in 0..GBUF_SIZE :
                mem[i + k] # 255 /\ \A j \in 0..(k - 1) : mem[i + j] = 255
  IN IF nibble = 15
     THEN [value |-> 15 + 255 * more + mem[i + more], end |-> i + more + 1]
     ELSE [value |-> nibble, end |-> i]

-----------------------------------------------------------------------------
CodecInit ==
  /\ Init /\ comp = <<>>
  /\ phase = "idle" /\ at = 0 /\ ip = BLOCK_SIZE /\ token = 0 /\ g_out = <<>>
  /\ memory = [i \in 0..(GBUF_SIZE - 1) |-> 0]

\* What the codes of the block are stored as.
Stored ==
  IF codes' = codes THEN comp
  ELSE IF codes' = <<>> THEN <<>> ELSE comp \o Encode(codes'[Len(codes')])

Compress ==
  /\ phase = "idle" /\ pc # "write"
  /\ Next /\ comp' = Stored
  /\ UNCHANGED decoder

\* The codes of the block that compress writes are read into memory.
ReceiveBlock ==
  /\ phase = "idle" /\ WriteBlock
  /\ IF Len(comp) < 2 \/ Len(comp) > BLOCK_SIZE + EXCESS
     THEN phase' = "corrupt" /\ UNCHANGED <<memory, at, ip>>
     ELSE /\ phase' = "token" /\ at' = 0 /\ ip' = BLOCK_SIZE
          /\ memory' = [i \in DOMAIN memory |->
               IF i \in BLOCK_SIZE..(BLOCK_SIZE + Len(comp) - 1)
               THEN comp[i - BLOCK_SIZE + 1] ELSE memory[i]]
  /\ UNCHANGED <<comp, token, g_out>>

ip_end == BLOCK_SIZE + Len(comp)

\* A token and the literals it announces; after these the block may end.
DecodeLiterals ==
  /\ phase = "token" /\ token' = memory[ip]
  /\ \E run \in { Extended(memory, ip + 1, memory[ip] \div 16) } :
       IF memory[ip] < 16 THEN phase' = "match" /\ ip' = ip + 1 /\ UNCHANGED <<memory, at>>
       ELSE IF at + run.value > BLOCK_SIZE
       THEN phase' = "corrupt" /\ UNCHANGED <<memory, at, ip>>
       ELSE /\ memory' = wild_copy(memory, at, run.end, run.value)
            /\ at' = at + run.value /\ ip' = run.end + run.value
            /\ phase' = IF run.end + run.value >= ip_end THEN "write" ELSE "match"
  /\ UNCHANGED <<vars, comp, g_out>>

\* The distance, the count and the copy of a match.
DecodeMatch ==
  /\ phase = "match"
  /\ \E d \in { memory[ip] + 256 * memory[ip + 1] },
        count \in { Extended(memory, ip + 2, token % 16) } :
       LET len  == count.value + MIN_MATCH
           from == at - d
       IN IF from < 0 \/ at + len > BLOCK_SIZE
          THEN phase' = "corrupt" /\ UNCHANGED <<memory, at, ip>>
          ELSE /\ memory' = IF d >= 4 THEN wild_copy(memory, at, from, len)
                                 ELSE Copied(memory, at, from, len, 1)
               /\ at' = at + len /\ ip' = count.end /\ phase' = "token"
  /\ UNCHANGED <<vars, comp, token, g_out>>

\* fwrite of the decoded block.
WriteDecoded ==
  /\ phase = "write"
  /\ g_out' = g_out \o [i \in 1..at |-> memory[i - 1]]
  /\ phase' = "idle"
  /\ UNCHANGED <<vars, comp, memory, at, ip, token>>

CodecNext == Compress \/ ReceiveBlock \/ DecodeLiterals \/ DecodeMatch \/ WriteDecoded

CodecSpec == CodecInit /\ [][CodecNext]_codecVars

\* Both functions are straight-line code: the next step is always taken.
FairCodecSpec == CodecSpec /\ WF_codecVars(CodecNext)

-----------------------------------------------------------------------------
(* What compress has written decodes to what it has read, block by block;  *)
(* nothing in it looks corrupt to decompress, or makes it write past       *)
(* g_buf; and a block's bytes are as many as op counts.                    *)
RoundTrip ==
  /\ phase # "corrupt" /\ DOMAIN memory = 0..(GBUF_SIZE - 1)
  /\ Len(comp) = op - BLOCK_SIZE
  /\ phase = "idle" /\ pc \in {"read", "done"} => g_out = SubSeq(source, 1, inputIndex)
=============================================================================
