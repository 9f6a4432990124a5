-------------------------------- MODULE Lz4x --------------------------------
(***************************************************************************)
(* The LZ4 compressor of Libraries/lz4x/lz4x.cpp: LZ4_compress_default and *)
(* the function compress it calls.                                         *)
(*                                                                         *)
(* compress cuts its input into blocks, and scans each block once.  At a   *)
(* position p it follows a chain of earlier positions with the same hash   *)
(* (head[h], then tail[s & WINDOW_MASK], tail of that, ...), keeps the     *)
(* longest match, and emits one code: the literals since the last match,   *)
(* the distance and the length of the match.  head is reset for every      *)
(* block; tail never is, and it has one slot for WINDOW_SIZE positions, so *)
(* the search relies on never looking at a slot that a later position, or  *)
(* an earlier block, has written.                                          *)
(*                                                                         *)
(* Abstractions.  A code is a record (literals, distance, length), Encode  *)
(* gives the bytes the program stores for it.  The part of g_buf below     *)
(* BLOCK_SIZE that holds the block is read from source; g_buf at and above *)
(* n holds whatever an earlier block or the output left there, and a hash  *)
(* computed from such bytes is an arbitrary one.  The format's numbers     *)
(* (4, 5, 12, 15, 255) are the program's; only the sizes of the block, of  *)
(* the window and of the hash table are parameters.                        *)
(***************************************************************************)
EXTENDS Integers, Sequences

CONSTANTS
  Byte,          \* the byte values that occur in the inputs
  Inputs,        \* the inputs compress is called with
  BLOCK_SIZE,    \* bytes per block
  WINDOW_SIZE,   \* slots of tail, and the reach of a match
  HASH_SIZE,     \* entries of head
  Hash(_),       \* HASH_32, as a function of the four bytes it loads
  max_chain      \* the bound on the length of a search

Word == Byte \X Byte \X Byte \X Byte

ASSUME ByteAssumption == Byte \subseteq 0..255
ASSUME InputsAssumption == Inputs \subseteq Seq(Byte)
ASSUME BlockSizeAssumption == BLOCK_SIZE \in Nat \ {0}
ASSUME WindowSizeAssumption == WINDOW_SIZE \in Nat \ {0} /\ WINDOW_SIZE <= 65536
ASSUME HashSizeAssumption == HASH_SIZE \in Nat \ {0}
ASSUME HashAssumption == \A w \in Word : Hash(w) \in 0..(HASH_SIZE - 1)
\* LZ4_compress_default passes WINDOW_SIZE.
ASSUME MaxChainAssumption == max_chain \in Nat /\ max_chain >= WINDOW_SIZE

NIL == -1
MIN_MATCH == 4
PADDING_LITERALS == 5
\* Room for the counts alone.
MutTightExcess == BLOCK_SIZE \div 255
EXCESS == 16 + BLOCK_SIZE \div 255
GBUF_SIZE == BLOCK_SIZE + BLOCK_SIZE + EXCESS

MIN(a, b) == IF a < b THEN a ELSE b
MAX(a, b) == IF a > b THEN a ELSE b

VARIABLES
  pc,           \* where compress is: "read", "scan", "chain", "emit", "insert", "write", "done"
  source,       \* the input
  inputIndex,   \* bytes of the input taken so far
  outputIndex,  \* bytes of output written so far
  output,       \* the blocks written so far, each a sequence of codes
  head,         \* hash -> youngest position with that hash
  tail,         \* position modulo WINDOW_SIZE -> next older position with its hash
  n,            \* bytes in the current block
  p,            \* the position being scanned
  pp,           \* the end of the last match: literals not yet emitted start here
  op,           \* index in g_buf of the next byte of output
  top,          \* one more than the highest index of g_buf written so far
  codes,        \* the codes of the current block
  best_len,     \* the length of the best match found at p
  dist,         \* its distance
  s,            \* the candidate the search is at
  chain_len     \* candidates the search may still visit

files  == <<source, inputIndex, outputIndex, output>>
links  == <<head, tail>>
search == <<best_len, dist, s, chain_len>>
cursor == <<n, p, pp, op, top, codes>>
vars   == <<pc, files, links, search, cursor>>

-----------------------------------------------------------------------------
(* The current block, and the words and hashes loaded from it.             *)

blockStart == inputIndex - n

g_buf(i) == source[blockStart + i + 1]

LOAD_32(i) == <<g_buf(i), g_buf(i + 1), g_buf(i + 2), g_buf(i + 3)>>

\* The values HASH_32(i) may have.  Within three bytes of the end of the
\* block the load runs into bytes that are not part of it.
HASH_32(i) == IF i + 4 <= n THEN {Hash(LOAD_32(i))} ELSE 0..(HASH_SIZE - 1)

\* A window one slot too wide.
MutWideLimit == MAX(p - WINDOW_SIZE - 1, NIL)
limit == MAX(p - WINDOW_SIZE, NIL)

\* One byte too far.
MutNoPadding == (n - PADDING_LITERALS) + 1 - p
max_match == (n - PADDING_LITERALS) - p

(***************************************************************************)
(* The bytes of a code.  A count of 15 or more is continued in bytes of    *)
(* 255 and a last one below 255.  len = 0 marks the last code of a block,  *)
(* which is literals only.                                                 *)
(***************************************************************************)
\* What STORE_16 keeps.
U16 == { d \in Nat : d < 65536 }

Code == [lits : Seq(Byte), dist : U16, len : Nat]

ExtSize(k) == IF k >= 15 THEN 1 + (k - 15) \div 255 ELSE 0

\* A last byte of 255, which the decoder takes for one to be continued.
MutExt(k) == IF k >= 15
             THEN [i \in 1..((k - 15) \div 256) |-> 255] \o <<(k - 15) % 256>>
             ELSE <<>>
Ext(k) == IF k >= 15
          THEN [i \in 1..((k - 15) \div 255) |-> 255] \o <<(k - 15) % 255>>
          ELSE <<>>

Nib(len) == MIN(len - MIN_MATCH, 15)

LitSize(run) == 1 + ExtSize(run) + run

MatchSize(len) == 2 + ExtSize(len - MIN_MATCH)

Encode(c) ==
  LET run == Len(c.lits)
      nib == IF c.len = 0 THEN 0 ELSE Nib(c.len)
  IN <<MIN(run, 15) * 16 + nib>> \o Ext(run) \o c.lits \o
     IF c.len = 0 THEN <<>>
     ELSE <<c.dist % 256, (c.dist \div 256) % 256>> \o Ext(c.len - MIN_MATCH)

\* wild_copy moves eight bytes at a time, at least once.
WildSize(run) == 8 * ((run + 7) \div 8)

\* The highest index written when the literals of run bytes start at lit.
WildTop(lit, run) == IF run = 0 THEN lit ELSE lit + WildSize(run)

Literals == [i \in 1..(p - pp) |-> g_buf(pp + i - 1)]

\* No room for comp_len.
MutCompressBound(inputSize) == inputSize + inputSize \div 255
LZ4_compressBound(inputSize) == inputSize + inputSize \div 255 + 16

-----------------------------------------------------------------------------
Init ==
  /\ pc = "read"
  /\ source \in Inputs
  /\ inputIndex = 0 /\ outputIndex = 0 /\ output = <<>>
  /\ head = [h \in 0..(HASH_SIZE - 1) |-> 0]     \* static: zero until a block starts
  /\ tail = [i \in 0..(WINDOW_SIZE - 1) |-> 0]
  /\ n = 0 /\ p = 0 /\ pp = 0 /\ op = BLOCK_SIZE /\ top = 0 /\ codes = <<>>
  /\ best_len = 0 /\ dist = 0 /\ s = NIL /\ chain_len = 0

\* readData takes what is left of the input, a block at most.
Available == MIN(BLOCK_SIZE, Len(source) - inputIndex)

\* The chains of the block before, kept.
MutKeptHead == head
EmptyHead == [h \in 0..(HASH_SIZE - 1) |-> NIL]

ReadBlock ==
  /\ pc = "read" /\ Available > 0
  /\ n' = Available
  /\ inputIndex' = inputIndex + Available
  /\ head' = EmptyHead
  /\ op' = BLOCK_SIZE /\ pp' = 0 /\ p' = 0
  /\ top' = MAX(top, Available)
  /\ codes' = <<>>
  /\ pc' = "scan"
  /\ UNCHANGED <<source, outputIndex, output, tail, search>>

Finish ==
  /\ pc = "read" /\ Available = 0
  /\ pc' = "done"
  /\ UNCHANGED <<files, links, search, cursor>>

\* A match may start here: it can reach over the minimal length and still
\* leave the literals that must end a block.
Searchable == max_match >= MAX(12 - PADDING_LITERALS, MIN_MATCH)

BeginSearch ==
  /\ pc = "scan" /\ p < n /\ Searchable
  /\ best_len' = 0 /\ dist' = 0
  /\ chain_len' = max_chain
  /\ \E h \in HASH_32(p) : s' = head[h]
  /\ pc' = "chain"
  /\ UNCHANGED <<files, links, cursor>>

SkipSearch ==
  /\ pc = "scan" /\ p < n /\ ~Searchable
  /\ best_len' = 0 /\ dist' = 0
  /\ pc' = "emit"
  /\ UNCHANGED <<files, links, cursor, s, chain_len>>

-----------------------------------------------------------------------------
(* One candidate of the chain.                                             *)

\* The quick test one byte too far on.
MutCandidate == g_buf(s + best_len + 1) = g_buf(p + best_len + 1) /\ LOAD_32(s) = LOAD_32(p)

\* A match longer than best_len must agree at best_len as well.
Candidate == g_buf(s + best_len) = g_buf(p + best_len) /\ LOAD_32(s) = LOAD_32(p)

\* The length counted before the bytes are compared.
MutMatchLength(len) ==
  /\ \A k \in 0..(len - 2) : g_buf(s + k) = g_buf(p + k)
  /\ len = max_match \/ g_buf(s + len - 1) # g_buf(p + len - 1)

\* len is where the loop that extends a match of MIN_MATCH bytes stops.
MatchLength(len) ==
  /\ \A k \in 0..(len - 1) : g_buf(s + k) = g_buf(p + k)
  /\ len = max_match \/ g_buf(s + len) # g_buf(p + len)

EndSearch == pc' = "emit" /\ UNCHANGED <<s, chain_len>>

NextCandidate ==
  /\ chain_len' = chain_len - 1
  /\ IF chain_len' = 0
     THEN pc' = "emit" /\ s' = s
     ELSE pc' = pc /\ s' = tail[s % WINDOW_SIZE]

Improve ==
  /\ pc = "chain" /\ s > limit /\ Candidate
  /\ \E len \in MIN_MATCH..max_match :
       /\ MatchLength(len) /\ len > best_len
       /\ best_len' = len /\ dist' = p - s
       /\ IF len = max_match THEN EndSearch ELSE NextCandidate
  /\ UNCHANGED <<files, links, cursor>>

PassOver ==
  /\ pc = "chain" /\ s > limit
  /\ Candidate => \E len \in MIN_MATCH..max_match : MatchLength(len) /\ len <= best_len
  /\ NextCandidate
  /\ UNCHANGED <<files, links, cursor, best_len, dist>>

ChainEnds ==
  /\ pc = "chain" /\ s <= limit
  /\ EndSearch
  /\ UNCHANGED <<files, links, cursor, best_len, dist>>

-----------------------------------------------------------------------------
(* Emitting codes and entering positions into the chains.                  *)

\* The increment of p lost.
MutInsertStays(h) ==
  /\ tail' = [tail EXCEPT ![p % WINDOW_SIZE] = head[h]]
  /\ head' = [head EXCEPT ![h] = p]
  /\ p' = p

Insert(h) ==
  /\ tail' = [tail EXCEPT ![p % WINDOW_SIZE] = head[h]]
  /\ head' = [head EXCEPT ![h] = p]
  /\ p' = p + 1

EmitMatch ==
  /\ pc = "emit" /\ best_len >= MIN_MATCH
  /\ LET lit == op + 1 + ExtSize(p - pp)
     IN /\ codes' = Append(codes, [lits |-> Literals, dist |-> dist, len |-> best_len])
        /\ op' = op + LitSize(p - pp) + MatchSize(best_len)
        /\ top' = MAX(top, MAX(op', WildTop(lit, p - pp)))
  /\ pp' = p + best_len
  /\ pc' = "insert"
  /\ UNCHANGED <<files, links, search, n, p>>

\* The loop that enters every position of the match just emitted.
InsertMatched ==
  /\ pc = "insert"
  /\ \E h \in HASH_32(p) : Insert(h)
  /\ pc' = IF p' = pp THEN "scan" ELSE "insert"
  /\ UNCHANGED <<files, search, n, pp, op, top, codes>>

InsertLiteral ==
  /\ pc = "emit" /\ best_len < MIN_MATCH
  /\ \E h \in HASH_32(p) : Insert(h)
  /\ pc' = "scan"
  /\ UNCHANGED <<files, search, n, pp, op, top, codes>>

\* The literals that end the block, if there are any.
FlushLiterals ==
  /\ pc = "scan" /\ p >= n
  /\ IF pp # p
     THEN /\ codes' = Append(codes, [lits |-> Literals, dist |-> 0, len |-> 0])
          /\ op' = op + LitSize(p - pp)
          /\ top' = MAX(top, WildTop(op + 1 + ExtSize(p - pp), p - pp))
     ELSE UNCHANGED <<codes, op, top>>
  /\ pc' = "write"
  /\ UNCHANGED <<files, links, search, n, p, pp>>

\* comp_len in four bytes, then the block.
WriteBlock ==
  /\ pc = "write"
  /\ output' = Append(output, codes)
  /\ outputIndex' = outputIndex + 4 + (op - BLOCK_SIZE)
  /\ pc' = "read"
  /\ UNCHANGED <<source, inputIndex, links, search, cursor>>

Next ==
  \/ ReadBlock \/ Finish \/ FlushLiterals \/ WriteBlock
  \/ BeginSearch \/ SkipSearch
  \/ Improve \/ PassOver \/ ChainEnds
  \/ EmitMatch \/ InsertMatched \/ InsertLiteral

Spec == Init /\ [][Next]_vars

\* compress is one thread of straight-line code: it always takes its next step.
FairSpec == Spec /\ WF_vars(Next)

-----------------------------------------------------------------------------
(***************************************************************************)
(* Properties.                                                             *)
(***************************************************************************)
Position == NIL..(BLOCK_SIZE - 1)

(* The type invariant: every cursor stays in the block, every link is a    *)
(* position or NIL, and the output grows from BLOCK_SIZE.                  *)
TypeOK ==
  /\ pc \in {"read", "scan", "chain", "emit", "insert", "write", "done"}
  /\ source \in Inputs
  /\ n \in 0..BLOCK_SIZE /\ inputIndex \in n..Len(source)
  /\ outputIndex \in Nat
  /\ output \in Seq(Seq(Code)) /\ codes \in Seq(Code)
  /\ head \in [0..(HASH_SIZE - 1) -> Position]
  /\ tail \in [0..(WINDOW_SIZE - 1) -> Position]
  /\ p \in 0..n /\ pp \in 0..n
  /\ op \in Nat /\ op >= BLOCK_SIZE /\ top \in Nat
  /\ best_len \in 0..BLOCK_SIZE /\ dist \in 0..(WINDOW_SIZE - 1)
  /\ s \in Position
  /\ chain_len \in 0..max_chain

\* The hash of a position whose four bytes are all in the block.
Whole(i)  == i + 4 <= n
HashAt(i) == Hash(LOAD_32(i))

\* q is the youngest position below i with hash h, or NIL if there is none.
Youngest(q, h, i) ==
  /\ q \in NIL..(i - 1)
  /\ q # NIL /\ Whole(q) => HashAt(q) = h
  /\ \A r \in (q + 1)..(i - 1) : Whole(r) => HashAt(r) # h

InBlock == pc \in {"scan", "chain", "emit", "insert"}

(* The chains are intact: head and every slot of tail the search may still *)
(* use lead to the next older position of the block with that hash.  A     *)
(* slot overwritten too early, or one left by an earlier block, breaks it. *)
ChainsIntact ==
  InBlock =>
    /\ \A h \in 0..(HASH_SIZE - 1) : Youngest(head[h], h, p)
    /\ \A q \in MAX(p - WINDOW_SIZE, 0)..(p - 1) :
         IF Whole(q) THEN Youngest(tail[q % WINDOW_SIZE], HashAt(q), q)
         ELSE tail[q % WINDOW_SIZE] \in NIL..(q - 1)

\* At q there is a match for p longer than len, and long enough to be used.
Beats(q, len) == \A k \in 0..MAX(len, MIN_MATCH - 1) : g_buf(q + k) = g_buf(p + k)

(* What the search finds is the longest match the window holds, and the    *)
(* nearest of the longest: no candidate is lost to the quick test at       *)
(* best_len, to a broken chain, or to chain_len.                           *)
LongestMatch ==
  pc = "emit" /\ Searchable =>
    /\ best_len = max_match \/ \A q \in (limit + 1)..(p - 1) : ~Beats(q, best_len)
    /\ best_len > 0 => \A q \in (p - dist + 1)..(p - 1) : ~Beats(q, best_len - 1)

(* Every block ends in literals: the decoder looks for the end of a block  *)
(* only after literals.  The last five bytes are never matched, and no     *)
(* match starts in the last twelve.                                        *)
EndsInLiterals ==
  pc = "write" =>
    /\ codes # <<>>
    /\ LET last == codes[Len(codes)]
       IN /\ last.len = 0
          /\ Len(last.lits) >= MIN(PADDING_LITERALS, n)
          /\ \A i \in 1..(Len(codes) - 1) : codes[i].len >= MIN_MATCH
          /\ Len(codes) > 1 =>
               codes[Len(codes) - 1].len + Len(last.lits) >= 12

(* g_buf is large enough for the block, its codes and the bytes wild_copy  *)
(* writes past the end of the literals, and a block grows by no more than  *)
(* two bytes and one in 255.                                               *)
OutputFits ==
  /\ top <= GBUF_SIZE
  /\ pc = "write" => op - BLOCK_SIZE <= n + n \div 255 + 2

(* The buffer the caller allocates with LZ4_compressBound holds what is    *)
(* written for an input of one or two blocks.  The bound has room for the  *)
(* four bytes of comp_len twice, not for any number of blocks.             *)
FitsCompressBound ==
  Len(source) <= 2 * BLOCK_SIZE => outputIndex <= LZ4_compressBound(Len(source))

(* compress returns.                                                       *)
Termination == <>(pc = "done")

-----------------------------------------------------------------------------
(***************************************************************************)
(* The inductive invariant behind the theorems of Lz4xProofs.              *)
(***************************************************************************)
Searching == pc \in {"chain", "emit"}

\* The order of the cursors at each point of the loop.
CursorsInOrder ==
  /\ InBlock => n > 0 /\ (pp = 0 \/ pp <= n - PADDING_LITERALS)
  /\ pc = "scan" => pp <= p
  /\ Searching => pp <= p /\ p < n
  /\ pc = "chain" => Searchable
  /\ pc = "emit" /\ ~Searchable => best_len = 0
  /\ pc = "insert" => p < pp

\* The best match found so far is one.
MatchFound ==
  Searching /\ best_len > 0 =>
    /\ best_len \in MIN_MATCH..max_match
    /\ dist \in 1..(p - limit - 1) /\ dist <= p
    /\ \A k \in 0..(best_len - 1) : g_buf(p - dist + k) = g_buf(p + k)

\* No candidate the search has passed beats it, nor equals it nearer by; and
\* chain_len allows for every candidate still to come.
SearchExact ==
  pc = "chain" =>
    /\ best_len = 0 \/ best_len < max_match
    /\ s < p
    /\ s > limit => chain_len >= s - limit
    /\ \A q \in (limit + 1)..(p - 1) : q > s => ~Beats(q, best_len)
    /\ s # NIL => HashAt(s) = HashAt(p)
    /\ best_len > 0 => \A q \in (p - dist + 1)..(p - 1) : ~Beats(q, best_len - 1)

Inv ==
  /\ TypeOK
  /\ CursorsInOrder
  /\ ChainsIntact
  /\ MatchFound
  /\ SearchExact
  /\ LongestMatch
=============================================================================
