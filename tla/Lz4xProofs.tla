----------------------------- MODULE Lz4xProofs -----------------------------
(***************************************************************************)
(* Theorems about compress, for every input, block size, window size and   *)
(* hash function the assumptions of Lz4x allow, in five parts: the search  *)
(* for matches; what is written, that is how long it is and how a block    *)
(* ends; that compress implements Lz77, where a decoder that carries out   *)
(* the codes in order rebuilds the input; that decompress, reading the     *)
(* bytes of the codes, rebuilds it too; and that no loop goes on for ever. *)
(***************************************************************************)
EXTENDS Lz4xRefinement, Lz4xFormat, SequenceTheorems, WellFoundedInduction, TLAPS

USE DEF NIL, MIN_MATCH, PADDING_LITERALS

-----------------------------------------------------------------------------
(* Lemmas on the operators of the model.                                   *)

\* Positions closer than the window have different slots in tail.
LEMMA SlotsDistinct ==
  ASSUME NEW w \in Nat \ {0}, NEW a \in Nat, NEW b \in Nat, a < b, b < a + w
  PROVE  /\ a % w \in 0..(w - 1)
         /\ a % w # b % w
  <1>1. /\ a = w * (a \div w) + (a % w) /\ a % w \in 0..(w - 1)
        /\ b = w * (b \div w) + (b % w) /\ b % w \in 0..(w - 1)
        /\ a \div w \in Int /\ b \div w \in Int
    OBVIOUS
  <1>2. ASSUME a % w = b % w PROVE FALSE
    <2> DEFINE k == (b \div w) - (a \div w)
    <2>1. b - a = w * k /\ k \in Int
      BY <1>1, <1>2
    <2>2. 0 < w * k /\ w * k < w
      BY <2>1
    <2> HIDE DEF k
    <2>3. k > 0 /\ k < 1
      BY <2>1, <2>2
    <2>4. QED
      BY <2>1, <2>3
  <1>3. QED
    BY <1>1, <1>2

\* What the assumptions say of the constants, in one place.
LEMMA Constants ==
  /\ Byte \subseteq 0..255 /\ Inputs \subseteq Seq(Byte)
  /\ BLOCK_SIZE \in Nat \ {0}
  /\ WINDOW_SIZE \in Nat \ {0} /\ WINDOW_SIZE <= 65536
  /\ HASH_SIZE \in Nat \ {0}
  /\ max_chain \in Nat /\ max_chain >= WINDOW_SIZE
  <1>1. Byte \subseteq 0..255 /\ Inputs \subseteq Seq(Byte)
    BY ByteAssumption, InputsAssumption, Zenon
  <1>2. WINDOW_SIZE \in Nat \ {0} /\ WINDOW_SIZE <= 65536
    BY WindowSizeAssumption
  <1>3. BLOCK_SIZE \in Nat \ {0} /\ HASH_SIZE \in Nat \ {0}
    BY BlockSizeAssumption, HashSizeAssumption
  <1>4. max_chain \in Nat /\ max_chain >= WINDOW_SIZE
    BY MaxChainAssumption
  <1> QED
    BY <1>1, <1>2, <1>3, <1>4

\* Inside the block g_buf holds bytes, and whole positions have hashes.
LEMMA BlockBytes ==
  ASSUME TypeOK
  PROVE  /\ \A i \in 0..(n - 1) : g_buf(i) \in Byte
         /\ \A i \in 0..(n - 1) : Whole(i) => HashAt(i) \in 0..(HASH_SIZE - 1)
         /\ Len(source) \in Nat
  <1>1. source \in Seq(Byte) /\ Len(source) \in Nat /\ n \in Nat /\ inputIndex \in Nat
        /\ inputIndex <= Len(source) /\ n <= inputIndex
    BY Constants DEF TypeOK
  <1>2. \A i \in 0..(n - 1) : g_buf(i) \in Byte
    <2> TAKE i \in 0..(n - 1)
    <2>1. inputIndex - n + i + 1 \in 1..Len(source)
      BY <1>1
    <2> QED
      BY <1>1, <2>1 DEF g_buf, blockStart
  <1>3. ASSUME NEW i \in 0..(n - 1), Whole(i)
        PROVE  HashAt(i) \in 0..(HASH_SIZE - 1)
    <2>1. g_buf(i) \in Byte /\ g_buf(i + 1) \in Byte /\ g_buf(i + 2) \in Byte
          /\ g_buf(i + 3) \in Byte
      BY <1>1, <1>2, <1>3 DEF Whole
    <2>2. LOAD_32(i) \in Word
      BY <2>1 DEF LOAD_32, Word
    <2> QED
      BY <2>2, HashAssumption DEF HashAt
  <1> QED
    BY <1>1, <1>2, <1>3

\* A hash the program may compute is an entry of head.
LEMMA HashRange ==
  ASSUME TypeOK, NEW i \in 0..(n - 1), NEW h \in HASH_32(i)
  PROVE  /\ h \in 0..(HASH_SIZE - 1)
         /\ Whole(i) => h = HashAt(i)
  BY BlockBytes, Constants DEF HASH_32, Whole, HashAt

\* While the block stays, so do its bytes, words and hashes.
LEMMA BlockStays ==
  ASSUME UNCHANGED <<source, inputIndex, n>>
  PROVE  /\ \A i : g_buf(i)' = g_buf(i)
         /\ \A i : LOAD_32(i)' = LOAD_32(i)
         /\ \A i : HashAt(i)' = HashAt(i)
         /\ \A i : Whole(i)' = Whole(i)
         /\ blockStart' = blockStart
  BY DEF g_buf, LOAD_32, HashAt, Whole, blockStart

\* A match at q longer than len starts with the word at p.
LEMMA BeatsSameWord ==
  ASSUME NEW q \in Int, NEW len \in Nat, Beats(q, len), p \in Int
  PROVE  LOAD_32(q) = LOAD_32(p) /\ HashAt(q) = HashAt(p)
  <1>1. \A k \in 0..3 : g_buf(q + k) = g_buf(p + k)
    BY DEF Beats, MAX
  <1>2. g_buf(q) = g_buf(p) /\ g_buf(q + 1) = g_buf(p + 1)
        /\ g_buf(q + 2) = g_buf(p + 2) /\ g_buf(q + 3) = g_buf(p + 3)
    <2>1. q + 0 = q /\ p + 0 = p
      OBVIOUS
    <2> QED
      BY <1>1, <2>1
  <1> QED
    BY <1>2 DEF LOAD_32, HashAt


\* Beating a longer match is harder.
LEMMA BeatsMonotone ==
  ASSUME NEW q \in Int, NEW a \in Nat, NEW b \in Nat, a <= b, Beats(q, b)
  PROVE  Beats(q, a)
  BY DEF Beats, MAX

\* The bounds of a search at p.
LEMMA Bounds ==
  ASSUME TypeOK
  PROVE  /\ p \in Nat /\ n \in Nat /\ p <= n /\ pp \in Nat /\ pp <= n /\ n <= BLOCK_SIZE
         /\ limit \in Int /\ limit >= NIL /\ limit >= p - WINDOW_SIZE
         /\ limit = NIL \/ limit = p - WINDOW_SIZE
         /\ max_match \in Int /\ max_match = n - 5 - p
         /\ Searchable <=> p + 12 <= n
         /\ best_len \in Nat /\ dist \in Nat /\ s \in Int /\ s >= NIL /\ chain_len \in Nat
  BY Constants DEF TypeOK, limit, max_match, MAX, Searchable, Position

-----------------------------------------------------------------------------
(* Every step of the search keeps the block, the cursors and the links, so *)
(* the primed invariants say the same of the same block.                   *)

LEMMA ChainsStay ==
  ASSUME ChainsIntact, InBlock, UNCHANGED <<files, links, cursor>>
  PROVE  ChainsIntact'
  BY DEF ChainsIntact, InBlock, files, links, cursor, Youngest, Whole, HashAt, LOAD_32,
         g_buf, blockStart

LEMMA SearchStays ==
  ASSUME UNCHANGED <<files, links, cursor>>,
         NEW b, NEW d, NEW q1, NEW c,
         best_len' = b, dist' = d, s' = q1, chain_len' = c
  PROVE  /\ limit' = limit /\ max_match' = max_match /\ Searchable' = Searchable
         /\ (pc' = "chain" =>
               /\ b = 0 \/ b < max_match
               /\ q1 < p
               /\ q1 > limit => c >= q1 - limit
               /\ \A q \in (limit + 1)..(p - 1) : q > q1 => ~Beats(q, b)
               /\ q1 # NIL => HashAt(q1) = HashAt(p)
               /\ b > 0 => \A q \in (p - d + 1)..(p - 1) : ~Beats(q, b - 1))
            => SearchExact'
         /\ (pc' = "emit" /\ Searchable =>
               /\ b = max_match \/ \A q \in (limit + 1)..(p - 1) : ~Beats(q, b)
               /\ b > 0 => \A q \in (p - d + 1)..(p - 1) : ~Beats(q, b - 1))
            => LongestMatch'
         /\ (pc' \in {"chain", "emit"} /\ b > 0 =>
               /\ b \in MIN_MATCH..max_match
               /\ d \in 1..(p - limit - 1) /\ d <= p
               /\ \A k \in 0..(b - 1) : g_buf(p - d + k) = g_buf(p + k))
            => MatchFound'
  <1>1. limit' = limit /\ max_match' = max_match /\ Searchable' = Searchable
    BY DEF files, links, cursor, limit, max_match, Searchable
  <1> USE <1>1
  <1>2. p' = p /\ n' = n /\ source' = source /\ inputIndex' = inputIndex
    BY DEF files, cursor
  <1>3. (pc' = "chain" =>
               /\ b = 0 \/ b < max_match
               /\ q1 < p
               /\ q1 > limit => c >= q1 - limit
               /\ \A q \in (limit + 1)..(p - 1) : q > q1 => ~Beats(q, b)
               /\ q1 # NIL => HashAt(q1) = HashAt(p)
               /\ b > 0 => \A q \in (p - d + 1)..(p - 1) : ~Beats(q, b - 1))
            => SearchExact'
    BY <1>2 DEF SearchExact, Beats, HashAt, LOAD_32, g_buf, blockStart
  <1>4. (pc' = "emit" /\ Searchable =>
               /\ b = max_match \/ \A q \in (limit + 1)..(p - 1) : ~Beats(q, b)
               /\ b > 0 => \A q \in (p - d + 1)..(p - 1) : ~Beats(q, b - 1))
            => LongestMatch'
    BY <1>2 DEF LongestMatch, Beats, g_buf, blockStart
  <1>5. (pc' \in {"chain", "emit"} /\ b > 0 =>
               /\ b \in MIN_MATCH..max_match
               /\ d \in 1..(p - limit - 1) /\ d <= p
               /\ \A k \in 0..(b - 1) : g_buf(p - d + k) = g_buf(p + k))
            => MatchFound'
    BY <1>2 DEF MatchFound, Searching, g_buf, blockStart
  <1> QED
    BY <1>1, <1>3, <1>4, <1>5

-----------------------------------------------------------------------------
(* The search.                                                             *)

\* Positions a search passes over without visiting them have another hash
\* than p, so no match for p starts there.
LEMMA Passed ==
  ASSUME TypeOK, NEW a \in Int, NEW b \in Int, a >= NIL, b <= p,
         Whole(p), Youngest(a, HashAt(p), b), NEW len \in Nat
  PROVE  /\ \A q \in (a + 1)..(b - 1) : ~Beats(q, len)
         /\ a # NIL => HashAt(a) = HashAt(p)
  <1> USE Bounds
  <1>1. ASSUME NEW q \in (a + 1)..(b - 1), Beats(q, len) PROVE FALSE
    <2>1. q \in Int /\ q < p /\ Whole(q)
      BY DEF Whole
    <2>2. HashAt(q) # HashAt(p)
      BY <2>1 DEF Youngest
    <2> QED
      BY <1>1, <2>1, <2>2, BeatsSameWord
  <1>2. a # NIL => HashAt(a) = HashAt(p)
    BY DEF Youngest, Whole
  <1> QED
    BY <1>1, <1>2

LEMMA BeginSearchKeeps ==
  ASSUME TypeOK, CursorsInOrder, ChainsIntact, BeginSearch
  PROVE  MatchFound' /\ SearchExact' /\ LongestMatch'
  <1> USE Bounds
  <1>1. PICK h \in HASH_32(p) : s' = head[h]
    BY DEF BeginSearch
  <1> DEFINE q1 == head[h]
  <1>2. p < n /\ Whole(p) /\ p \in 0..(n - 1)
    BY DEF BeginSearch, Whole
  <1>3. h = HashAt(p) /\ h \in 0..(HASH_SIZE - 1)
    BY <1>2, HashRange
  <1>4. Youngest(q1, HashAt(p), p)
    BY <1>3 DEF BeginSearch, ChainsIntact, InBlock
  <1> HIDE DEF q1
  <1>5. q1 \in NIL..(p - 1) /\ q1 \in Int /\ q1 >= NIL
    BY <1>4 DEF Youngest
  <1>6. /\ \A q \in (q1 + 1)..(p - 1) : ~Beats(q, 0)
        /\ q1 # NIL => HashAt(q1) = HashAt(p)
    <2>1. p \in Int /\ p <= p /\ 0 \in Nat
      OBVIOUS
    <2> QED
      BY <1>2, <1>4, <1>5, <2>1, Passed
  <1>7. q1 > limit => max_chain >= q1 - limit
    <2>1. max_chain \in Nat /\ WINDOW_SIZE \in Nat /\ max_chain >= WINDOW_SIZE
      BY Constants
    <2>2. limit >= p - WINDOW_SIZE /\ limit \in Int /\ p \in Int
      OBVIOUS
    <2> QED
      BY ONLY <1>5, <2>1, <2>2
  <1>8. \A q \in (limit + 1)..(p - 1) : q > q1 => ~Beats(q, 0)
    BY <1>5, <1>6
  <1>9. /\ best_len' = 0 /\ dist' = 0 /\ s' = q1 /\ chain_len' = max_chain
        /\ pc' = "chain" /\ UNCHANGED <<files, links, cursor>>
    BY <1>1 DEF BeginSearch, q1
  <1> QED
    BY <1>5, <1>6, <1>7, <1>8, <1>9, SearchStays

\* The candidate at s, once passed over or used, and the step to the next.
LEMMA NextCandidateKeeps ==
  ASSUME TypeOK, CursorsInOrder, ChainsIntact, SearchExact,
         pc = "chain", s > limit, NextCandidate,
         UNCHANGED <<files, links, cursor>>,
         NEW b \in Nat, NEW d \in Nat, best_len' = b, dist' = d,
         b = 0 \/ b < max_match,
         \A q \in s..(p - 1) : ~Beats(q, b),
         b > 0 => \A q \in (p - d + 1)..(p - 1) : ~Beats(q, b - 1)
  PROVE  SearchExact' /\ LongestMatch'
  <1> USE Bounds
  <1>1. s < p /\ chain_len >= s - limit /\ s \in Nat /\ HashAt(s) = HashAt(p)
    BY DEF SearchExact
  <1>2. Searchable /\ Whole(p) /\ Whole(s)
    BY <1>1 DEF CursorsInOrder, Whole
  <1>3. CASE chain_len - 1 = 0
    <2>1. pc' = "emit" /\ s = limit + 1 /\ s' = s /\ chain_len' = chain_len - 1
      BY <1>1, <1>3 DEF NextCandidate
    <2> QED
      BY <2>1, SearchStays
  <1>4. CASE chain_len - 1 # 0
    <2> DEFINE q1 == tail[s % WINDOW_SIZE]
    <2>1. pc' = "chain" /\ s' = q1 /\ chain_len' = chain_len - 1
      BY <1>4 DEF NextCandidate
    <2>2. s \in MAX(p - WINDOW_SIZE, 0)..(p - 1)
      <3>1. p \in Nat /\ WINDOW_SIZE \in Nat /\ s >= p - WINDOW_SIZE
        BY SMTT(30), <1>1, Constants
      <3> QED
        BY ONLY <1>1, <3>1 DEF MAX
    <2>3. Youngest(q1, HashAt(s), s)
      BY <1>2, <2>2 DEF ChainsIntact, InBlock
    <2> HIDE DEF q1
    <2>4. q1 \in NIL..(s - 1) /\ q1 \in Int /\ q1 >= NIL
      BY <2>3 DEF Youngest
    <2>5. /\ \A q \in (q1 + 1)..(s - 1) : ~Beats(q, b)
          /\ q1 # NIL => HashAt(q1) = HashAt(p)
      <3>1. Youngest(q1, HashAt(p), s) /\ s \in Int /\ s <= p
        BY <1>1, <2>3
      <3> QED
        BY <1>2, <2>4, <3>1, Passed
    <2>6. \A q \in (limit + 1)..(p - 1) : q > q1 => ~Beats(q, b)
      BY <1>1, <2>4, <2>5
    <2>7. q1 > limit => chain_len - 1 >= q1 - limit
      BY <1>1, <2>4
    <2>8. q1 < p
      BY <1>1, <2>4
    <2> QED
      BY <2>1, <2>5, <2>6, <2>7, <2>8, SearchStays
  <1> QED
    BY <1>3, <1>4

LEMMA ImproveKeeps ==
  ASSUME TypeOK, CursorsInOrder, ChainsIntact, SearchExact, Improve
  PROVE  MatchFound' /\ SearchExact' /\ LongestMatch'
  <1> USE Bounds
  <1>1. PICK len \in MIN_MATCH..max_match :
          /\ MatchLength(len) /\ len > best_len
          /\ best_len' = len /\ dist' = p - s
          /\ IF len = max_match THEN EndSearch ELSE NextCandidate
    BY DEF Improve
  <1>2. /\ pc = "chain" /\ s > limit /\ s \in Nat /\ s < p /\ len \in Nat /\ p - s \in Nat
        /\ UNCHANGED <<files, links, cursor>>
    BY <1>1 DEF Improve, SearchExact
  <1>3. \A q \in (s + 1)..(p - 1) : ~Beats(q, best_len)
    BY <1>2 DEF SearchExact
  <1>4. \A q \in (s + 1)..(p - 1) : ~Beats(q, len - 1)
    <2> SUFFICES ASSUME NEW q \in (s + 1)..(p - 1), Beats(q, len - 1) PROVE FALSE
      OBVIOUS
    <2>1. Beats(q, best_len)
      BY <1>1, <1>2, BeatsMonotone
    <2> QED
      BY <1>3, <2>1
  <1>5. p - s \in 1..(p - limit - 1) /\ p - s <= p /\ p - (p - s) = s
    BY <1>2
  <1>6. \A k \in 0..(len - 1) : g_buf(p - (p - s) + k) = g_buf(p + k)
    BY <1>1, <1>5 DEF MatchLength
  <1>7. \A q \in (p - (p - s) + 1)..(p - 1) : ~Beats(q, len - 1)
    BY <1>4, <1>5
  <1>8. MatchFound'
    BY <1>1, <1>2, <1>5, <1>6, SearchStays
  <1>9. CASE len = max_match
    <2>1. pc' = "emit"
      BY <1>1, <1>9 DEF EndSearch
    <2> QED
      BY <1>1, <1>2, <1>7, <1>8, <1>9, <2>1, SearchStays
  <1>10. CASE len # max_match
    <2>1. NextCandidate /\ len < max_match
      BY <1>1, <1>10
    <2>2. ~Beats(s, len)
      BY <1>1, <1>2, <1>10 DEF MatchLength, Beats, MAX
    <2>3. \A q \in s..(p - 1) : ~Beats(q, len)
      <3> SUFFICES ASSUME NEW q \in s..(p - 1), Beats(q, len) PROVE FALSE
        OBVIOUS
      <3>1. q # s
        BY <2>2
      <3>2. Beats(q, len - 1)
        BY <1>1, <1>2, BeatsMonotone
      <3> QED
        BY <1>2, <1>4, <3>1, <3>2
    <2> QED
      BY <1>1, <1>2, <1>7, <1>8, <2>1, <2>3, NextCandidateKeeps
  <1> QED
    BY <1>9, <1>10

LEMMA PassOverKeeps ==
  ASSUME TypeOK, CursorsInOrder, ChainsIntact, MatchFound, SearchExact, PassOver
  PROVE  MatchFound' /\ SearchExact' /\ LongestMatch'
  <1> USE Bounds
  <1>1. /\ pc = "chain" /\ s > limit /\ s \in Nat /\ s < p
        /\ UNCHANGED <<files, links, cursor>> /\ best_len' = best_len /\ dist' = dist
        /\ best_len = 0 \/ best_len < max_match
    BY DEF PassOver, SearchExact
  <1>2. ~Beats(s, best_len)
    <2>1. CASE ~Candidate
      <3>1. CASE g_buf(s + best_len) # g_buf(p + best_len)
        BY <3>1 DEF Beats, MAX
      <3>2. CASE LOAD_32(s) # LOAD_32(p)
        BY <3>2, BeatsSameWord
      <3> QED
        BY <2>1, <3>1, <3>2 DEF Candidate
    <2>2. CASE Candidate
      <3>1. PICK len \in MIN_MATCH..max_match : MatchLength(len) /\ len <= best_len
        BY <2>2 DEF PassOver
      <3>2. len # max_match
        BY <1>1, <3>1
      <3> QED
        BY <3>1, <3>2 DEF MatchLength, Beats, MAX
    <2> QED
      BY <2>1, <2>2
  <1>3. \A q \in s..(p - 1) : ~Beats(q, best_len)
    <2>1. \A q \in (s + 1)..(p - 1) : ~Beats(q, best_len)
      BY <1>1 DEF SearchExact
    <2> QED
      BY <1>1, <1>2, <2>1
  <1>4. best_len > 0 => \A q \in (p - dist + 1)..(p - 1) : ~Beats(q, best_len - 1)
    BY <1>1 DEF SearchExact
  <1>5. MatchFound'
    BY <1>1, SearchStays DEF MatchFound, Searching
  <1>6. NextCandidate
    BY DEF PassOver
  <1> QED
    BY <1>1, <1>3, <1>4, <1>5, <1>6, NextCandidateKeeps

LEMMA ChainEndsKeeps ==
  ASSUME TypeOK, MatchFound, SearchExact, ChainEnds
  PROVE  MatchFound' /\ SearchExact' /\ LongestMatch'
  <1> USE Bounds
  <1>1. /\ pc = "chain" /\ s <= limit /\ pc' = "emit"
        /\ UNCHANGED <<files, links, cursor>> /\ best_len' = best_len /\ dist' = dist
    BY DEF ChainEnds, EndSearch
  <1>2. MatchFound'
    BY <1>1, SearchStays DEF MatchFound, Searching
  <1>3. \A q \in (limit + 1)..(p - 1) : ~Beats(q, best_len)
    BY <1>1 DEF SearchExact
  <1>4. best_len > 0 => \A q \in (p - dist + 1)..(p - 1) : ~Beats(q, best_len - 1)
    BY <1>1 DEF SearchExact
  <1> QED
    BY <1>1, <1>2, <1>3, <1>4, SearchStays

-----------------------------------------------------------------------------
(* The chains.                                                             *)

\* Entering p keeps the chains intact: its slot of tail belonged to a
\* position that leaves the window, so no slot still in use is lost.
LEMMA InsertKeeps ==
  ASSUME TypeOK, ChainsIntact, InBlock, p < n, UNCHANGED <<files, n>>,
         NEW h \in HASH_32(p), Insert(h)
  PROVE  ChainsIntact'
  <1>1. p \in 0..(n - 1) /\ h \in 0..(HASH_SIZE - 1) /\ (Whole(p) => HashAt(p) = h)
        /\ WINDOW_SIZE \in Nat \ {0}
    <2>1. p \in 0..(n - 1) /\ WINDOW_SIZE \in Nat \ {0}
      BY Bounds, Constants
    <2>2. h \in 0..(HASH_SIZE - 1) /\ (Whole(p) => HashAt(p) = h)
      BY <2>1, HashRange
    <2> QED
      BY ONLY <2>1, <2>2
  <1> USE Bounds
  <1>2. /\ DOMAIN head = 0..(HASH_SIZE - 1) /\ DOMAIN tail = 0..(WINDOW_SIZE - 1)
        /\ p % WINDOW_SIZE \in 0..(WINDOW_SIZE - 1)
    BY SMTT(30), <1>1 DEF TypeOK
  <1>3. /\ head' = [head EXCEPT ![h] = p] /\ tail' = [tail EXCEPT ![p % WINDOW_SIZE] = head[h]]
        /\ p' = p + 1
    BY DEF Insert
  <1>4. \A g \in 0..(HASH_SIZE - 1) : Youngest(head[g], g, p)
    BY DEF ChainsIntact
  <1>5. \A g \in 0..(HASH_SIZE - 1) : Youngest(head'[g], g, p + 1)
    <2> TAKE g \in 0..(HASH_SIZE - 1)
    <2>1. CASE g = h
      <3>1. head'[g] = p
        BY <1>1, <1>2, <1>3, <2>1
      <3>2. Youngest(p, g, p + 1)
        BY <1>1, <2>1 DEF Youngest
      <3> QED
        BY <3>1, <3>2
    <2>2. CASE g # h
      <3>1. head'[g] = head[g]
        BY <1>2, <1>3, <2>2
      <3>2. Whole(p) => HashAt(p) # g
        BY <1>1, <2>2
      <3>3. Youngest(head[g], g, p + 1)
        BY <1>4, <3>2 DEF Youngest
      <3> QED
        BY <3>1, <3>3
    <2> QED
      BY <2>1, <2>2
  <1>6. \A q \in MAX(p + 1 - WINDOW_SIZE, 0)..p :
          IF Whole(q) THEN Youngest(tail'[q % WINDOW_SIZE], HashAt(q), q)
          ELSE tail'[q % WINDOW_SIZE] \in NIL..(q - 1)
    <2> TAKE q \in MAX(p + 1 - WINDOW_SIZE, 0)..p
    <2>1. CASE q = p
      <3>1. tail'[q % WINDOW_SIZE] = head[h]
        BY <1>2, <1>3, <2>1
      <3>2. Youngest(head[h], h, p)
        BY <1>1, <1>4
      <3>3. head[h] \in NIL..(p - 1)
        BY <3>2 DEF Youngest
      <3> QED
        BY <1>1, <2>1, <3>1, <3>2, <3>3
    <2>2. CASE q # p
      <3>1. q \in Nat /\ q < p /\ p < q + WINDOW_SIZE /\ q \in MAX(p - WINDOW_SIZE, 0)..(p - 1)
        BY <1>1, <2>2 DEF MAX
      <3>2. q % WINDOW_SIZE # p % WINDOW_SIZE /\ q % WINDOW_SIZE \in 0..(WINDOW_SIZE - 1)
        BY <1>1, <3>1, SlotsDistinct
      <3>3. tail'[q % WINDOW_SIZE] = tail[q % WINDOW_SIZE]
        BY <1>2, <1>3, <3>2
      <3> QED
        BY <3>1, <3>3 DEF ChainsIntact
    <2> QED
      BY <2>1, <2>2
  <1>7. source' = source /\ inputIndex' = inputIndex /\ n' = n
    BY DEF files
  <1>8. ASSUME NEW g \in 0..(HASH_SIZE - 1) PROVE Youngest(head[g], g, p)'
    <2>1. Youngest(head'[g], g, p + 1)
      BY <1>5
    <2> QED
      BY <1>3, <1>7, <2>1 DEF Youngest, Whole, HashAt, LOAD_32, g_buf, blockStart
  <1>9. ASSUME NEW q, q \in MAX(p' - WINDOW_SIZE, 0)..(p' - 1)
        PROVE  (IF Whole(q) THEN Youngest(tail[q % WINDOW_SIZE], HashAt(q), q)
                ELSE tail[q % WINDOW_SIZE] \in NIL..(q - 1))'
    <2>1. q \in MAX(p + 1 - WINDOW_SIZE, 0)..p
      <3>1. q \in MAX((p + 1) - WINDOW_SIZE, 0)..((p + 1) - 1)
        BY ONLY <1>3, <1>9, Zenon
      <3> QED
        BY <1>1, <3>1 DEF MAX
    <2>2. IF Whole(q) THEN Youngest(tail'[q % WINDOW_SIZE], HashAt(q), q)
          ELSE tail'[q % WINDOW_SIZE] \in NIL..(q - 1)
      BY <1>6, <2>1
    <2> QED
      BY <1>7, <2>2 DEF Youngest, Whole, HashAt, LOAD_32, g_buf, blockStart
  <1> QED
    BY <1>8, <1>9 DEF ChainsIntact

\* A new block starts with empty chains; what tail holds is out of reach.
LEMMA ReadBlockKeeps ==
  ASSUME ReadBlock
  PROVE  ChainsIntact'
  <1>1. /\ p' = 0 /\ head' = [h \in 0..(HASH_SIZE - 1) |-> NIL]
    BY DEF ReadBlock, EmptyHead
  <1>2. \A h \in 0..(HASH_SIZE - 1) : head'[h] = NIL
    BY <1>1
  <1>3. WINDOW_SIZE \in Nat
    BY Constants
  <1>4. 0 - WINDOW_SIZE \in Int /\ MAX(0 - WINDOW_SIZE, 0) = 0 /\ 0 - 1 = -1
    BY <1>3 DEF MAX
  <1>5. ASSUME NEW h \in 0..(HASH_SIZE - 1) PROVE Youngest(head[h], h, p)'
    BY <1>1, <1>2 DEF Youngest
  <1>6. ASSUME NEW q \in MAX(p' - WINDOW_SIZE, 0)..(p' - 1) PROVE FALSE
    BY <1>1, <1>4
  <1> QED
    BY <1>5, <1>6 DEF ChainsIntact

-----------------------------------------------------------------------------
(* Types and cursors.                                                      *)

LEMMA SizesAreNat ==
  ASSUME NEW k \in Nat
  PROVE  /\ ExtSize(k) \in Nat /\ LitSize(k) \in Nat
         /\ (k >= MIN_MATCH => MatchSize(k) \in Nat)
         /\ \A lit \in Nat : WildTop(lit, k) \in Nat
  <1>1. \A j \in Nat : ExtSize(j) \in Nat
    BY DEF ExtSize
  <1>2. LitSize(k) \in Nat
    BY <1>1 DEF LitSize
  <1>3. k >= MIN_MATCH => MatchSize(k) \in Nat
    <2>1. k >= MIN_MATCH => k - MIN_MATCH \in Nat
      OBVIOUS
    <2> QED
      BY <1>1, <2>1 DEF MatchSize
  <1>4. \A lit \in Nat : WildTop(lit, k) \in Nat
    BY DEF WildTop, WildSize
  <1> QED
    BY <1>1, <1>2, <1>3, <1>4

LEMMA LiteralsAreBytes ==
  ASSUME TypeOK, pp <= p
  PROVE  Literals \in Seq(Byte) /\ Len(Literals) = p - pp
  <1> USE Bounds
  <1>1. p - pp \in Nat
    OBVIOUS
  <1>2. \A i \in 1..(p - pp) : g_buf(pp + i - 1) \in Byte
    <2> TAKE i \in 1..(p - pp)
    <2>1. pp + i - 1 \in 0..(n - 1)
      OBVIOUS
    <2> QED
      BY <2>1, BlockBytes
  <1>3. Literals \in [1..(p - pp) -> Byte]
    BY <1>2 DEF Literals
  <1> QED
    BY ONLY <1>1, <1>3

\* What TypeOK says of the blocks and codes is kept by adding a code.
LEMMA CodeAdded ==
  ASSUME TypeOK, pp <= p, NEW d \in 0..(WINDOW_SIZE - 1), NEW len \in Nat
  PROVE  Append(codes, [lits |-> Literals, dist |-> d, len |-> len]) \in Seq(Code)
  <1>1. d \in U16
    <2>1. WINDOW_SIZE \in Nat /\ WINDOW_SIZE <= 65536
      BY Constants
    <2> QED
      BY <2>1 DEF U16
  <1>2. [lits |-> Literals, dist |-> d, len |-> len] \in Code
    BY <1>1, LiteralsAreBytes DEF Code
  <1>3. codes \in Seq(Code)
    BY DEF TypeOK
  <1> QED
    BY <1>2, <1>3

LEMMA InitTyped == Init => Inv
  <1> SUFFICES ASSUME Init PROVE Inv
    OBVIOUS
  <1>1. TypeOK
    <2>1. Len(source) \in Nat
      BY Constants DEF Init
    <2>2. /\ [h \in 0..(HASH_SIZE - 1) |-> 0] \in [0..(HASH_SIZE - 1) -> Position]
          /\ [i \in 0..(WINDOW_SIZE - 1) |-> 0] \in [0..(WINDOW_SIZE - 1) -> Position]
          /\ NIL \in Position /\ 0 \in 0..(WINDOW_SIZE - 1)
      BY Constants DEF Position
    <2>3. BLOCK_SIZE \in Nat /\ max_chain \in Nat
      BY Constants
    <2> QED
      BY <2>1, <2>2, <2>3 DEF Init, TypeOK
  <1> QED
    BY <1>1 DEF Init, Inv, CursorsInOrder, InBlock, Searching, ChainsIntact, MatchFound,
                SearchExact, LongestMatch

\* What the invariant says of the types, in the form the steps use it.
LEMMA Typed ==
  ASSUME TypeOK
  PROVE  /\ Len(source) \in Nat /\ inputIndex \in Nat /\ n <= inputIndex
         /\ inputIndex <= Len(source)
         /\ outputIndex \in Nat /\ op \in Nat /\ op >= BLOCK_SIZE /\ top \in Nat
         /\ BLOCK_SIZE \in Nat \ {0} /\ WINDOW_SIZE \in Nat \ {0} /\ max_chain \in Nat
         /\ 0 \in 0..(WINDOW_SIZE - 1) /\ NIL \in Position
  <1>1. BLOCK_SIZE \in Nat \ {0} /\ WINDOW_SIZE \in Nat \ {0} /\ max_chain \in Nat
    BY Constants
  <1>2. Len(source) \in Nat
    BY BlockBytes
  <1> QED
    BY <1>1, <1>2 DEF TypeOK, Position

LEMMA ReadBlockTyped ==
  ASSUME TypeOK, ReadBlock
  PROVE  TypeOK' /\ CursorsInOrder'
  <1>1. /\ Len(source) \in Nat /\ inputIndex \in Nat /\ inputIndex <= Len(source)
        /\ BLOCK_SIZE \in Nat \ {0} /\ top \in Nat
    BY Typed
  <1>2. Available \in Nat /\ Available > 0 /\ Available <= BLOCK_SIZE
        /\ inputIndex + Available <= Len(source)
    <2>1. Available > 0
      BY DEF ReadBlock
    <2> QED
      BY <1>1, <2>1 DEF Available, MIN
  <1>3. [h \in 0..(HASH_SIZE - 1) |-> NIL] \in [0..(HASH_SIZE - 1) -> Position]
    BY Typed
  <1>4. MAX(top, Available) \in Nat /\ <<>> \in Seq(Code)
    BY <1>1, <1>2 DEF MAX
  <1>5. inputIndex + Available \in Available..Len(source) /\ Available \in 0..BLOCK_SIZE
        /\ 0 \in 0..Available /\ BLOCK_SIZE >= BLOCK_SIZE /\ BLOCK_SIZE \in Nat
    BY <1>1, <1>2
  <1>6. TypeOK'
    BY <1>3, <1>4, <1>5 DEF ReadBlock, EmptyHead, TypeOK, search
  <1>7. CursorsInOrder'
    BY <1>2 DEF ReadBlock, CursorsInOrder, InBlock, Searching
  <1> QED
    BY <1>6, <1>7

LEMMA FinishTyped ==
  ASSUME TypeOK, CursorsInOrder, Finish
  PROVE  TypeOK' /\ CursorsInOrder'
  BY DEF Finish, TypeOK, CursorsInOrder, InBlock, Searching, files, links, search, cursor

LEMMA FlushTyped ==
  ASSUME TypeOK, CursorsInOrder, FlushLiterals
  PROVE  TypeOK' /\ CursorsInOrder'
  <1>1. pp <= p /\ p - pp \in Nat
    <2>1. pp <= p
      BY DEF CursorsInOrder, FlushLiterals
    <2> QED
      BY <2>1, Bounds
  <1>2. op \in Nat /\ op >= BLOCK_SIZE /\ top \in Nat /\ BLOCK_SIZE \in Nat
    BY Typed
  <1>3. codes' \in Seq(Code)
    <2>1. Append(codes, [lits |-> Literals, dist |-> 0, len |-> 0]) \in Seq(Code)
      BY <1>1, Typed, CodeAdded
    <2> QED
      BY <2>1 DEF FlushLiterals, TypeOK
  <1>4. op' \in Nat /\ op' >= BLOCK_SIZE
    <2>1. LitSize(p - pp) \in Nat
      BY <1>1, SizesAreNat
    <2>2. op + LitSize(p - pp) \in Nat /\ op + LitSize(p - pp) >= BLOCK_SIZE
      BY <1>2, <2>1
    <2> QED
      BY <1>2, <2>2 DEF FlushLiterals
  <1>5. top' \in Nat
    <2>1. op + 1 + ExtSize(p - pp) \in Nat
      <3>1. ExtSize(p - pp) \in Nat
        BY <1>1, SizesAreNat
      <3> QED
        BY <1>2, <3>1
    <2>2. WildTop(op + 1 + ExtSize(p - pp), p - pp) \in Nat
      BY <1>1, <2>1, SizesAreNat
    <2> QED
      BY <1>2, <2>2 DEF FlushLiterals, MAX
  <1>6. TypeOK'
    BY <1>3, <1>4, <1>5 DEF FlushLiterals, TypeOK, files, links, search
  <1> QED
    BY <1>6 DEF FlushLiterals, CursorsInOrder, InBlock, Searching

LEMMA WriteBlockTyped ==
  ASSUME TypeOK, CursorsInOrder, WriteBlock
  PROVE  TypeOK' /\ CursorsInOrder'
  <1>1. output' \in Seq(Seq(Code))
    BY DEF WriteBlock, TypeOK
  <1>2. outputIndex + 4 + (op - BLOCK_SIZE) \in Nat
    BY SMTT(30), Typed
  <1>3. TypeOK'
    BY <1>1, <1>2 DEF WriteBlock, TypeOK, links, search, cursor
  <1> QED
    BY <1>3 DEF WriteBlock, CursorsInOrder, InBlock, Searching

LEMMA BeginSearchTyped ==
  ASSUME TypeOK, CursorsInOrder, BeginSearch
  PROVE  TypeOK' /\ CursorsInOrder'
  <1>1. s' \in Position
    <2>1. p \in 0..(n - 1)
      BY Bounds DEF BeginSearch
    <2>2. PICK h \in HASH_32(p) : s' = head[h]
      BY DEF BeginSearch
    <2>3. h \in 0..(HASH_SIZE - 1)
      BY <2>1, <2>2, HashRange
    <2> QED
      BY <2>2, <2>3 DEF TypeOK
  <1>2. 0 \in 0..BLOCK_SIZE /\ 0 \in 0..(WINDOW_SIZE - 1) /\ max_chain \in 0..max_chain
    BY Typed
  <1>3. TypeOK'
    BY <1>1, <1>2 DEF BeginSearch, TypeOK, files, links, cursor
  <1>4. Searchable' = Searchable
    BY DEF BeginSearch, cursor, Searchable, max_match
  <1> QED
    BY <1>3, <1>4 DEF BeginSearch, CursorsInOrder, InBlock, Searching, cursor

LEMMA SkipSearchTyped ==
  ASSUME TypeOK, CursorsInOrder, SkipSearch
  PROVE  TypeOK' /\ CursorsInOrder'
  <1>1. 0 \in 0..BLOCK_SIZE /\ 0 \in 0..(WINDOW_SIZE - 1)
    BY Typed
  <1>2. TypeOK'
    BY <1>1 DEF SkipSearch, TypeOK, files, links, cursor
  <1>3. Searchable' = Searchable
    BY DEF SkipSearch, cursor, Searchable, max_match
  <1> QED
    BY <1>2, <1>3 DEF SkipSearch, CursorsInOrder, InBlock, Searching, cursor

\* Going on to another candidate, or stopping, keeps the cursors.
LEMMA SearchTyped ==
  ASSUME TypeOK, CursorsInOrder, pc = "chain", UNCHANGED <<files, links, cursor>>,
         EndSearch \/ (s > limit /\ s < p /\ chain_len > 0 /\ NextCandidate),
         best_len' \in 0..BLOCK_SIZE, dist' \in 0..(WINDOW_SIZE - 1)
  PROVE  TypeOK' /\ CursorsInOrder'
  <1>1. s' \in Position /\ chain_len' \in 0..max_chain /\ pc' \in {"chain", "emit"}
    <2>1. CASE EndSearch
      BY <2>1 DEF EndSearch, TypeOK
    <2>2. CASE s > limit /\ s < p /\ chain_len > 0 /\ NextCandidate
      <3>1. chain_len \in 0..max_chain /\ max_chain \in Nat /\ s \in Int /\ s >= 0
            /\ WINDOW_SIZE \in Nat \ {0}
        <4>1. limit \in Int /\ limit >= NIL /\ s \in Int
          BY Bounds
        <4>2. s >= 0
          BY <2>2, <4>1
        <4> QED
          BY <4>1, <4>2, Typed DEF TypeOK
      <3>2. chain_len - 1 \in 0..max_chain /\ s % WINDOW_SIZE \in 0..(WINDOW_SIZE - 1)
        BY <2>2, <3>1
      <3>3. tail[s % WINDOW_SIZE] \in Position /\ s \in Position
        BY <3>2 DEF TypeOK
      <3> QED
        BY <2>2, <3>2, <3>3 DEF NextCandidate
    <2> QED
      BY <2>1, <2>2
  <1>2. TypeOK'
    BY <1>1 DEF TypeOK, files, links, cursor
  <1>3. Searchable' = Searchable
    BY DEF cursor, Searchable, max_match
  <1> QED
    BY <1>1, <1>2, <1>3 DEF CursorsInOrder, InBlock, Searching, cursor

LEMMA ImproveTyped ==
  ASSUME TypeOK, CursorsInOrder, SearchExact, Improve
  PROVE  TypeOK' /\ CursorsInOrder'
  <1> USE Bounds
  <1>1. PICK len \in MIN_MATCH..max_match :
          /\ best_len' = len /\ dist' = p - s
          /\ IF len = max_match THEN EndSearch ELSE NextCandidate
    BY DEF Improve
  <1>2. /\ pc = "chain" /\ s > limit /\ s < p /\ chain_len > 0
        /\ UNCHANGED <<files, links, cursor>>
    BY DEF Improve, SearchExact
  <1>3. len \in 0..BLOCK_SIZE
    <2>1. BLOCK_SIZE \in Nat
      BY Typed
    <2> QED
      BY <2>1
  <1>4. p - s \in 0..(WINDOW_SIZE - 1)
    <2>1. WINDOW_SIZE \in Nat
      BY Typed
    <2>2. limit >= p - WINDOW_SIZE /\ limit \in Int /\ p \in Int /\ s \in Int
      OBVIOUS
    <2> QED
      BY ONLY <1>2, <2>1, <2>2
  <1> QED
    BY <1>1, <1>2, <1>3, <1>4, SearchTyped

LEMMA PassOverTyped ==
  ASSUME TypeOK, CursorsInOrder, SearchExact, PassOver
  PROVE  TypeOK' /\ CursorsInOrder'
  <1>1. /\ pc = "chain" /\ s > limit /\ s < p /\ chain_len > 0
        /\ UNCHANGED <<files, links, cursor>> /\ NextCandidate
    BY Bounds DEF PassOver, SearchExact
  <1>2. best_len' \in 0..BLOCK_SIZE /\ dist' \in 0..(WINDOW_SIZE - 1)
    BY DEF PassOver, TypeOK
  <1> QED
    BY <1>1, <1>2, SearchTyped

LEMMA ChainEndsTyped ==
  ASSUME TypeOK, CursorsInOrder, ChainEnds
  PROVE  TypeOK' /\ CursorsInOrder'
  <1>1. best_len' \in 0..BLOCK_SIZE /\ dist' \in 0..(WINDOW_SIZE - 1)
    BY DEF ChainEnds, TypeOK
  <1> QED
    BY <1>1, SearchTyped DEF ChainEnds

LEMMA EmitMatchTyped ==
  ASSUME TypeOK, CursorsInOrder, MatchFound, EmitMatch
  PROVE  TypeOK' /\ CursorsInOrder'
  <1>1. pp <= p /\ p < n /\ p - pp \in Nat /\ pc = "emit"
    <2>1. pp <= p /\ p < n
      BY DEF CursorsInOrder, EmitMatch, Searching
    <2>2. p \in Nat /\ pp \in Nat
      BY Bounds
    <2>3. p - pp \in Nat
      BY ONLY <2>1, <2>2
    <2> QED
      BY <2>1, <2>3 DEF EmitMatch
  <1>2. best_len \in Nat /\ best_len >= MIN_MATCH /\ best_len <= max_match
        /\ dist \in 0..(WINDOW_SIZE - 1)
    <2>1. best_len \in Nat /\ best_len >= MIN_MATCH
      BY Bounds DEF EmitMatch
    <2> QED
      BY <1>1, <2>1 DEF MatchFound, Searching, TypeOK
  <1>3. p + best_len \in 0..n /\ p < p + best_len /\ p + best_len <= n - PADDING_LITERALS
    BY <1>1, <1>2, Bounds
  <1>4. Append(codes, [lits |-> Literals, dist |-> dist, len |-> best_len]) \in Seq(Code)
    BY <1>1, <1>2, CodeAdded
  <1>5. op \in Nat /\ op >= BLOCK_SIZE /\ top \in Nat /\ BLOCK_SIZE \in Nat
    BY Typed
  <1>6. LitSize(p - pp) \in Nat /\ MatchSize(best_len) \in Nat /\ ExtSize(p - pp) \in Nat
    BY <1>1, <1>2, SizesAreNat
  <1> DEFINE op1 == op + LitSize(p - pp) + MatchSize(best_len)
             wild == WildTop(op + 1 + ExtSize(p - pp), p - pp)
  <1>7. op1 \in Nat /\ op1 >= BLOCK_SIZE
    BY <1>5, <1>6
  <1>8. wild \in Nat
    <2>1. op + 1 + ExtSize(p - pp) \in Nat
      BY <1>5, <1>6
    <2> QED
      BY <1>1, <2>1, SizesAreNat
  <1>9. /\ op' = op1 /\ top' = MAX(top, MAX(op1, wild))
        /\ codes' = Append(codes, [lits |-> Literals, dist |-> dist, len |-> best_len])
        /\ pp' = p + best_len /\ pc' = "insert" /\ UNCHANGED <<files, links, search, n, p>>
    BY DEF EmitMatch
  <1> HIDE DEF op1, wild
  <1>10. MAX(top, MAX(op1, wild)) \in Nat
    BY <1>5, <1>7, <1>8 DEF MAX
  <1>11. TypeOK'
    BY <1>3, <1>4, <1>7, <1>9, <1>10 DEF TypeOK, files, links, search
  <1>12. CursorsInOrder'
    BY <1>1, <1>3, <1>9 DEF CursorsInOrder, InBlock, Searching
  <1> QED
    BY <1>11, <1>12

LEMMA InsertTyped ==
  ASSUME TypeOK, p < n, NEW h \in HASH_32(p), Insert(h)
  PROVE  /\ tail' \in [0..(WINDOW_SIZE - 1) -> Position]
         /\ head' \in [0..(HASH_SIZE - 1) -> Position]
         /\ p' = p + 1 /\ p + 1 \in 0..n
  <1>1. p \in 0..(n - 1) /\ p \in Position /\ p + 1 \in 0..n
    <2>1. p \in Nat /\ n \in Nat /\ n <= BLOCK_SIZE
      BY Bounds
    <2>2. BLOCK_SIZE \in Nat
      BY Typed
    <2> QED
      BY <2>1, <2>2 DEF Position
  <1>2. h \in 0..(HASH_SIZE - 1)
    BY <1>1, HashRange
  <1>3. head[h] \in Position
    BY <1>2 DEF TypeOK
  <1> QED
    BY <1>1, <1>2, <1>3 DEF Insert, TypeOK

LEMMA InsertMatchedTyped ==
  ASSUME TypeOK, CursorsInOrder, InsertMatched
  PROVE  TypeOK' /\ CursorsInOrder'
  <1>1. p < pp /\ p < n /\ p \in Nat /\ pp \in Nat
    <2>1. p < pp
      BY DEF CursorsInOrder, InsertMatched
    <2> QED
      BY <2>1, Bounds
  <1>2. PICK h \in HASH_32(p) : Insert(h)
    BY DEF InsertMatched
  <1>3. /\ tail' \in [0..(WINDOW_SIZE - 1) -> Position]
        /\ head' \in [0..(HASH_SIZE - 1) -> Position]
        /\ p' = p + 1 /\ p + 1 \in 0..n
    BY <1>1, <1>2, InsertTyped
  <1>4. TypeOK'
    BY <1>3 DEF InsertMatched, TypeOK, files, search
  <1>5. p + 1 = pp \/ p + 1 < pp
    BY <1>1
  <1>6. CursorsInOrder'
    BY <1>1, <1>3, <1>5 DEF InsertMatched, CursorsInOrder, InBlock, Searching
  <1> QED
    BY <1>4, <1>6

LEMMA InsertLiteralTyped ==
  ASSUME TypeOK, CursorsInOrder, InsertLiteral
  PROVE  TypeOK' /\ CursorsInOrder'
  <1>1. pp <= p /\ p < n /\ p \in Nat /\ pp \in Nat
    <2>1. pp <= p /\ p < n
      BY DEF CursorsInOrder, InsertLiteral, Searching
    <2> QED
      BY <2>1, Bounds
  <1>2. PICK h \in HASH_32(p) : Insert(h)
    BY DEF InsertLiteral
  <1>3. /\ tail' \in [0..(WINDOW_SIZE - 1) -> Position]
        /\ head' \in [0..(HASH_SIZE - 1) -> Position]
        /\ p' = p + 1 /\ p + 1 \in 0..n
    BY <1>1, <1>2, InsertTyped
  <1>4. TypeOK'
    BY <1>3 DEF InsertLiteral, TypeOK, files, search
  <1>5. pp <= p + 1
    BY <1>1
  <1>6. CursorsInOrder'
    BY <1>3, <1>5 DEF InsertLiteral, CursorsInOrder, InBlock, Searching
  <1> QED
    BY <1>4, <1>6

-----------------------------------------------------------------------------
(* The invariant.                                                          *)

\* Outside the search the parts of Inv that speak of it hold at once.
LEMMA NotSearching ==
  ASSUME pc' \notin {"chain", "emit"}
  PROVE  MatchFound' /\ SearchExact' /\ LongestMatch'
  BY DEF MatchFound, SearchExact, LongestMatch, Searching

LEMMA SkipSearchKeeps ==
  ASSUME SkipSearch
  PROVE  MatchFound' /\ SearchExact' /\ LongestMatch'
  <1>1. pc' = "emit" /\ best_len' = 0
    BY DEF SkipSearch
  <1>2. ~Searchable'
    BY DEF SkipSearch, Searchable, max_match, cursor
  <1> QED
    BY <1>1, <1>2 DEF MatchFound, SearchExact, LongestMatch, Searching

LEMMA InvStep == Inv /\ [Next]_vars => Inv'
  <1> SUFFICES ASSUME Inv, [Next]_vars PROVE Inv'
    OBVIOUS
  <1>1. TypeOK /\ CursorsInOrder /\ ChainsIntact /\ MatchFound /\ SearchExact /\ LongestMatch
    BY DEF Inv
  <1> USE <1>1
  <1>2. CASE ReadBlock
    BY <1>2, ReadBlockTyped, ReadBlockKeeps, NotSearching DEF Inv, ReadBlock
  <1>3. CASE Finish
    <2>1. pc' = "done"
      BY <1>3 DEF Finish
    <2>2. ChainsIntact'
      BY <2>1 DEF ChainsIntact, InBlock
    <2> QED
      BY <1>3, <2>1, <2>2, FinishTyped, NotSearching DEF Inv
  <1>4. CASE FlushLiterals
    <2>1. pc' = "write"
      BY <1>4 DEF FlushLiterals
    <2>2. ChainsIntact'
      BY <2>1 DEF ChainsIntact, InBlock
    <2> QED
      BY <1>4, <2>1, <2>2, FlushTyped, NotSearching DEF Inv
  <1>5. CASE WriteBlock
    <2>1. pc' = "read"
      BY <1>5 DEF WriteBlock
    <2>2. ChainsIntact'
      BY <2>1 DEF ChainsIntact, InBlock
    <2> QED
      BY <1>5, <2>1, <2>2, WriteBlockTyped, NotSearching DEF Inv
  <1>6. CASE BeginSearch
    <2>1. ChainsIntact'
      BY <1>6, ChainsStay DEF BeginSearch, InBlock
    <2> QED
      BY <1>6, <2>1, BeginSearchTyped, BeginSearchKeeps DEF Inv
  <1>7. CASE SkipSearch
    <2>1. ChainsIntact'
      BY <1>7, ChainsStay DEF SkipSearch, InBlock
    <2> QED
      BY <1>7, <2>1, SkipSearchTyped, SkipSearchKeeps DEF Inv
  <1>8. CASE Improve
    <2>1. ChainsIntact'
      BY <1>8, ChainsStay DEF Improve, InBlock
    <2> QED
      BY <1>8, <2>1, ImproveTyped, ImproveKeeps DEF Inv
  <1>9. CASE PassOver
    <2>1. ChainsIntact'
      BY <1>9, ChainsStay DEF PassOver, InBlock
    <2> QED
      BY <1>9, <2>1, PassOverTyped, PassOverKeeps DEF Inv
  <1>10. CASE ChainEnds
    <2>1. ChainsIntact'
      BY <1>10, ChainsStay DEF ChainEnds, InBlock
    <2> QED
      BY <1>10, <2>1, ChainEndsTyped, ChainEndsKeeps DEF Inv
  <1>11. CASE EmitMatch
    <2>1. ChainsIntact'
      <3>1. /\ source' = source /\ inputIndex' = inputIndex /\ n' = n /\ p' = p
            /\ head' = head /\ tail' = tail /\ InBlock
        BY <1>11 DEF EmitMatch, files, links, InBlock
      <3> QED
        BY <3>1 DEF ChainsIntact, Youngest, Whole, HashAt, LOAD_32, g_buf, blockStart
    <2>2. pc' = "insert"
      BY <1>11 DEF EmitMatch
    <2> QED
      BY <1>11, <2>1, <2>2, EmitMatchTyped, NotSearching DEF Inv
  <1>12. CASE InsertMatched
    <2>1. p < n
      <3>1. p < pp
        BY <1>12 DEF CursorsInOrder, InsertMatched
      <3> QED
        BY <3>1, Bounds
    <2>2. ChainsIntact' /\ pc' \notin {"chain", "emit"}
      BY <1>12, <2>1, InsertKeeps DEF InsertMatched, InBlock
    <2> QED
      BY <1>12, <2>2, InsertMatchedTyped, NotSearching DEF Inv
  <1>13. CASE InsertLiteral
    <2>1. p < n
      BY <1>13 DEF CursorsInOrder, InsertLiteral, Searching
    <2>2. ChainsIntact' /\ pc' \notin {"chain", "emit"}
      BY <1>13, <2>1, InsertKeeps DEF InsertLiteral, InBlock
    <2> QED
      BY <1>13, <2>2, InsertLiteralTyped, NotSearching DEF Inv
  <1>14. CASE UNCHANGED vars
    <2>1. UNCHANGED <<pc, source, inputIndex, outputIndex, output, head, tail, n, p, pp, op,
                      top, codes, best_len, dist, s, chain_len>>
      BY <1>14 DEF vars, files, links, search, cursor
    <2>2. TypeOK'
      BY <2>1 DEF TypeOK
    <2>3. CursorsInOrder'
      BY <2>1 DEF CursorsInOrder, InBlock, Searching, Searchable, max_match
    <2>4. ChainsIntact'
      BY <2>1 DEF ChainsIntact, InBlock, Youngest, Whole, HashAt, LOAD_32, g_buf, blockStart
    <2>5. MatchFound'
      BY <2>1 DEF MatchFound, Searching, max_match, limit, g_buf, blockStart
    <2>6. SearchExact'
      BY <2>1 DEF SearchExact, max_match, limit, Beats, HashAt, LOAD_32, g_buf, blockStart
    <2>7. LongestMatch'
      BY <2>1 DEF LongestMatch, Searchable, max_match, limit, Beats, g_buf, blockStart
    <2> QED
      BY <2>2, <2>3, <2>4, <2>5, <2>6, <2>7 DEF Inv
  <1> QED
    BY <1>2, <1>3, <1>4, <1>5, <1>6, <1>7, <1>8, <1>9, <1>10, <1>11, <1>12, <1>13, <1>14
    DEF Next

LEMMA Invariance == Spec => []Inv
  BY InitTyped, InvStep, PTL DEF Spec

(* Type correctness: for every input, block size and window size, compress *)
(* keeps its cursors inside the block, its links inside the table and its  *)
(* distances within what STORE_16 can hold.                                *)
THEOREM TypeCorrect == Spec => []TypeOK
  <1>1. Inv => TypeOK
    BY DEF Inv
  <1> QED
    BY <1>1, Invariance, PTL

(* head and tail never mislead the search: the window's slots are reused   *)
(* only for positions that have left it, and nothing an earlier block left *)
(* is ever followed.                                                       *)
THEOREM ChainsAreIntact == Spec => []ChainsIntact
  <1>1. Inv => ChainsIntact
    BY DEF Inv
  <1> QED
    BY <1>1, Invariance, PTL

(* compress finds the longest match of the window at every position it     *)
(* searches, and the nearest one of that length: the test at best_len and  *)
(* the bound on the chain lose nothing.                                    *)
THEOREM FindsLongestMatch == Spec => []LongestMatch
  <1>1. Inv => LongestMatch
    BY DEF Inv
  <1> QED
    BY <1>1, Invariance, PTL

(***************************************************************************)
(* What is written.                                                        *)
(***************************************************************************)

-----------------------------------------------------------------------------
(* Lengths.                                                                *)

\* What the codes of k bytes of a block take at most, while all of them end in
\* a match.
Coded(k) == k + k \div 255

LEMMA CodedAdds ==
  ASSUME NEW a \in Nat, NEW b \in Nat
  PROVE  /\ Coded(a) \in Nat /\ Coded(a) >= a
         /\ Coded(a) + Coded(b) <= Coded(a + b)
         /\ a <= b => Coded(a) <= Coded(b)
BY DEF Coded

\* run literals with their token.
LEMMA LiteralsSize ==
  ASSUME NEW run \in Nat
  PROVE  /\ LitSize(run) \in Nat /\ ExtSize(run) \in Nat
         /\ LitSize(run) <= Coded(run) + 2
         /\ LitSize(run) = 1 + ExtSize(run) + run
         /\ WildTop(1 + ExtSize(run), run) <= Coded(run) + 10
<1>1. run < 15 => ExtSize(run) = 0
  BY DEF ExtSize
<1>2. run >= 15 => ExtSize(run) = 1 + (run - 15) \div 255
  BY DEF ExtSize
<1>3. ExtSize(run) \in Nat /\ ExtSize(run) <= 1 + run \div 255
  BY <1>1, <1>2
<1>4. WildSize(run) \in Nat /\ WildSize(run) <= run + 7
  BY DEF WildSize
<1>5. /\ WildTop(1 + ExtSize(run), run) \in Nat
      /\ WildTop(1 + ExtSize(run), run) <= 1 + ExtSize(run) + run + 7
  BY <1>3, <1>4 DEF WildTop
<1>6. LitSize(run) = 1 + ExtSize(run) + run /\ Coded(run) = run + run \div 255
      /\ run \div 255 \in Nat
  BY DEF LitSize, Coded
<1> QED
  BY <1>3, <1>4, <1>5, <1>6

\* A code with a match: its three bytes and the counts are won back by the
\* match, but for one byte in 255 of the literals.
LEMMA CodeSize ==
  ASSUME NEW run \in Nat, NEW len \in Nat, len >= MIN_MATCH
  PROVE  LitSize(run) + MatchSize(len) <= Coded(run + len)
<1>1. run < 15 => ExtSize(run) = 0
  BY DEF ExtSize
<1>2. run >= 15 => ExtSize(run) = 1 + (run - 15) \div 255
  BY DEF ExtSize
<1>3. ExtSize(run) \in Nat /\ ExtSize(run) <= 1 + run \div 255
  BY <1>1, <1>2
<1>4. len < 19 => ExtSize(len - 4) = 0
  BY DEF ExtSize
<1>5. len >= 19 => ExtSize(len - 4) = 1 + (len - 19) \div 255
  BY DEF ExtSize
<1>6. MatchSize(len) \in Nat /\ MatchSize(len) <= len - 2
  <2>1. len < 19 => MatchSize(len) = 2
    BY <1>4 DEF MatchSize
  <2>2. len >= 19 => MatchSize(len) = 3 + (len - 19) \div 255
    BY <1>5 DEF MatchSize
  <2>3. len >= 19 => (len - 19) \div 255 \in Nat /\ (len - 19) \div 255 <= len - 19
    OBVIOUS
  <2> QED
    BY <2>1, <2>2, <2>3
<1>7. LitSize(run) <= 2 + run + run \div 255
  BY <1>3 DEF LitSize
<1>8. run \div 255 <= (run + len) \div 255
  OBVIOUS
<1> QED
  BY <1>3, <1>6, <1>7, <1>8 DEF Coded, LitSize

LEMMA WildTopMoves ==
  ASSUME NEW a \in Nat, NEW b \in Nat, NEW run \in Nat
  PROVE  WildTop(a + b, run) = a + WildTop(b, run)
BY DEF WildTop, WildSize

-----------------------------------------------------------------------------
(* The room in g_buf.                                                      *)

OutputInv ==
  /\ top <= GBUF_SIZE
  /\ InBlock => op - BLOCK_SIZE <= Coded(pp)
  /\ pc = "write" => op - BLOCK_SIZE <= Coded(n) + 2

LEMMA Room ==
  ASSUME NEW k \in Nat, k <= BLOCK_SIZE
  PROVE  /\ GBUF_SIZE \in Nat /\ BLOCK_SIZE + Coded(k) + 16 <= GBUF_SIZE
         /\ k <= GBUF_SIZE
<1>1. BLOCK_SIZE \in Nat
  BY Constants
<1>2. k \div 255 <= BLOCK_SIZE \div 255
  BY <1>1
<1> QED
  BY <1>1, <1>2 DEF GBUF_SIZE, EXCESS, Coded

\* Literals from pp to p, written at op.
LEMMA LiteralsFit ==
  ASSUME TypeOK, pp <= p, op - BLOCK_SIZE <= Coded(pp)
  PROVE  /\ \E k \in Nat : k = op + LitSize(p - pp) /\ k - BLOCK_SIZE <= Coded(p) + 2
         /\ WildTop(op + 1 + ExtSize(p - pp), p - pp) <= GBUF_SIZE
         /\ WildTop(op + 1 + ExtSize(p - pp), p - pp) \in Nat
<1> DEFINE run == p - pp
<1>1. /\ p \in Nat /\ pp \in Nat /\ op \in Nat /\ BLOCK_SIZE \in Nat /\ p <= BLOCK_SIZE
      /\ run \in Nat /\ pp + run = p
  <2>1. p \in Nat /\ pp \in Nat /\ n \in Nat /\ p <= n /\ n <= BLOCK_SIZE
    BY Bounds
  <2>2. op \in Nat /\ BLOCK_SIZE \in Nat
    BY Typed
  <2> QED
    BY ONLY <2>1, <2>2, pp <= p
<1> HIDE DEF run
<1>2. /\ LitSize(run) \in Nat /\ LitSize(run) <= Coded(run) + 2 /\ ExtSize(run) \in Nat
      /\ WildTop(1 + ExtSize(run), run) <= Coded(run) + 10
  BY <1>1, LiteralsSize
<1>3. Coded(pp) + Coded(run) <= Coded(p) /\ Coded(pp) \in Nat /\ Coded(run) \in Nat /\ Coded(p) \in Nat
  <2>1. Coded(pp) + Coded(run) <= Coded(pp + run)
    BY <1>1, CodedAdds
  <2> QED
    BY <1>1, <2>1, CodedAdds
<1>4. WildTop(op + (1 + ExtSize(run)), run) = op + WildTop(1 + ExtSize(run), run)
  BY <1>1, <1>2, WildTopMoves
<1>5. op + (1 + ExtSize(run)) = op + 1 + ExtSize(run) /\ 1 + ExtSize(run) \in Nat
  BY <1>1, <1>2
<1>6. WildTop(1 + ExtSize(run), run) \in Nat
  BY <1>1, <1>5, SizesAreNat
<1>7. BLOCK_SIZE + Coded(p) + 16 <= GBUF_SIZE /\ GBUF_SIZE \in Nat
  BY <1>1, Room
<1>8. \E k \in Nat : k = op + LitSize(run) /\ k - BLOCK_SIZE <= Coded(p) + 2
  BY <1>1, <1>2, <1>3
<1>9. op + WildTop(1 + ExtSize(run), run) <= GBUF_SIZE
      /\ op + WildTop(1 + ExtSize(run), run) \in Nat
  BY <1>1, <1>2, <1>3, <1>6, <1>7
<1> QED
  BY <1>4, <1>5, <1>8, <1>9 DEF run

LEMMA OutputStep == Inv /\ OutputInv /\ [Next]_vars => OutputInv'
<1> SUFFICES ASSUME Inv, OutputInv, [Next]_vars PROVE OutputInv'
  OBVIOUS
<1>1. /\ TypeOK /\ CursorsInOrder /\ MatchFound /\ top <= GBUF_SIZE /\ top \in Nat
      /\ BLOCK_SIZE \in Nat /\ op \in Nat
  BY Typed DEF Inv, OutputInv
<1>2. CASE ReadBlock
  <2>1. Available \in Nat /\ Available <= BLOCK_SIZE
    BY <1>1, <1>2, Typed DEF Available, MIN, ReadBlock
  <2>2. Available <= GBUF_SIZE
    BY <2>1, Room
  <2>3. top' <= GBUF_SIZE
    BY <1>1, <1>2, <2>2 DEF ReadBlock, MAX
  <2>4. op' - BLOCK_SIZE = 0 /\ pp' = 0 /\ pc' = "scan"
    BY <1>1, <1>2 DEF ReadBlock
  <2>5. op' - BLOCK_SIZE <= Coded(pp')
    BY <2>4, CodedAdds
  <2> QED
    BY <2>3, <2>4, <2>5 DEF OutputInv
<1>3. CASE FlushLiterals
  <2>1. pc = "scan" /\ pp <= p /\ p = n /\ pc' = "write" /\ n' = n
    <3>1. pc = "scan" /\ p >= n /\ pc' = "write" /\ n' = n
      BY <1>3 DEF FlushLiterals
    <3> QED
      BY <1>1, <3>1, Bounds DEF CursorsInOrder
  <2>2. op - BLOCK_SIZE <= Coded(pp)
    BY <2>1 DEF OutputInv, InBlock
  <2>3. /\ \E k \in Nat : k = op + LitSize(p - pp) /\ k - BLOCK_SIZE <= Coded(p) + 2
        /\ WildTop(op + 1 + ExtSize(p - pp), p - pp) <= GBUF_SIZE
    BY <1>1, <2>1, <2>2, LiteralsFit
  <2>4. CASE pp # p
    <3>1. /\ op' = op + LitSize(p - pp)
          /\ top' = MAX(top, WildTop(op + 1 + ExtSize(p - pp), p - pp))
      BY <1>3, <2>4 DEF FlushLiterals
    <3>2. top' <= GBUF_SIZE
      BY <1>1, <2>3, <3>1 DEF MAX
    <3>3. op' - BLOCK_SIZE <= Coded(n') + 2
      <4>1. Coded(n') = Coded(p) /\ Coded(p) \in Nat
        BY <1>1, <2>1, Bounds, CodedAdds
      <4>2. PICK k \in Nat : k = op + LitSize(p - pp) /\ k - BLOCK_SIZE <= Coded(p) + 2
        BY <2>3
      <4>3. op' = k
        BY <3>1, <4>2
      <4> QED
        BY <1>1, <4>1, <4>2, <4>3
    <3> QED
      BY <2>1, <3>2, <3>3 DEF OutputInv, InBlock
  <2>5. CASE pp = p
    <3>1. op' = op /\ top' = top
      BY <1>3, <2>5 DEF FlushLiterals
    <3>2. op - BLOCK_SIZE <= Coded(n) + 2
      <4>1. Coded(n) \in Nat
        BY <1>1, Bounds, CodedAdds
      <4> QED
        BY <1>1, <2>1, <2>2, <2>5, <4>1
    <3> QED
      BY <1>1, <2>1, <3>1, <3>2 DEF OutputInv, InBlock
  <2> QED
    BY <2>4, <2>5
<1>4. CASE EmitMatch
  <2> DEFINE run == p - pp
  <2>1. /\ pp <= p /\ p < n /\ pp \in Nat /\ p \in Nat /\ run \in Nat /\ n \in Nat
        /\ best_len \in Nat /\ best_len >= MIN_MATCH /\ p + best_len <= n /\ n <= BLOCK_SIZE
    <3>1. pp <= p /\ p < n /\ best_len >= MIN_MATCH
      BY <1>1, <1>4 DEF EmitMatch, CursorsInOrder, Searching
    <3>2. /\ p \in Nat /\ pp \in Nat /\ n \in Nat /\ n <= BLOCK_SIZE /\ best_len \in Nat
          /\ max_match = n - 5 - p
      BY <1>1, Bounds
    <3>3. best_len <= max_match
      <4>1. best_len > 0 /\ pc = "emit"
        BY <1>4, <3>1, <3>2 DEF EmitMatch
      <4> QED
        BY <1>1, <3>2, <4>1 DEF MatchFound, Searching
    <3>4. run \in Nat
      BY ONLY <3>1, <3>2
    <3>5. p + best_len <= n
      BY ONLY <3>2, <3>3
    <3> QED
      BY <3>1, <3>2, <3>4, <3>5
  <2>2. op - BLOCK_SIZE <= Coded(pp)
    BY <1>4 DEF OutputInv, InBlock, EmitMatch
  <2>3. /\ WildTop(op + 1 + ExtSize(run), run) <= GBUF_SIZE
        /\ WildTop(op + 1 + ExtSize(run), run) \in Nat
    BY <1>1, <2>1, <2>2, LiteralsFit
  <2>4. /\ op' = op + LitSize(run) + MatchSize(best_len) /\ pp' = p + best_len /\ pc' = "insert"
        /\ top' = MAX(top, MAX(op', WildTop(op + 1 + ExtSize(run), run)))
    BY <1>4 DEF EmitMatch
  <2> HIDE DEF run
  <2>5. op' - BLOCK_SIZE <= Coded(pp') /\ op' \in Nat /\ pp' \in Nat /\ pp' <= BLOCK_SIZE
    <3>1. LitSize(run) + MatchSize(best_len) <= Coded(run + best_len)
      BY <2>1, CodeSize
    <3>2. LitSize(run) \in Nat /\ MatchSize(best_len) \in Nat
      BY <2>1, SizesAreNat
    <3>3. run + best_len \in Nat /\ pp' = pp + (run + best_len)
      BY <2>1, <2>4 DEF run
    <3>4. pp' \in Nat /\ pp' <= BLOCK_SIZE
      BY <1>1, <2>1, <2>4
    <3>5. Coded(pp) + Coded(run + best_len) <= Coded(pp + (run + best_len))
      BY <2>1, <3>3, CodedAdds
    <3>6. Coded(pp) + Coded(run + best_len) <= Coded(pp')
      BY <3>3, <3>5
    <3>7. Coded(run + best_len) \in Nat /\ Coded(pp) \in Nat /\ Coded(pp') \in Nat
      BY <2>1, <3>3, <3>4, CodedAdds
    <3> QED
      BY <1>1, <2>2, <2>4, <3>1, <3>2, <3>4, <3>6, <3>7
  <2>6. op' <= GBUF_SIZE
    <3>1. BLOCK_SIZE + Coded(pp') + 16 <= GBUF_SIZE /\ GBUF_SIZE \in Nat /\ Coded(pp') \in Nat
      BY <2>5, Room, CodedAdds
    <3> QED
      BY <1>1, <2>5, <3>1
  <2>7. top' <= GBUF_SIZE
    BY <1>1, <2>3, <2>4, <2>5, <2>6 DEF MAX
  <2> QED
    BY <2>4, <2>5, <2>7 DEF OutputInv, InBlock
<1>5. CASE Finish \/ WriteBlock
  BY <1>1, <1>5 DEF Finish, WriteBlock, OutputInv, InBlock, cursor
<1>6. CASE BeginSearch \/ SkipSearch \/ Improve \/ PassOver \/ ChainEnds
  <2>1. InBlock /\ op' = op /\ pp' = pp /\ top' = top /\ pc' \in {"chain", "emit"}
    BY <1>6 DEF BeginSearch, SkipSearch, Improve, PassOver, ChainEnds, EndSearch, NextCandidate,
                InBlock, cursor
  <2> QED
    BY <1>1, <2>1 DEF OutputInv, InBlock
<1>7. CASE InsertMatched \/ InsertLiteral
  <2>1. InBlock /\ op' = op /\ pp' = pp /\ top' = top /\ pc' \in {"scan", "insert"}
    BY <1>7 DEF InsertMatched, InsertLiteral, InBlock
  <2> QED
    BY <1>1, <2>1 DEF OutputInv, InBlock
<1>8. CASE UNCHANGED vars
  BY <1>8 DEF OutputInv, InBlock, vars, cursor
<1> QED
  BY <1>2, <1>3, <1>4, <1>5, <1>6, <1>7, <1>8 DEF Next

LEMMA OutputHolds == Spec => [](Inv /\ OutputInv)
<1>1. Init => OutputInv
  <2> SUFFICES ASSUME Init PROVE OutputInv
    OBVIOUS
  <2>1. 0 <= GBUF_SIZE
    BY Constants, Room
  <2> QED
    BY <2>1 DEF Init, OutputInv, InBlock
<1> QED
  BY <1>1, InitTyped, InvStep, OutputStep, PTL DEF Spec

(* g_buf holds the block, its codes and what wild_copy writes too many, in *)
(* whatever way the codes are cut, and a block grows by no more than two   *)
(* bytes and one in 255.                                                   *)
THEOREM OutputAlwaysFits == Spec => []OutputFits
<1>1. Inv /\ OutputInv => OutputFits
  <2> SUFFICES ASSUME Inv, OutputInv PROVE OutputFits
    OBVIOUS
  <2>1. n \in Nat
    BY Bounds DEF Inv
  <2> QED
    BY <2>1 DEF OutputInv, OutputFits, Coded
<1> QED
  BY <1>1, OutputHolds, PTL

-----------------------------------------------------------------------------
(* How a block ends.                                                       *)

\* Every code so far holds a match, the last of them begun twelve bytes before
\* the end of the block at the latest.
CodesInv ==
  InBlock =>
    /\ \A i \in 1..Len(codes) : codes[i].len >= MIN_MATCH
    /\ codes = <<>> => pp = 0
    /\ codes # <<>> => codes[Len(codes)].len + n - pp >= 12

LEMMA Appended ==
  ASSUME NEW C, NEW q \in Seq(C), NEW c
  PROVE  /\ Append(q, c) # <<>> /\ Len(q) \in Nat /\ Len(Append(q, c)) = Len(q) + 1
         /\ Append(q, c)[Len(q) + 1] = c
         /\ \A i \in 1..Len(q) : Append(q, c)[i] = q[i]
OBVIOUS

LEMMA CodesStep == Inv /\ CodesInv /\ [Next]_vars => CodesInv'
<1> SUFFICES ASSUME Inv, CodesInv, [Next]_vars PROVE CodesInv'
  OBVIOUS
<1>1. TypeOK /\ CursorsInOrder /\ MatchFound /\ codes \in Seq(Code)
  BY Typed DEF Inv, TypeOK
<1>2. CASE ReadBlock
  BY <1>2 DEF ReadBlock, CodesInv
<1>3. CASE FlushLiterals \/ WriteBlock \/ Finish
  BY <1>3 DEF FlushLiterals, WriteBlock, Finish, CodesInv, InBlock
<1>4. CASE EmitMatch
  <2> DEFINE c == [lits |-> Literals, dist |-> dist, len |-> best_len]
  <2>1. /\ codes' = Append(codes, c) /\ pp' = p + best_len /\ n' = n
        /\ best_len >= MIN_MATCH /\ pc = "emit"
    BY <1>4 DEF EmitMatch
  <2>2. c.len = best_len
    OBVIOUS
  <2> HIDE DEF c
  <2>3. p \in Nat /\ n \in Nat /\ best_len \in Nat /\ (Searchable <=> p + 12 <= n)
    BY <1>1, Bounds
  <2>4. p + 12 <= n
    BY <1>1, <2>1, <2>3 DEF CursorsInOrder
  <2>5. /\ codes' # <<>> /\ Len(codes) \in Nat /\ Len(codes') = Len(codes) + 1
        /\ codes'[Len(codes) + 1] = c
        /\ \A i \in 1..Len(codes) : codes'[i] = codes[i]
    BY <1>1, <2>1, Appended
  <2>6. \A i \in 1..Len(codes) : codes[i].len >= MIN_MATCH
    BY <2>1 DEF CodesInv, InBlock
  <2>7. \A i \in 1..Len(codes') : codes'[i].len >= MIN_MATCH
    <3> TAKE i \in 1..Len(codes')
    <3>1. CASE i = Len(codes) + 1
      BY <2>1, <2>2, <2>5, <3>1
    <3>2. CASE i \in 1..Len(codes)
      BY <2>5, <2>6, <3>2
    <3> QED
      BY <2>5, <3>1, <3>2
  <2>8. codes'[Len(codes')].len = best_len
    BY <2>2, <2>5
  <2>9. codes'[Len(codes')].len + n' - pp' >= 12
    BY <2>1, <2>3, <2>4, <2>8
  <2> QED
    BY <2>5, <2>7, <2>9 DEF CodesInv
<1>5. CASE BeginSearch \/ SkipSearch \/ Improve \/ PassOver \/ ChainEnds
  <2>1. InBlock /\ UNCHANGED cursor
    BY <1>5 DEF BeginSearch, SkipSearch, Improve, PassOver, ChainEnds, InBlock
  <2> QED
    BY <2>1 DEF CodesInv, cursor
<1>6. CASE InsertMatched \/ InsertLiteral
  <2>1. InBlock /\ UNCHANGED <<n, pp, codes>>
    BY <1>6 DEF InsertMatched, InsertLiteral, InBlock
  <2> QED
    BY <2>1 DEF CodesInv
<1>7. CASE UNCHANGED vars
  BY <1>7 DEF CodesInv, InBlock, vars, cursor
<1> QED
  BY <1>2, <1>3, <1>4, <1>5, <1>6, <1>7 DEF Next

LEMMA FlushEnds ==
  ASSUME Inv, CodesInv, FlushLiterals
  PROVE  EndsInLiterals'
<1> DEFINE c == [lits |-> Literals, dist |-> 0, len |-> 0]
<1>1. TypeOK /\ CursorsInOrder /\ codes \in Seq(Code) /\ pc = "scan" /\ InBlock
  BY DEF Inv, TypeOK, FlushLiterals, InBlock
<1>2. /\ p \in Nat /\ n \in Nat /\ pp \in Nat /\ p = n /\ n > 0
      /\ pp = 0 \/ pp <= n - 5
  BY <1>1, Bounds DEF FlushLiterals, CursorsInOrder
<1>3. pp # p /\ p - pp \in Nat /\ p - pp >= MIN(PADDING_LITERALS, n)
  BY <1>2 DEF MIN
<1>4. codes' = Append(codes, c) /\ n' = n
  BY <1>3 DEF FlushLiterals
<1>5. c.len = 0 /\ c.lits = Literals /\ Len(Literals) = p - pp
  BY <1>3 DEF Literals
<1> HIDE DEF c
<1>6. /\ codes' # <<>> /\ Len(codes) \in Nat /\ Len(codes') = Len(codes) + 1
      /\ codes'[Len(codes) + 1] = c
      /\ \A i \in 1..Len(codes) : codes'[i] = codes[i]
  BY <1>1, <1>4, Appended
<1>7. /\ \A i \in 1..Len(codes) : codes[i].len >= MIN_MATCH
      /\ codes # <<>> => codes[Len(codes)].len + n - pp >= 12
  BY <1>1 DEF CodesInv
<1>8. codes'[Len(codes')] = c
  BY <1>6
<1>9. \A i \in 1..(Len(codes') - 1) : codes'[i].len >= MIN_MATCH
  BY <1>6, <1>7
<1>10. Len(codes') > 1 => codes'[Len(codes') - 1].len + Len(c.lits) >= 12
  <2> SUFFICES ASSUME Len(codes') > 1
               PROVE  codes'[Len(codes') - 1].len + Len(c.lits) >= 12
    OBVIOUS
  <2>1. Len(codes) >= 1 /\ codes # <<>> /\ Len(codes') - 1 = Len(codes)
    BY <1>1, <1>6
  <2>2. codes'[Len(codes') - 1] = codes[Len(codes)]
    BY <1>6, <2>1
  <2>3. codes[Len(codes)].len \in Nat
    <3>1. codes[Len(codes)] \in Code
      BY <1>1, <1>6, <2>1
    <3> QED
      BY <3>1 DEF Code
  <2>4. codes[Len(codes)].len + n - pp >= 12
    BY <1>7, <2>1
  <2> QED
    BY <1>2, <1>5, <2>2, <2>3, <2>4
<1> QED
  BY <1>3, <1>4, <1>5, <1>6, <1>8, <1>9, <1>10 DEF EndsInLiterals

LEMMA CodesHold == Spec => []CodesInv
<1>1. Init => CodesInv
  BY DEF Init, CodesInv, InBlock
<1> QED
  BY <1>1, Invariance, CodesStep, PTL DEF Spec

(* In every block the last code is literals only, five of them where the   *)
(* block has five bytes, and no match starts within twelve bytes of the    *)
(* end: what LZ4's decoders ask of a block, for every input.               *)
THEOREM BlocksEndInLiterals == Spec => []EndsInLiterals
<1>1. Init => EndsInLiterals
  BY DEF Init, EndsInLiterals
<1>2. Inv /\ CodesInv /\ EndsInLiterals /\ [Next]_vars => EndsInLiterals'
  <2> SUFFICES ASSUME Inv, CodesInv, EndsInLiterals, [Next]_vars PROVE EndsInLiterals'
    OBVIOUS
  <2>1. CASE FlushLiterals
    BY <2>1, FlushEnds
  <2>2. CASE UNCHANGED vars
    BY <2>2 DEF EndsInLiterals, vars, cursor
  <2>3. ~FlushLiterals /\ Next => pc' # "write"
    BY DEF Next, ReadBlock, Finish, WriteBlock, BeginSearch, SkipSearch, Improve, PassOver,
           ChainEnds, EndSearch, NextCandidate, EmitMatch, InsertMatched, InsertLiteral
  <2> QED
    BY <2>1, <2>2, <2>3 DEF EndsInLiterals
<1> QED
  BY <1>1, <1>2, Invariance, CodesHold, PTL DEF Spec

-----------------------------------------------------------------------------
(* The buffer of the caller.                                               *)

\* What has been taken from the input and written to the output.
done == IF pc \in {"read", "done"} THEN inputIndex ELSE inputIndex - n

Block == /\ n > 0
         /\ n = BLOCK_SIZE \/ inputIndex = Len(source)

\* k blocks of a short input are written, with six bytes more than their codes.
Written(k) ==
  /\ outputIndex <= Coded(done) + 6 * k
  /\ \/ done = Len(source)
     \/ k = 0 /\ done = 0
     \/ k = 1 /\ done = BLOCK_SIZE

BoundInv ==
  /\ pc \notin {"read", "done"} => Block
  /\ Len(source) <= 2 * BLOCK_SIZE => \E k \in 0..2 : Written(k)

LEMMA FilesTyped ==
  ASSUME TypeOK
  PROVE  /\ Len(source) \in Nat /\ inputIndex \in Nat /\ n \in Nat /\ n <= inputIndex
         /\ inputIndex <= Len(source) /\ n <= BLOCK_SIZE /\ BLOCK_SIZE \in Nat
         /\ outputIndex \in Nat /\ op \in Nat /\ op >= BLOCK_SIZE /\ done \in Nat
         /\ done <= Len(source)
<1>1. /\ Len(source) \in Nat /\ inputIndex \in Nat /\ n \in Nat /\ n <= inputIndex
      /\ inputIndex <= Len(source) /\ n <= BLOCK_SIZE /\ BLOCK_SIZE \in Nat
      /\ outputIndex \in Nat /\ op \in Nat /\ op >= BLOCK_SIZE
  BY BlockBytes, Constants DEF TypeOK
<1> QED
  BY <1>1 DEF done

LEMMA BoundStep == Inv /\ OutputInv /\ BoundInv /\ [Next]_vars => BoundInv'
<1> SUFFICES ASSUME Inv, OutputInv, BoundInv, [Next]_vars PROVE BoundInv'
  OBVIOUS
<1>1. /\ Len(source) \in Nat /\ inputIndex \in Nat /\ n \in Nat /\ n <= inputIndex
      /\ inputIndex <= Len(source) /\ n <= BLOCK_SIZE /\ BLOCK_SIZE \in Nat
      /\ outputIndex \in Nat /\ op \in Nat /\ op >= BLOCK_SIZE /\ done \in Nat
  BY FilesTyped DEF Inv
<1>2. CASE ReadBlock
  <2>1. /\ pc = "read" /\ n' = Available /\ inputIndex' = inputIndex + Available
        /\ Available > 0 /\ pc' = "scan"
        /\ UNCHANGED <<source, outputIndex>>
    BY <1>2 DEF ReadBlock
  <2>2. /\ Available \in Nat
        /\ Available = BLOCK_SIZE \/ Available = Len(source) - inputIndex
    BY <1>1 DEF Available, MIN
  <2>3. done' = done
    BY <1>1, <2>1, <2>2 DEF done
  <2>4. Block'
    BY <1>1, <2>1, <2>2 DEF Block
  <2> QED
    BY <2>1, <2>3, <2>4 DEF BoundInv, Written
<1>3. CASE WriteBlock
  <2>1. /\ pc = "write" /\ pc' = "read" /\ outputIndex' = outputIndex + 4 + (op - BLOCK_SIZE)
        /\ UNCHANGED <<source, inputIndex, n>>
    BY <1>3 DEF WriteBlock, cursor
  <2> SUFFICES ASSUME Len(source) <= 2 * BLOCK_SIZE
               PROVE  \E k \in 0..2 : Written(k)'
    BY <2>1 DEF BoundInv
  <2>2. PICK k \in 0..2 : Written(k)
    BY <2>1 DEF BoundInv
  <2>3. done = inputIndex - n /\ done' = inputIndex
    BY <2>1 DEF done
  <2>4. n > 0 /\ (n = BLOCK_SIZE \/ inputIndex = Len(source))
    BY <2>1 DEF BoundInv, Block
  <2>5. /\ outputIndex <= Coded(done) + 6 * k
        /\ (k = 0 /\ done = 0) \/ (k = 1 /\ done = BLOCK_SIZE)
    BY <1>1, <2>2, <2>3, <2>4 DEF Written
  <2>6. op - BLOCK_SIZE <= Coded(n) + 2
    BY <2>1 DEF OutputInv
  <2>7. /\ Coded(done) + Coded(n) <= Coded(inputIndex)
        /\ Coded(done) \in Nat /\ Coded(n) \in Nat /\ Coded(inputIndex) \in Nat
    <3>1. done + n = inputIndex
      BY <1>1, <2>3
    <3>2. Coded(done) + Coded(n) <= Coded(done + n)
      BY <1>1, CodedAdds
    <3> QED
      BY <1>1, <3>1, <3>2, CodedAdds
  <2>8. outputIndex' <= Coded(done') + 6 * (k + 1)
    BY SMTT(30), <1>1, <2>1, <2>3, <2>5, <2>6, <2>7
  <2>9. Len(source)' = Len(source)
    BY <2>1
  <2>10. CASE k = 0 /\ done = 0
    <3>1. done' = n
      BY <1>1, <2>3, <2>10
    <3>2. done' = Len(source)' \/ (k + 1 = 1 /\ done' = BLOCK_SIZE)
      BY <2>3, <2>4, <2>9, <2>10, <3>1
    <3>3. Written(k + 1)'
      BY <2>8, <3>2 DEF Written
    <3> QED
      BY <2>10, <3>3
  <2>11. CASE k = 1 /\ done = BLOCK_SIZE
    <3>1. inputIndex = BLOCK_SIZE + n
      BY <1>1, <2>3, <2>11
    <3>2. done' = Len(source)'
      BY <1>1, <2>3, <2>4, <2>9, <3>1
    <3>3. Written(k + 1)'
      BY <2>8, <3>2 DEF Written
    <3> QED
      BY <2>11, <3>3
  <2> QED
    BY <2>5, <2>10, <2>11
<1>4. CASE Finish
  BY <1>4 DEF Finish, BoundInv, Written, done, files, cursor
<1>5. CASE \/ FlushLiterals \/ BeginSearch \/ SkipSearch \/ Improve \/ PassOver \/ ChainEnds
           \/ EmitMatch \/ InsertMatched \/ InsertLiteral
  <2>1. /\ pc \notin {"read", "done"} /\ pc' \notin {"read", "done"}
        /\ UNCHANGED <<files, n>>
    BY <1>5 DEF FlushLiterals, BeginSearch, SkipSearch, Improve, PassOver, ChainEnds,
                EndSearch, NextCandidate, EmitMatch, InsertMatched, InsertLiteral, cursor
  <2> QED
    BY <2>1 DEF BoundInv, Block, Written, done, files
<1>6. CASE UNCHANGED vars
  BY <1>6 DEF BoundInv, Block, Written, done, vars, files, cursor
<1> QED
  BY <1>2, <1>3, <1>4, <1>5, <1>6 DEF Next

(* For an input of one or two blocks the buffer of LZ4_compressBound bytes *)
(* that main.cpp allocates is never written past, whatever the sizes and   *)
(* the bytes of the blocks.                                                *)
THEOREM OutputFitsBound == Spec => []FitsCompressBound
<1>1. Init => BoundInv
  <2> SUFFICES ASSUME Init PROVE BoundInv
    OBVIOUS
  <2>1. pc = "read" /\ inputIndex = 0 /\ outputIndex = 0
    BY DEF Init
  <2>2. done = 0 /\ Coded(0) = 0
    <3>1. Coded(0) = 0
      BY DEF Coded
    <3> QED
      BY <2>1, <3>1 DEF done
  <2>3. Written(0)
    BY <2>1, <2>2 DEF Written
  <2> QED
    BY <2>1, <2>3 DEF BoundInv
<1>2. Inv /\ BoundInv => FitsCompressBound
  <2> SUFFICES ASSUME Inv, BoundInv, Len(source) <= 2 * BLOCK_SIZE
               PROVE  outputIndex <= LZ4_compressBound(Len(source))
    BY DEF FitsCompressBound
  <2>1. Len(source) \in Nat /\ done \in Nat /\ done <= Len(source) /\ outputIndex \in Nat
    BY FilesTyped DEF Inv
  <2>2. PICK k \in 0..2 : outputIndex <= Coded(done) + 6 * k
    BY DEF BoundInv, Written
  <2>3. Coded(done) <= Coded(Len(source)) /\ Coded(done) \in Nat
    BY <2>1, CodedAdds
  <2>4. LZ4_compressBound(Len(source)) = Coded(Len(source)) + 16 /\ Coded(Len(source)) \in Nat
    BY <2>1, CodedAdds DEF LZ4_compressBound, Coded
  <2> QED
    BY <2>1, <2>2, <2>3, <2>4
<1> QED
  BY <1>1, <1>2, OutputHolds, BoundStep, PTL DEF Spec

(***************************************************************************)
(* The promise.                                                            *)
(***************************************************************************)

-----------------------------------------------------------------------------
(* Parts of a sequence.                                                    *)

LEMMA Part ==
  ASSUME NEW S, NEW w \in Seq(S), NEW a \in Nat, NEW b \in Nat, a <= b, b <= Len(w)
  PROVE  /\ SubSeq(w, a + 1, b) \in Seq(S) /\ Len(SubSeq(w, a + 1, b)) = b - a
         /\ \A i \in 1..(b - a) : SubSeq(w, a + 1, b)[i] = w[a + i]
<1>1. \A i \in (a + 1)..b : w[i] \in S
  BY LenProperties
<1>2. a + 1 \in Int /\ b \in Int /\ b - (a + 1) + 1 = b - a
  OBVIOUS
<1>3. /\ SubSeq(w, a + 1, b) \in Seq(S)
      /\ Len(SubSeq(w, a + 1, b)) = IF a + 1 <= b THEN b - (a + 1) + 1 ELSE 0
      /\ \A i \in 1..(b - (a + 1) + 1) : SubSeq(w, a + 1, b)[i] = w[a + 1 + i - 1]
  BY <1>1, <1>2, SubSeqProperties
<1>4. Len(SubSeq(w, a + 1, b)) = b - a
  BY <1>2, <1>3
<1>5. \A i \in 1..(b - a) : a + 1 + i - 1 = a + i
  OBVIOUS
<1> QED
  BY <1>2, <1>3, <1>4, <1>5

LEMMA Front ==
  ASSUME NEW S, NEW w \in Seq(S), NEW b \in Nat, b <= Len(w)
  PROVE  /\ SubSeq(w, 1, b) \in Seq(S) /\ Len(SubSeq(w, 1, b)) = b
         /\ \A i \in 1..b : SubSeq(w, 1, b)[i] = w[i]
<1>1. /\ SubSeq(w, 0 + 1, b) \in Seq(S) /\ Len(SubSeq(w, 0 + 1, b)) = b - 0
      /\ \A i \in 1..(b - 0) : SubSeq(w, 0 + 1, b)[i] = w[0 + i]
  <2>1. 0 \in Nat /\ 0 <= b
    OBVIOUS
  <2> QED
    BY <2>1, Part
<1>2. 0 + 1 = 1 /\ b - 0 = b /\ \A i \in 1..b : 0 + i = i
  OBVIOUS
<1> QED
  BY <1>1, <1>2

\* The front of a front, cut in two.
LEMMA FrontInTwo ==
  ASSUME NEW S, NEW w \in Seq(S), NEW a \in Nat, NEW m \in Nat, NEW k \in Nat,
         a <= m, m <= k, k <= Len(w)
  PROVE  SubSeq(SubSeq(w, 1, k), 1, m) = SubSeq(w, 1, a) \o SubSeq(w, a + 1, m)
<1> DEFINE u == SubSeq(w, 1, k)
           l == SubSeq(u, 1, m)
<1>1. Len(w) \in Nat
  BY LenProperties
<1>2. u \in Seq(S) /\ Len(u) = k /\ \A i \in 1..k : u[i] = w[i]
  BY Front
<1> HIDE DEF u
<1>3. l \in Seq(S) /\ Len(l) = m /\ \A i \in 1..m : l[i] = u[i]
  BY <1>2, Front
<1> HIDE DEF l
<1>4. /\ SubSeq(w, 1, m) \in Seq(S) /\ Len(SubSeq(w, 1, m)) = m
      /\ \A i \in 1..m : SubSeq(w, 1, m)[i] = w[i]
  BY <1>1, Front
<1>5. l = SubSeq(w, 1, m)
  <2>1. \A i \in 1..Len(l) : l[i] = SubSeq(w, 1, m)[i]
    BY <1>2, <1>3, <1>4
  <2> QED
    BY <1>3, <1>4, <2>1, SeqEqual
<1>6. SubSeq(w, 1, a) \o SubSeq(w, a + 1, m) = SubSeq(w, 1, m)
  <2>1. 1 \in 1..(Len(w) + 1) /\ a \in (1 - 1)..Len(w) /\ m \in a..Len(w)
    BY <1>1
  <2> QED
    BY <2>1, ConcatAdjacentSubSeq
<1> QED
  BY <1>5, <1>6 DEF l, u

-----------------------------------------------------------------------------
(* What a code means.                                                      *)

LEMMA BlockTyped ==
  ASSUME TypeOK
  PROVE  /\ source \in Seq(Byte) /\ Len(source) \in Nat /\ blockStart \in Nat
         /\ blockStart + n = inputIndex /\ blockStart + n <= Len(source)
         /\ inputIndex \in Nat /\ inputIndex <= Len(source)
<1>1. source \in Seq(Byte)
  BY Constants DEF TypeOK
<1>2. /\ Len(source) \in Nat /\ inputIndex \in Nat /\ n \in Nat /\ n <= inputIndex
      /\ inputIndex <= Len(source)
  BY FilesTyped
<1> QED
  BY <1>1, <1>2 DEF blockStart

\* The literals from a to m and a copy, from d back, of the bytes up to k.
LEMMA Decoded ==
  ASSUME TypeOK, NEW a \in Nat, NEW m \in Nat, NEW k \in Nat, NEW d \in 0..(WINDOW_SIZE - 1),
         a <= m, m <= k, k <= Len(source),
         m < k => d > 0 /\ m - d >= blockStart,
         \A i \in (m + 1)..k : source[i] = source[i - d]
  PROVE  Promise!Decodes(SubSeq(source, 1, a),
                         [lits |-> SubSeq(source, a + 1, m), dist |-> d, len |-> k - m],
                         SubSeq(source, 1, k))
<1> DEFINE c == [lits |-> SubSeq(source, a + 1, m), dist |-> d, len |-> k - m]
           before == SubSeq(source, 1, a)
           after == SubSeq(source, 1, k)
<1>1. /\ source \in Seq(Byte) /\ Len(source) \in Nat /\ blockStart \in Nat
      /\ WINDOW_SIZE \in Nat
  BY BlockTyped, Constants
<1>2. c.lits = SubSeq(source, a + 1, m) /\ c.dist = d /\ c.len = k - m
  OBVIOUS
<1> HIDE DEF c
<1>3. Len(before) = a
  BY <1>1, Front
<1>4. Len(c.lits) = m - a
  <2>1. a <= m /\ m <= Len(source)
    BY <1>1
  <2>2. Len(SubSeq(source, a + 1, m)) = m - a
    BY <1>1, <2>1, Part
  <2> QED
    BY <1>2, <2>2
<1>5. Len(after) = k /\ \A i \in 1..k : after[i] = source[i]
  BY <1>1, Front
<1>6. SubSeq(after, 1, m) = before \o c.lits
  BY <1>1, <1>2, FrontInTwo
<1>7. Len(before) + Len(c.lits) = m
  BY <1>3, <1>4
<1>8. \A i \in (m + 1)..Len(after) : after[i] = after[i - c.dist]
  <2> TAKE i \in (m + 1)..Len(after)
  <2>1. i \in (m + 1)..k /\ m < k /\ i \in 1..k
    BY <1>5
  <2>2. i - d \in 1..k
    BY <1>1, <2>1
  <2> QED
    BY <1>2, <1>5, <2>1, <2>2
<1>9. c.len > 0 => c.dist \in 1..(WINDOW_SIZE - 1) /\ m - c.dist >= blockStart
  BY <1>1, <1>2
<1>10. Len(after) = m + c.len
  BY <1>2, <1>5
<1> HIDE DEF before, after
<1>11. Promise!Decodes(before, c, after)
  BY <1>6, <1>7, <1>8, <1>9, <1>10 DEF Promise!Decodes
<1> QED
  BY <1>11 DEF before, c, after

LEMMA LiteralsArePart ==
  ASSUME TypeOK, pp <= p
  PROVE  Literals = SubSeq(source, blockStart + pp + 1, blockStart + p)
<1> DEFINE a == blockStart + pp
           m == blockStart + p
<1>1. /\ source \in Seq(Byte) /\ Len(source) \in Nat /\ a \in Nat /\ m \in Nat /\ a <= m
      /\ m <= Len(source) /\ m - a = p - pp /\ p - pp \in Nat
      /\ blockStart \in Nat /\ pp \in Nat
  <2>1. /\ source \in Seq(Byte) /\ Len(source) \in Nat /\ blockStart \in Nat
        /\ blockStart + n <= Len(source)
    BY BlockTyped
  <2>2. p \in Nat /\ pp \in Nat /\ n \in Nat /\ p <= n
    BY Bounds
  <2> QED
    BY ONLY <2>1, <2>2, pp <= p
<1> HIDE DEF a, m
<1>2. /\ SubSeq(source, a + 1, m) \in Seq(Byte) /\ Len(SubSeq(source, a + 1, m)) = m - a
      /\ \A i \in 1..(m - a) : SubSeq(source, a + 1, m)[i] = source[a + i]
  BY <1>1, Part
<1>3. Literals \in Seq(Byte) /\ Len(Literals) = p - pp
  BY LiteralsAreBytes
<1>4. \A i \in 1..(p - pp) : Literals[i] = source[a + i]
  <2> TAKE i \in 1..(p - pp)
  <2>1. Literals[i] = source[blockStart + (pp + i - 1) + 1]
    BY DEF Literals, g_buf
  <2>2. blockStart + (pp + i - 1) + 1 = a + i
    BY <1>1 DEF a
  <2> QED
    BY <2>1, <2>2
<1>5. \A i \in 1..Len(Literals) : Literals[i] = SubSeq(source, a + 1, m)[i]
  BY <1>1, <1>2, <1>3, <1>4
<1>6. Len(Literals) = Len(SubSeq(source, a + 1, m))
  BY <1>1, <1>2, <1>3
<1>7. Literals = SubSeq(source, a + 1, m)
  BY <1>2, <1>3, <1>5, <1>6, SeqEqual
<1> QED
  BY <1>7 DEF a, m

\* A code for what lies between pp and p, and the copy behind it up to k.
LEMMA CodeKeepsPromise ==
  ASSUME TypeOK, InBlock, pp <= p, NEW d \in 0..(WINDOW_SIZE - 1), NEW len \in Nat,
         p + len <= n,
         len > 0 => d > 0 /\ d <= p,
         \A j \in 0..(len - 1) : g_buf(p - d + j) = g_buf(p + j),
         codes' = Append(codes, [lits |-> Literals, dist |-> d, len |-> len]),
         UNCHANGED <<files, n>>, pc' # "done",
         Covered' = blockStart + p + len
  PROVE  Promise!WriteCode
<1> DEFINE a == blockStart + pp
           m == blockStart + p
           k == blockStart + p + len
           c == [lits |-> SubSeq(source, a + 1, m), dist |-> d, len |-> k - m]
<1>1. /\ source \in Seq(Byte) /\ Len(source) \in Nat /\ blockStart \in Nat
      /\ blockStart + n <= Len(source) /\ p \in Nat /\ pp \in Nat /\ n \in Nat
      /\ WINDOW_SIZE \in Nat
  BY BlockTyped, Bounds, Constants
<1>2. /\ a \in Nat /\ m \in Nat /\ k \in Nat /\ a <= m /\ m <= k /\ k <= Len(source)
      /\ k - m = len
  BY <1>1
<1>3. m < k => d > 0 /\ m - d >= blockStart
  BY <1>1
<1>4. \A i \in (m + 1)..k : source[i] = source[i - d]
  <2> TAKE i \in (m + 1)..k
  <2> DEFINE j == i - m - 1
  <2>1. j \in 0..(len - 1) /\ d \in Int
    BY <1>1, <1>2
  <2>2. g_buf(p - d + j) = g_buf(p + j)
    BY <2>1
  <2>3. blockStart + (p + j) + 1 = i /\ blockStart + (p - d + j) + 1 = i - d
    BY <1>1, <2>1
  <2> QED
    BY <2>2, <2>3 DEF g_buf
<1>5. codes' = Append(codes, c)
  <2>1. Literals = SubSeq(source, a + 1, m)
    BY LiteralsArePart
  <2> QED
    BY <1>2, <2>1
<1>6. Covered = a /\ Covered' = k /\ pc # "done" /\ (pc # "done")' /\ source' = source
  BY DEF Covered, InBlock, files
<1> HIDE DEF a, m, k
<1>7. Promise!Decodes(SubSeq(source, 1, a), c, SubSeq(source, 1, k))
  BY <1>2, <1>3, <1>4, Decoded
<1> HIDE DEF c
<1>8. Len(SubSeq(source, 1, a)) = a /\ Len(SubSeq(source, 1, k)) = k
  <2>1. a <= Len(source)
    BY <1>1, <1>2
  <2>2. Len(SubSeq(source, 1, a)) = a
    BY <1>1, <1>2, <2>1, Front
  <2> QED
    BY <1>1, <1>2, <2>2, Front
<1>9. codes' # codes
  <2>1. codes \in Seq(Code)
    BY DEF TypeOK
  <2>2. Len(codes') = Len(codes) + 1 /\ Len(codes) \in Nat
    BY <1>5, <2>1, Appended
  <2> QED
    BY <2>2
<1>10. m \in a..k /\ k \in {Len(SubSeq(source, 1, k))}
  BY <1>2, <1>8
<1>11. /\ SubSeq(source, 1, Covered) = SubSeq(source, 1, a)
       /\ SubSeq(source, 1, Covered)' = SubSeq(source, 1, k)
  BY <1>6
<1>12. UNCHANGED <<source, blockStart, output, (pc = "done")>>
  BY <1>6 DEF files, blockStart
<1> QED
  BY <1>5, <1>6, <1>7, <1>8, <1>9, <1>10, <1>11, <1>12 DEF Promise!WriteCode, c

LEMMA Stutters ==
  ASSUME InBlock, InBlock', UNCHANGED <<files, n, pp, codes>>
  PROVE  UNCHANGED Promise!vars
<1>1. Covered' = Covered /\ blockStart' = blockStart /\ pc # "done" /\ (pc # "done")'
  BY DEF Covered, InBlock, files, blockStart
<1> QED
  BY <1>1 DEF Promise!vars, files

LEMMA StepKeepsPromise ==
  ASSUME Inv, CodesInv, EndsInLiterals, [Next]_vars
  PROVE  [Promise!Next]_(Promise!vars)
<1>1. TypeOK /\ CursorsInOrder /\ MatchFound
  BY DEF Inv
<1>2. CASE ReadBlock
  <2>1. pc = "read" /\ pc' = "scan" /\ pp' = 0 /\ codes' = <<>>
        /\ n' = Available /\ inputIndex' = inputIndex + Available
        /\ source' = source /\ output' = output
    BY <1>2 DEF ReadBlock
  <2>2. inputIndex \in Nat /\ Available \in Nat
    BY <1>1, <1>2, FilesTyped DEF Available, MIN, ReadBlock
  <2>3. blockStart' = inputIndex /\ Covered = inputIndex /\ Covered' = inputIndex
    BY <2>1, <2>2 DEF blockStart, Covered
  <2>4. Len(SubSeq(source, 1, Covered)) = inputIndex
    BY <1>1, <2>3, BlockTyped, Front
  <2>5. Promise!StartBlock
    BY <2>1, <2>3, <2>4 DEF Promise!StartBlock
  <2> QED
    BY <2>5 DEF Promise!Next
<1>3. CASE Finish
  <2>1. pc = "read" /\ Available = 0 /\ pc' = "done" /\ UNCHANGED <<files, n, codes>>
    BY <1>3 DEF Finish, cursor
  <2>2. source \in Seq(Byte) /\ inputIndex = Len(source)
    BY <1>1, <2>1, BlockTyped, Constants DEF Available, MIN
  <2>3. Covered = Len(source) /\ Covered' = Covered /\ blockStart' = blockStart
    BY <2>1, <2>2 DEF Covered, blockStart, files
  <2>4. SubSeq(source, 1, Covered) = source
    BY <2>2, <2>3, SubSeqFull
  <2>5. Promise!Finish
    BY <2>1, <2>3, <2>4 DEF Promise!Finish, files
  <2> QED
    BY <2>5 DEF Promise!Next
<1>4. CASE WriteBlock
  <2>1. pc = "write" /\ pc' = "read" /\ output' = Append(output, codes)
        /\ UNCHANGED <<source, inputIndex, n, codes>>
    BY <1>4 DEF WriteBlock, cursor
  <2>2. codes # <<>> /\ codes[Len(codes)].len = 0
    BY <2>1 DEF EndsInLiterals
  <2>3. Covered' = Covered /\ blockStart' = blockStart
    BY <2>1 DEF Covered, blockStart
  <2>4. Promise!EndBlock
    BY <2>1, <2>2, <2>3 DEF Promise!EndBlock
  <2> QED
    BY <2>4 DEF Promise!Next
<1>5. CASE EmitMatch
  <2>1. /\ pc = "emit" /\ best_len >= MIN_MATCH /\ pp' = p + best_len /\ pc' = "insert"
        /\ codes' = Append(codes, [lits |-> Literals, dist |-> dist, len |-> best_len])
        /\ UNCHANGED <<files, n>>
    BY <1>5 DEF EmitMatch
  <2>2. /\ p \in Nat /\ n \in Nat /\ max_match = n - 5 - p /\ best_len \in Nat
        /\ limit >= p - WINDOW_SIZE /\ limit \in Int /\ limit >= NIL
    BY <1>1, Bounds
  <2>3. /\ best_len \in MIN_MATCH..max_match /\ dist \in 1..(p - limit - 1) /\ dist <= p
        /\ \A j \in 0..(best_len - 1) : g_buf(p - dist + j) = g_buf(p + j)
    BY <1>1, <2>1, <2>2 DEF MatchFound, Searching
  <2>4. pp <= p /\ InBlock
    BY <1>1, <2>1 DEF CursorsInOrder, Searching, InBlock
  <2>5. dist \in 0..(WINDOW_SIZE - 1)
    BY <1>1 DEF TypeOK
  <2>6. p + best_len <= n /\ (best_len > 0 => dist > 0 /\ dist <= p)
    BY <2>2, <2>3
  <2>7. Covered' = blockStart + p + best_len
    <3>1. Covered' = blockStart + (p + best_len)
      BY <2>1 DEF Covered, blockStart, files
    <3> QED
      BY <1>1, <2>2, <3>1, BlockTyped
  <2>8. Promise!WriteCode
    BY <1>1, <2>1, <2>2, <2>3, <2>4, <2>5, <2>6, <2>7, CodeKeepsPromise
  <2> QED
    BY <2>8 DEF Promise!Next
<1>6. CASE FlushLiterals
  <2>1. pc = "scan" /\ p >= n /\ pc' = "write" /\ UNCHANGED <<files, n>>
    BY <1>6 DEF FlushLiterals
  <2>2. /\ p \in Nat /\ n \in Nat /\ pp \in Nat /\ p = n /\ pp <= p /\ n > 0
        /\ pp = 0 \/ pp <= n - 5
    BY <1>1, <2>1, Bounds DEF CursorsInOrder, InBlock
  <2>3. pp # p
    BY <2>2
  <2>4. codes' = Append(codes, [lits |-> Literals, dist |-> 0, len |-> 0])
    BY <1>6, <2>3 DEF FlushLiterals
  <2>5. 0 \in 0..(WINDOW_SIZE - 1) /\ 0 \in Nat /\ p + 0 <= n
        /\ \A j \in 0..(0 - 1) : g_buf(p - 0 + j) = g_buf(p + j)
    BY <1>1, <2>2, Typed
  <2>6. Covered' = blockStart + p + 0
    <3>1. Covered' = inputIndex
      BY <2>1 DEF Covered, files
    <3> QED
      BY <1>1, <2>2, <3>1, BlockTyped
  <2>7. Promise!WriteCode
    BY <1>1, <2>1, <2>2, <2>4, <2>5, <2>6, CodeKeepsPromise DEF InBlock
  <2> QED
    BY <2>7 DEF Promise!Next
<1>7. CASE \/ BeginSearch \/ SkipSearch \/ Improve \/ PassOver \/ ChainEnds
           \/ InsertMatched \/ InsertLiteral
  <2>1. InBlock /\ InBlock' /\ UNCHANGED <<files, n, pp, codes>>
    BY <1>7 DEF BeginSearch, SkipSearch, Improve, PassOver, ChainEnds, EndSearch,
                NextCandidate, InsertMatched, InsertLiteral, InBlock, cursor
  <2> QED
    BY <2>1, Stutters
<1>8. CASE UNCHANGED vars
  BY <1>8 DEF vars, files, cursor, Promise!vars, Covered, blockStart
<1> QED
  BY <1>2, <1>3, <1>4, <1>5, <1>6, <1>7, <1>8 DEF Next

(* Whatever the input, decoding the codes in the order compress writes     *)
(* them rebuilds it: every code yields the next part of the source, copies *)
(* stay inside their block and within the reach of STORE_16, every block   *)
(* ends in literals, and nothing is missing when compress returns.         *)
THEOREM PromiseIsKept == Spec => KeepsPromise
<1>1. Init => Promise!Init
  <2> SUFFICES ASSUME Init PROVE Promise!Init
    OBVIOUS
  <2>1. /\ pc = "read" /\ source \in Inputs /\ inputIndex = 0 /\ n = 0 /\ codes = <<>>
        /\ output = <<>>
    BY DEF Init
  <2>2. Covered = 0 /\ blockStart = 0
    BY <2>1 DEF Covered, blockStart
  <2>3. SubSeq(source, 1, 0) = <<>>
    BY SubSeqEmpty
  <2> QED
    BY <2>1, <2>2, <2>3 DEF Promise!Init
<1>2. Inv /\ CodesInv /\ EndsInLiterals /\ [Next]_vars => [Promise!Next]_(Promise!vars)
  BY StepKeepsPromise
<1> QED
  BY <1>1, <1>2, Invariance, CodesHold, BlocksEndInLiterals, PTL
     DEF Spec, KeepsPromise, Promise!Spec

(***************************************************************************)
(* The round trip: compress and decompress together.                       *)
(***************************************************************************)

-----------------------------------------------------------------------------
(* Where the codes of a block lie: in comp, and in the block itself.       *)

Octet == 0..255

\* The bytes of a code.
CodeLen(c) == LitSize(Len(c.lits)) + IF c.len = 0 THEN 0 ELSE MatchSize(c.len)

\* c stands for the part of the block b, of k bytes, that begins at f and ends
\* before t.
Means(b, k, c, f, t) ==
  LET m == f + Len(c.lits)
  IN /\ t = m + c.len /\ t <= k
     /\ \A j \in 1..Len(c.lits) : c.lits[j] = b[f + j - 1]
     /\ c.len = 0 => Len(c.lits) > 0
     /\ c.len > 0 =>
          /\ c.len >= MIN_MATCH /\ m + 12 <= k /\ t + PADDING_LITERALS <= k
          /\ c.dist \in 1..m
          /\ \A i \in m..(t - 1) : b[i] = b[i - c.dist]

\* Code i begins at pos[i] in the block and after off[i] bytes of w; together
\* the codes make up w, and the block up to e.
Layout(b, k, cs, w, e, pos, off) ==
  /\ pos \in [1..(Len(cs) + 1) -> Nat] /\ pos[1] = 0 /\ pos[Len(cs) + 1] = e
  /\ off \in [1..(Len(cs) + 1) -> Nat] /\ off[1] = 0 /\ off[Len(cs) + 1] = Len(w)
  /\ \A i \in 1..Len(cs) :
       /\ Means(b, k, cs[i], pos[i], pos[i + 1])
       /\ off[i + 1] = off[i] + CodeLen(cs[i]) /\ off[i + 1] <= Len(w)
       /\ \A j \in 1..CodeLen(cs[i]) : w[off[i] + j] = Encode(cs[i])[j]

\* memory holds the block up to a, and of the bytes w those after the first o.
Holds(mem, b, w, a, o) ==
  /\ DOMAIN mem = 0..(GBUF_SIZE - 1)
  /\ \A i \in 0..(a - 1) : mem[i] = b[i]
  /\ \A j \in (o + 1)..Len(w) : mem[BLOCK_SIZE + j - 1] = w[j]

text == [i \in 0..(n - 1) |-> g_buf(i)]

\* As much of the block as the codes stand for.
Encoded == IF pc \in {"write", "read", "done"} THEN n ELSE pp

Ended(cs) ==
  /\ cs # <<>> /\ cs[Len(cs)].len = 0
  /\ \A i \in 1..(Len(cs) - 1) : cs[i].len >= MIN_MATCH

AtToken(pos, off, i) ==
  /\ at = pos[i] /\ ip = BLOCK_SIZE + off[i]
  /\ Holds(memory, text, comp, at, off[i])

AtMatch(pos, off, i) ==
  LET run == Len(codes[i].lits)
  IN /\ codes[i].len > 0 /\ token % 16 = Nib(codes[i].len)
     /\ at = pos[i] + run /\ ip = BLOCK_SIZE + off[i] + LitSize(run)
     /\ Holds(memory, text, comp, at, off[i] + LitSize(run))

Decoding(pos, off) ==
  /\ phase = "token" => \E i \in 1..Len(codes) : AtToken(pos, off, i)
  /\ phase = "match" => \E i \in 1..Len(codes) : AtMatch(pos, off, i)

(* The inductive invariant.  The codes of the block make up its bytes and  *)
(* stand for the block up to Encoded; decompress is at the token or at the *)
(* match of some code, has rebuilt the block up to there, and has the      *)
(* bytes after it intact in memory.                                        *)
CodecInv ==
  /\ phase \in {"idle", "token", "match", "write"} /\ DOMAIN memory = 0..(GBUF_SIZE - 1)
  /\ comp \in Seq(Octet) /\ Len(comp) = op - BLOCK_SIZE
  /\ \E pos, off : Layout(text, n, codes, comp, Encoded, pos, off) /\ Decoding(pos, off)
  /\ phase # "idle" => pc = "read" /\ Ended(codes) /\ Len(comp) <= BLOCK_SIZE + EXCESS
  /\ phase = "write" => at = n /\ \A i \in 0..(n - 1) : memory[i] = text[i]
  /\ g_out = SubSeq(source, 1, IF phase = "idle" /\ pc \in {"read", "done"}
                               THEN inputIndex ELSE blockStart)

\* The order of the natural numbers, as a relation.
NatLess == { ss \in Nat \X Nat : ss[1] < ss[2] }

\* The library's relation on the natural numbers, with its operator inserted.
LEMMA NatLessIsWellFounded == IsWellFoundedOn(NatLess, Nat)
<1>1. PICK R : R = OpToRel(<, Nat)
  OBVIOUS
<1>2. R = NatLess
  BY <1>1 DEF OpToRel, NatLess
<1> QED
  BY <1>1, <1>2, NatLessThanWellFounded

\* A set of numbers that is not empty has a least one: the induction the proofs
\* about copies use is the choice of the first byte that would be wrong.
LEMMA Least ==
  ASSUME NEW T \in SUBSET Nat, T # {}
  PROVE  \E x \in T : \A y \in T : x <= y
<1>1. PICK x \in T : \A y \in T : ~(<<y, x>> \in NatLess)
  BY NatLessIsWellFounded, WFMin
<1>2. ASSUME NEW y \in T PROVE x <= y
  <2>1. x \in Nat /\ y \in Nat
    OBVIOUS
  <2>2. y < x => <<y, x>> \in NatLess
    BY <2>1 DEF NatLess
  <2> QED
    BY <1>1, <2>1, <2>2
<1> QED
  BY <1>2

-----------------------------------------------------------------------------
(* Reading back the bytes of a code.                                       *)

\* One byte.
LEMMA Single ==
  ASSUME NEW t \in Octet
  PROVE  <<t>> \in Seq(Octet) /\ Len(<<t>>) = 1 /\ <<t>>[1] = t
OBVIOUS

\* x is v and then w.
Join(x, v, w) ==
  /\ x \in Seq(Octet) /\ Len(x) = Len(v) + Len(w) /\ Len(v) \in Nat /\ Len(w) \in Nat
  /\ \A j \in 1..Len(v) : x[j] = v[j]
  /\ \A j \in 1..Len(w) : x[Len(v) + j] = w[j]

\* Concatenation, byte by byte.
LEMMA Joined ==
  ASSUME NEW v \in Seq(Octet), NEW w \in Seq(Octet)
  PROVE  Join(v \o w, v, w)
<1>1. /\ v \o w \in Seq(Octet) /\ Len(v \o w) = Len(v) + Len(w)
      /\ \A j \in 1..(Len(v) + Len(w)) :
           (v \o w)[j] = IF j <= Len(v) THEN v[j] ELSE w[j - Len(v)]
  BY ConcatProperties
<1>2. Len(v) \in Nat /\ Len(w) \in Nat
  BY LenProperties
<1>3. \A j \in 1..Len(v) : (v \o w)[j] = v[j]
  BY <1>1, <1>2
<1>4. ASSUME NEW j \in 1..Len(w) PROVE (v \o w)[Len(v) + j] = w[j]
  <2>1. Len(v) + j \in 1..(Len(v) + Len(w)) /\ ~(Len(v) + j <= Len(v)) /\ Len(v) + j - Len(v) = j
    BY <1>2
  <2> QED
    BY <1>1, <2>1
<1> QED
  BY <1>1, <1>2, <1>3, <1>4 DEF Join

\* The bytes that continue a count of k.
LEMMA ExtBytes ==
  ASSUME NEW k \in Nat
  PROVE  /\ Ext(k) \in Seq(Octet) /\ Len(Ext(k)) = ExtSize(k) /\ ExtSize(k) \in Nat
         /\ k >= 15 => \E q \in Nat : /\ q <= k /\ ExtSize(k) = q + 1
                                      /\ \A j \in 1..q : Ext(k)[j] = 255
                                      /\ Ext(k)[q + 1] \in 0..254
                                      /\ k = 15 + 255 * q + Ext(k)[q + 1]
<1>1. CASE k < 15
  <2>1. Ext(k) = <<>> /\ ExtSize(k) = 0
    BY <1>1 DEF Ext, ExtSize
  <2> QED
    BY <1>1, <2>1
<1>2. CASE k >= 15
  <2>1. PICK q : q = (k - 15) \div 255
    OBVIOUS
  <2>2. PICK r : r = (k - 15) % 255
    OBVIOUS
  <2>3. q \in Nat /\ r \in 0..254 /\ k = 15 + 255 * q + r /\ q <= k
    BY <1>2, <2>1, <2>2
  <2>4. PICK full : full = [i \in 1..q |-> 255]
    OBVIOUS
  <2>5. full \in Seq(Octet) /\ Len(full) = q /\ \A j \in 1..q : full[j] = 255
    <3>1. 255 \in Octet /\ q \in Nat
      BY <2>3 DEF Octet
    <3>2. full \in [1..q -> Octet]
      BY <2>4, <3>1
    <3> QED
      BY <2>4, <3>1, <3>2
  <2>6. <<r>> \in Seq(Octet) /\ Len(<<r>>) = 1 /\ <<r>>[1] = r
    <3>1. r \in Octet
      BY <2>3 DEF Octet
    <3> QED
      BY <3>1, Single
  <2>7. Ext(k) = full \o <<r>> /\ ExtSize(k) = 1 + q
    BY <1>2, <2>1, <2>2, <2>4 DEF Ext, ExtSize
  <2>8. Join(Ext(k), full, <<r>>)
    BY <2>5, <2>6, <2>7, Joined
  <2>9. Ext(k)[q + 1] = r
    <3>1. 1 \in 1..1
      OBVIOUS
    <3> QED
      BY <2>5, <2>6, <2>8, <3>1 DEF Join
  <2>10. \A j \in 1..q : Ext(k)[j] = 255
    BY <2>5, <2>8 DEF Join
  <2>11. Ext(k) \in Seq(Octet) /\ Len(Ext(k)) = q + 1
    BY <2>5, <2>6, <2>8 DEF Join
  <2>14. ExtSize(k) = q + 1 /\ q + 1 \in Nat
    BY <2>3, <2>7
  <2>12. Ext(k)[q + 1] \in 0..254 /\ k = 15 + 255 * q + Ext(k)[q + 1]
    BY <2>3, <2>9
  <2> QED
    BY <2>3, <2>10, <2>11, <2>12, <2>14
<1> QED
  BY <1>1, <1>2

\* The bytes that continue a count.
LEMMA ExtTyped ==
  ASSUME NEW k \in Nat
  PROVE  Ext(k) \in Seq(Octet) /\ Len(Ext(k)) = ExtSize(k) /\ ExtSize(k) \in Nat
BY ExtBytes

\* The fields of a code, and its half of the token.
LEMMA NibRange ==
  ASSUME NEW c \in Code, c.len = 0 \/ c.len >= MIN_MATCH
  PROVE  /\ c.lits \in Seq(Octet) /\ Len(c.lits) \in Nat /\ c.len \in Nat
         /\ c.dist \in Nat /\ c.dist < 65536
         /\ c.len > 0 => /\ Nib(c.len) \in 0..15 /\ c.len - MIN_MATCH \in Nat
                         /\ Nib(c.len) = MIN(c.len - MIN_MATCH, 15)
<1>1. c.lits \in Seq(Byte) /\ c.len \in Nat /\ c.dist \in Nat /\ c.dist < 65536
  BY DEF Code, U16
<1>2. c.lits \in Seq(Octet) /\ Len(c.lits) \in Nat
  <2>1. Byte \subseteq Octet
    BY Constants DEF Octet
  <2>2. Seq(Byte) \subseteq Seq(Octet)
    BY <2>1
  <2>3. c.lits \in Seq(Octet)
    BY <1>1, <2>2
  <2> QED
    BY <2>3, LenProperties
<1>3. Nib(c.len) = MIN(c.len - MIN_MATCH, 15)
  BY DEF Nib
<1>4. ASSUME c.len > 0 PROVE Nib(c.len) \in 0..15 /\ c.len - MIN_MATCH \in Nat
  <2>1. c.len \in Nat /\ c.len >= 4
    BY <1>1, <1>4
  <2> QED
    BY ONLY <2>1, <1>3 DEF MIN, MIN_MATCH
<1> QED
  BY <1>1, <1>2, <1>3, <1>4

\* The parts of Encode(c), each at its place.
LEMMA EncodeBytes ==
  ASSUME NEW c \in Code, c.len = 0 \/ c.len >= MIN_MATCH,
         NEW run, run = Len(c.lits), NEW nib, nib = IF c.len = 0 THEN 0 ELSE Nib(c.len)
  PROVE  /\ Encode(c) \in Seq(Octet) /\ Len(Encode(c)) = CodeLen(c)
         /\ Encode(c)[1] = MIN(run, 15) * 16 + nib
         /\ \A j \in 1..ExtSize(run) : Encode(c)[1 + j] = Ext(run)[j]
         /\ \A j \in 1..run : Encode(c)[1 + ExtSize(run) + j] = c.lits[j]
         /\ c.len > 0 =>
              /\ Encode(c)[LitSize(run) + 1] = c.dist % 256
              /\ Encode(c)[LitSize(run) + 2] = (c.dist \div 256) % 256
              /\ \A j \in 1..ExtSize(c.len - MIN_MATCH) :
                   Encode(c)[LitSize(run) + 2 + j] = Ext(c.len - MIN_MATCH)[j]
<1>1. /\ c.lits \in Seq(Octet) /\ run \in Nat /\ c.len \in Nat /\ c.dist \in Nat
      /\ c.dist < 65536 /\ nib \in 0..15 /\ (c.len > 0 => c.len - MIN_MATCH \in Nat)
  BY NibRange
<1>2. PICK t : t = MIN(run, 15) * 16 + nib
  OBVIOUS
<1>3. t \in Octet
  <2>1. PICK a : a = MIN(run, 15)
    OBVIOUS
  <2>2. run \in Nat /\ nib \in 0..15
    BY <1>1
  <2>3. a \in 0..15
    BY ONLY <2>1, <2>2 DEF MIN
  <2>4. t = a * 16 + nib
    BY <1>2, <2>1
  <2> QED
    BY ONLY <2>2, <2>3, <2>4 DEF Octet
<1>4. <<t>> \in Seq(Octet) /\ Len(<<t>>) = 1 /\ <<t>>[1] = t
  BY <1>3, Single
<1>5. run \in Nat
  BY <1>1
<1>6. Ext(run) \in Seq(Octet) /\ Len(Ext(run)) = ExtSize(run) /\ ExtSize(run) \in Nat
  BY <1>5, ExtTyped
<1>7. PICK u : u = <<t>> \o Ext(run)
  OBVIOUS
<1>8. Join(u, <<t>>, Ext(run))
  BY <1>4, <1>6, <1>7, Joined
<1>9. /\ u \in Seq(Octet) /\ Len(u) = 1 + ExtSize(run) /\ u[1] = t
      /\ \A j \in 1..ExtSize(run) : u[1 + j] = Ext(run)[j]
  BY <1>4, <1>6, <1>8 DEF Join
<1>10. PICK v : v = u \o c.lits
  OBVIOUS
<1>11. Join(v, u, c.lits)
  BY <1>1, <1>9, <1>10, Joined
<1>12. /\ v \in Seq(Octet) /\ Len(v) = 1 + ExtSize(run) + run
       /\ \A j \in 1..(1 + ExtSize(run)) : v[j] = u[j]
       /\ \A j \in 1..run : v[1 + ExtSize(run) + j] = c.lits[j]
  BY <1>9, <1>11 DEF Join
<1>13. LitSize(run) = 1 + ExtSize(run) + run
  BY DEF LitSize
<1>14. Len(v) = LitSize(run) /\ LitSize(run) \in Nat /\ LitSize(run) >= 1
  BY <1>5, <1>6, <1>12, <1>13
<1>15. /\ v[1] = t
       /\ \A j \in 1..ExtSize(run) : v[1 + j] = Ext(run)[j]
  <2>1. v[1] = u[1]
    BY <1>6, <1>12
  <2>2. \A j \in 1..ExtSize(run) : 1 + j \in 1..(1 + ExtSize(run))
    BY <1>6
  <2> QED
    BY <1>9, <1>12, <2>1, <2>2
<1>16. CASE c.len = 0
  <2>1. Encode(c) = v \o <<>>
    BY <1>2, <1>7, <1>10, <1>16 DEF Encode
  <2>2. Encode(c) = v
    BY <1>12, <2>1
  <2>3. CodeLen(c) = LitSize(run)
    BY <1>14, <1>16 DEF CodeLen
  <2> QED
    BY <1>2, <1>12, <1>14, <1>15, <1>16, <2>2, <2>3
<1>17. CASE c.len > 0
  <2>1. PICK k : k = c.len - MIN_MATCH
    OBVIOUS
  <2>2. k \in Nat
    BY <1>1, <1>17, <2>1
  <2>3. PICK y : y = Ext(k)
    OBVIOUS
  <2>4. y \in Seq(Octet) /\ Len(y) = ExtSize(k) /\ ExtSize(k) \in Nat
    BY <2>2, <2>3, ExtTyped
  <2>5. PICK e : e = <<c.dist % 256, (c.dist \div 256) % 256>>
    OBVIOUS
  <2>6. c.dist % 256 \in Octet /\ (c.dist \div 256) % 256 \in Octet
    <3>1. PICK d : d = c.dist
      OBVIOUS
    <3>2. d \in Nat
      BY <1>1, <3>1
    <3>3. d % 256 \in 0..255 /\ d \div 256 \in Nat
      BY ONLY <3>2
    <3>4. PICK h : h = d \div 256
      OBVIOUS
    <3>5. h % 256 \in 0..255
      BY ONLY <3>3, <3>4
    <3> QED
      BY <3>1, <3>3, <3>4, <3>5 DEF Octet
  <2>7. /\ e \in Seq(Octet) /\ Len(e) = 2 /\ e[1] = c.dist % 256
        /\ e[2] = (c.dist \div 256) % 256
    BY <2>5, <2>6
  <2>8. PICK x : x = e \o y
    OBVIOUS
  <2>9. Join(x, e, y)
    BY <2>4, <2>7, <2>8, Joined
  <2>10. x \in Seq(Octet) /\ Len(x) = 2 + ExtSize(k)
    BY <2>4, <2>7, <2>9 DEF Join
  <2>11. x[1] = c.dist % 256 /\ x[2] = (c.dist \div 256) % 256
    <3>1. 1 \in 1..2 /\ 2 \in 1..2
      OBVIOUS
    <3> QED
      BY <2>7, <2>9, <3>1 DEF Join
  <2>12. \A j \in 1..ExtSize(k) : x[2 + j] = y[j]
    BY <2>4, <2>7, <2>9 DEF Join
  <2>13. PICK z : z = v \o x
    OBVIOUS
  <2>14. Encode(c) = z
    <3>1. (IF c.len = 0 THEN <<>>
           ELSE <<c.dist % 256, (c.dist \div 256) % 256>> \o Ext(c.len - MIN_MATCH)) = x
      BY <1>17, <1>1, <2>1, <2>3, <2>5, <2>8
    <3>2. v = <<MIN(Len(c.lits), 15) * 16 + IF c.len = 0 THEN 0 ELSE Nib(c.len)>>
                \o Ext(Len(c.lits)) \o c.lits
      BY <1>2, <1>7, <1>10
    <3> QED
      BY <2>13, <3>1, <3>2 DEF Encode
  <2>15. Join(z, v, x)
    BY <1>12, <2>10, <2>13, Joined
  <2>16. /\ z \in Seq(Octet) /\ Len(z) = LitSize(run) + (2 + ExtSize(k))
         /\ \A j \in 1..LitSize(run) : z[j] = v[j]
         /\ \A j \in 1..(2 + ExtSize(k)) : z[LitSize(run) + j] = x[j]
    BY <1>14, <2>10, <2>15 DEF Join
  <2>17. CodeLen(c) = LitSize(run) + (2 + ExtSize(k))
    BY <1>1, <1>14, <1>17, <2>1, <2>4 DEF CodeLen, MatchSize
  <2>18. z[1] = t
    BY <1>14, <1>15, <2>16
  <2>19. ASSUME NEW j \in 1..ExtSize(run) PROVE z[1 + j] = Ext(run)[j]
    <3>1. 1 + j \in 1..LitSize(run)
      BY <1>5, <1>6, <1>13
    <3> QED
      BY <1>15, <2>16, <3>1
  <2>20. ASSUME NEW j \in 1..run PROVE z[1 + ExtSize(run) + j] = c.lits[j]
    <3>1. 1 + ExtSize(run) + j \in 1..LitSize(run)
      BY <1>5, <1>6, <1>13
    <3> QED
      BY <1>12, <2>16, <3>1
  <2>21. z[LitSize(run) + 1] = c.dist % 256 /\ z[LitSize(run) + 2] = (c.dist \div 256) % 256
    <3>1. 1 \in 1..(2 + ExtSize(k)) /\ 2 \in 1..(2 + ExtSize(k))
      BY <2>4
    <3> QED
      BY <2>11, <2>16, <3>1
  <2>22. ASSUME NEW j \in 1..ExtSize(k) PROVE z[LitSize(run) + 2 + j] = y[j]
    <3>1. 2 + j \in 1..(2 + ExtSize(k)) /\ LitSize(run) + (2 + j) = LitSize(run) + 2 + j
      BY <1>14, <2>4
    <3>2. z[LitSize(run) + (2 + j)] = x[2 + j]
      BY <2>16, <3>1
    <3> QED
      BY <2>12, <3>1, <3>2
  <2>23. Encode(c) \in Seq(Octet) /\ Len(Encode(c)) = CodeLen(c)
    BY <2>14, <2>16, <2>17
  <2> QED
    BY <1>2, <2>1, <2>3, <2>14, <2>18, <2>19, <2>20, <2>21, <2>22, <2>23
<1> QED
  BY <1>1, <1>16, <1>17

\* Going back by one period.
LEMMA SameRemainder ==
  ASSUME NEW k \in Nat, k > 0, NEW i \in Nat, i >= k
  PROVE  (i - k) % k = i % k
<1>1. PICK q : q = i \div k
  OBVIOUS
<1>2. PICK r : r = i % k
  OBVIOUS
<1>3. i = k * q + r /\ r \in 0..(k - 1) /\ q \in Int
  BY <1>1, <1>2
<1>4. PICK a : a = (i - k) \div k
  OBVIOUS
<1>5. PICK b : b = (i - k) % k
  OBVIOUS
<1>6. i - k = k * a + b /\ b \in 0..(k - 1) /\ a \in Int
  BY <1>4, <1>5
<1>7. k * (q - a - 1) = b - r
  BY <1>3, <1>6
<1>8. PICK z \in Int : z = q - a - 1
  BY <1>3, <1>6
<1>9. k * z = b - r /\ b - r < k /\ b - r > -k
  BY <1>3, <1>6, <1>7, <1>8
<1>10. z = 0
  <2>1. z >= 1 => k * z >= k
    BY ONLY k \in Nat, z \in Int
  <2>2. z <= -1 => k * z <= -k
    BY ONLY k \in Nat, z \in Int
  <2> QED
    BY <1>3, <1>6, <1>9, <2>1, <2>2
<1> QED
  BY <1>2, <1>3, <1>5, <1>6, <1>9, <1>10

\* decompress reads back the count it continues.
LEMMA CountRead ==
  ASSUME NEW mem, NEW i \in Nat, NEW k \in Nat, k <= GBUF_SIZE,
         \A j \in 1..ExtSize(k) : mem[i + j - 1] = Ext(k)[j]
  PROVE  Extended(mem, i, MIN(k, 15)) = [value |-> k, end |-> i + ExtSize(k)]
<1>1. GBUF_SIZE \in Nat
  BY Constants DEF GBUF_SIZE, EXCESS
<1>2. CASE k < 15
  <2>1. MIN(k, 15) = k /\ MIN(k, 15) # 15 /\ ExtSize(k) = 0
    BY <1>2 DEF MIN, ExtSize
  <2>2. i + ExtSize(k) = i
    BY <2>1
  <2> QED
    BY <2>1, <2>2 DEF Extended
<1>3. CASE k >= 15
  <2>1. PICK q \in Nat : /\ q <= k /\ ExtSize(k) = q + 1
                         /\ \A j \in 1..q : Ext(k)[j] = 255
                         /\ Ext(k)[q + 1] \in 0..254
                         /\ k = 15 + 255 * q + Ext(k)[q + 1]
    BY <1>3, ExtBytes
  <2> DEFINE Stops(x) == mem[i + x] # 255 /\ \A j \in 0..(x - 1) : mem[i + j] = 255
  <2>2. \A j \in 0..q : mem[i + j] = Ext(k)[j + 1]
    <3> TAKE j \in 0..q
    <3>1. j + 1 \in 1..ExtSize(k) /\ i + (j + 1) - 1 = i + j
      BY <2>1
    <3> QED
      BY <3>1
  <2>3. mem[i + q] = Ext(k)[q + 1] /\ mem[i + q] \in 0..254
    BY <2>1, <2>2
  <2>4. \A j \in 0..(q - 1) : mem[i + j] = 255
    <3> TAKE j \in 0..(q - 1)
    <3>1. j \in 0..q /\ j + 1 \in 1..q
      BY <2>1
    <3> QED
      BY <2>1, <2>2, <3>1
  <2>5. Stops(q) /\ q \in 0..GBUF_SIZE
    BY <1>1, <2>1, <2>3, <2>4
  <2>6. \A x \in 0..GBUF_SIZE : Stops(x) => x = q
    <3> TAKE x \in 0..GBUF_SIZE
    <3>1. CASE x < q
      BY <2>4, <3>1
    <3>2. CASE x > q
      BY <2>3, <3>2
    <3> QED
      BY <1>1, <2>1, <3>1, <3>2
  <2> HIDE DEF Stops
  <2>7. (CHOOSE x \in 0..GBUF_SIZE : Stops(x)) = q
    BY <2>5, <2>6
  <2>8. MIN(k, 15) = 15
    BY <1>3 DEF MIN
  <2>9. Extended(mem, i, 15) = [value |-> 15 + 255 * q + mem[i + q], end |-> i + q + 1]
    BY <2>7 DEF Extended, Stops
  <2>10. i + q + 1 = i + ExtSize(k) /\ 15 + 255 * q + mem[i + q] = k
    BY <2>1, <2>3
  <2> QED
    BY <2>8, <2>9, <2>10
<1> QED
  BY <1>2, <1>3

\* The bytes a copy carries: byte i may have been written by the copy itself.
Carried(mem, d, from, size, step) ==
  CHOOSE byte : byte = [i \in 0..(size - 1) |->
    IF from + i >= d /\ from + i < d + step * (i \div step)
    THEN byte[from + i - d] ELSE mem[from + i]]

\* Copied, with the bytes it carries named.
LEMMA CopiedIs ==
  ASSUME NEW mem, NEW d, NEW from, NEW size, NEW step
  PROVE  Copied(mem, d, from, size, step) =
           [j \in 0..(MAX(GBUF_SIZE, d + size) - 1) |->
              IF d <= j /\ j < d + size
              THEN Carried(mem, d, from, size, step)[j - d] ELSE mem[j]]
BY DEF Copied, Carried

Plain(byte, mem, from, size) == \A i \in 0..(size - 1) : byte[i] = mem[from + i]

\* A copy from above reads nothing it has written.
LEMMA CopiedDown ==
  ASSUME NEW mem, NEW d \in Nat, NEW from \in Nat, NEW size \in Nat, NEW step \in {1, 4},
         from >= d
  PROVE  Plain(Carried(mem, d, from, size, step), mem, from, size)
<1> DEFINE f == [i \in 0..(size - 1) |-> mem[from + i]]
<1>1. ASSUME NEW i \in 0..(size - 1)
      PROVE  ~(from + i >= d /\ from + i < d + step * (i \div step))
  <2>1. CASE step = 1
    BY <2>1
  <2>2. CASE step = 4
    BY <2>2
  <2> QED
    BY <2>1, <2>2
<1>2. \A g : g = f <=> g = [i \in 0..(size - 1) |->
                IF from + i >= d /\ from + i < d + step * (i \div step)
                THEN g[from + i - d] ELSE mem[from + i]]
  BY <1>1
<1>3. Carried(mem, d, from, size, step) = f
  BY <1>2 DEF Carried
<1> QED
  BY <1>3 DEF Plain

Repeating(byte, mem, d, from, size) ==
  \A i \in 0..(size - 1) :
    byte[i] = IF from + i >= d THEN byte[from + i - d] ELSE mem[from + i]

\* A copy from below, the steps no longer than the distance, repeats the bytes
\* before it.
LEMMA CopiedUp ==
  ASSUME NEW mem, NEW d \in Nat, NEW from \in Nat, NEW size \in Nat, NEW step \in {1, 4},
         from + step <= d
  PROVE  Repeating(Carried(mem, d, from, size, step), mem, d, from, size)
<1> DEFINE byte == Carried(mem, d, from, size, step)
<1>1. PICK dst : dst = d - from
  OBVIOUS
<1>2. dst \in Nat /\ dst >= step /\ dst > 0
  BY <1>1
<1>3. ASSUME NEW i \in 0..(size - 1), from + i >= d
      PROVE  from + i < d + step * (i \div step) /\ from + i - d = i - dst /\ i - dst \in 0..(size - 1)
  <2>1. CASE step = 1
    BY <1>1, <1>2, <1>3, <2>1
  <2>2. CASE step = 4
    BY <1>1, <1>2, <1>3, <2>2
  <2> QED
    BY <2>1, <2>2
<1>4. PICK f : f = [i \in 0..(size - 1) |-> mem[from + (i % dst)]]
  OBVIOUS
<1>5. ASSUME NEW i \in 0..(size - 1)
      PROVE  f[i] = IF from + i >= d /\ from + i < d + step * (i \div step)
                    THEN f[from + i - d] ELSE mem[from + i]
  <2>1. f[i] = mem[from + (i % dst)]
    BY <1>4
  <2>2. CASE from + i >= d
    <3>1. /\ i - dst \in 0..(size - 1) /\ from + i - d = i - dst
          /\ from + i < d + step * (i \div step)
      BY <1>3, <2>2
    <3>2. i \in Nat /\ i >= dst
      BY <1>2, <3>1
    <3>3. (i - dst) % dst = i % dst
      BY <1>2, <3>2, SameRemainder
    <3>4. f[i - dst] = mem[from + ((i - dst) % dst)]
      BY <1>4, <3>1
    <3> QED
      BY <2>1, <2>2, <3>1, <3>3, <3>4
  <2>3. CASE from + i < d
    <3>1. i \in Nat /\ i < dst
      BY <1>1, <2>3
    <3>2. i % dst = i
      BY <1>2, <3>1
    <3> QED
      BY <2>1, <2>3, <3>2
  <2> QED
    BY <2>2, <2>3
<1> DEFINE Step(g) == [i \in 0..(size - 1) |->
                IF from + i >= d /\ from + i < d + step * (i \div step)
                THEN g[from + i - d] ELSE mem[from + i]]
<1>6. f = Step(f)
  BY <1>4, <1>5
<1>7. byte = CHOOSE g : g = Step(g)
  BY DEF Carried
<1> HIDE DEF Step, byte
<1>8. byte = Step(byte)
  BY <1>6, <1>7
<1>9. Repeating(byte, mem, d, from, size)
  BY <1>3, <1>8 DEF Step, Repeating
<1> QED
  BY <1>9 DEF byte

-----------------------------------------------------------------------------
(* What the two copies of decompress leave in its g_buf.                   *)

\* GBUF_SIZE has room for two blocks and what wild_copy writes past one.
LEMMA GbufRoom ==
  /\ BLOCK_SIZE \in Nat /\ BLOCK_SIZE > 0 /\ GBUF_SIZE \in Nat
  /\ BLOCK_SIZE + BLOCK_SIZE + 16 <= GBUF_SIZE
  /\ EXCESS \in Nat /\ GBUF_SIZE = BLOCK_SIZE + BLOCK_SIZE + EXCESS
<1>1. BLOCK_SIZE \in Nat /\ BLOCK_SIZE > 0
  BY Constants
<1>2. BLOCK_SIZE \div 255 \in Nat
  BY <1>1
<1> QED
  BY <1>1, <1>2 DEF GBUF_SIZE, EXCESS

\* new is mem with the first size bytes of byte at d.
Placed(new, mem, d, size, byte) ==
  /\ DOMAIN new = 0..(GBUF_SIZE - 1)
  /\ \A i \in 0..(size - 1) : new[d + i] = byte[i]
  /\ \A j \in 0..(GBUF_SIZE - 1) : j < d \/ j >= d + size => new[j] = mem[j]

\* A copy that ends inside g_buf changes only the bytes it is for.
LEMMA CopiedAt ==
  ASSUME NEW mem, NEW d \in Nat, NEW from \in Nat, NEW size \in Nat, NEW step,
         d + size <= GBUF_SIZE
  PROVE  Placed(Copied(mem, d, from, size, step), mem, d, size,
                Carried(mem, d, from, size, step))
<1>1. PICK new : new = Copied(mem, d, from, size, step)
  OBVIOUS
<1>2. GBUF_SIZE \in Nat
  BY GbufRoom
<1>3. MAX(GBUF_SIZE, d + size) = GBUF_SIZE
  BY <1>2 DEF MAX
<1>4. PICK byte : byte = Carried(mem, d, from, size, step)
  OBVIOUS
<1>5. new = [j \in 0..(GBUF_SIZE - 1) |->
               IF d <= j /\ j < d + size THEN byte[j - d] ELSE mem[j]]
  BY <1>1, <1>3, <1>4, CopiedIs
<1>6. ASSUME NEW i \in 0..(size - 1) PROVE new[d + i] = byte[i]
  <2>1. d + i \in 0..(GBUF_SIZE - 1) /\ d <= d + i /\ d + i < d + size /\ d + i - d = i
    BY <1>2
  <2> QED
    BY <1>5, <2>1
<1>7. Placed(new, mem, d, size, byte)
  BY <1>5, <1>6 DEF Placed
<1> QED
  BY <1>1, <1>4, <1>7

\* wild_copy writes at most seven bytes more than it is asked to.
LEMMA WildSizes ==
  ASSUME NEW k \in Nat, k > 0
  PROVE  /\ MAX(k, 1) = k /\ WildSize(k) \in Nat
         /\ k <= WildSize(k) /\ WildSize(k) <= k + 7
BY DEF WildSize, MAX

\* new is mem but for k bytes at d, and the seven after them.
Kept(new, mem, d, k) ==
  /\ DOMAIN new = 0..(GBUF_SIZE - 1)
  /\ \A j \in 0..(GBUF_SIZE - 1) : j < d \/ j >= d + k + 7 => new[j] = mem[j]

Moved(new, mem, d, from, k) == \A i \in 0..(k - 1) : new[d + i] = mem[from + i]

\* The run bytes that follow a token.
LEMMA LiteralsCopied ==
  ASSUME NEW mem, NEW d \in Nat, NEW from \in Nat, NEW run \in Nat, run > 0, from >= d,
         d + run <= BLOCK_SIZE, NEW new, new = wild_copy(mem, d, from, run)
  PROVE  Kept(new, mem, d, run) /\ Moved(new, mem, d, from, run)
<1>1. PICK size : size = WildSize(run)
  OBVIOUS
<1>2. size \in Nat /\ run <= size /\ size <= run + 7 /\ MAX(run, 1) = run
  BY <1>1, WildSizes
<1>3. new = Copied(mem, d, from, size, 4)
  BY <1>1, <1>2 DEF wild_copy
<1>4. d + size <= GBUF_SIZE /\ GBUF_SIZE \in Nat
  BY <1>2, GbufRoom
<1>5. PICK byte : byte = Carried(mem, d, from, size, 4)
  OBVIOUS
<1>6. \A i \in 0..(size - 1) : byte[i] = mem[from + i]
  <2>1. PICK step : step = 4
    OBVIOUS
  <2>2. step \in {1, 4} /\ byte = Carried(mem, d, from, size, step)
    BY <1>5, <2>1
  <2>3. Plain(byte, mem, from, size)
    BY <1>2, <2>2, CopiedDown
  <2> QED
    BY <2>3 DEF Plain
<1>7. /\ DOMAIN new = 0..(GBUF_SIZE - 1)
      /\ \A i \in 0..(size - 1) : new[d + i] = byte[i]
      /\ \A j \in 0..(GBUF_SIZE - 1) : j < d \/ j >= d + size => new[j] = mem[j]
  <2>1. Placed(new, mem, d, size, byte)
    BY <1>2, <1>3, <1>4, <1>5, CopiedAt
  <2> QED
    BY <2>1 DEF Placed
<1>8. ASSUME NEW i \in 0..(run - 1) PROVE new[d + i] = mem[from + i]
  <2>1. i \in 0..(size - 1)
    BY <1>2
  <2> QED
    BY <1>6, <1>7, <2>1
<1>9. ASSUME NEW j \in 0..(GBUF_SIZE - 1), j < d \/ j >= d + run + 7 PROVE new[j] = mem[j]
  <2>1. j < d \/ j >= d + size
    BY <1>2, <1>4, <1>9
  <2> QED
    BY <1>7, <2>1
<1> QED
  BY <1>7, <1>8, <1>9 DEF Kept, Moved

Repeated(new, d, dst, k) == \A i \in d..(d + k - 1) : new[i] = new[i - dst]

\* A match of len bytes, dst back.
LEMMA MatchCopied ==
  ASSUME NEW mem, NEW d \in Nat, NEW dst \in 1..d, NEW len \in Nat, len > 0,
         d + len <= BLOCK_SIZE,
         NEW new, new = IF dst >= 4 THEN wild_copy(mem, d, d - dst, len)
                        ELSE Copied(mem, d, d - dst, len, 1)
  PROVE  Kept(new, mem, d, len) /\ Repeated(new, d, dst, len)
<1>1. PICK from : from = d - dst
  OBVIOUS
<1>2. from \in Nat /\ from + dst = d
  BY <1>1
<1>3. PICK step : step = IF dst >= 4 THEN 4 ELSE 1
  OBVIOUS
<1>4. PICK size : size = IF dst >= 4 THEN WildSize(len) ELSE len
  OBVIOUS
<1>5. size \in Nat /\ len <= size /\ size <= len + 7 /\ MAX(len, 1) = len
  BY <1>4, WildSizes
<1>6. step \in {1, 4} /\ step <= dst
  BY <1>3
<1>7. new = Copied(mem, d, from, size, step)
  BY <1>1, <1>3, <1>4, <1>5 DEF wild_copy
<1>8. d + size <= GBUF_SIZE /\ GBUF_SIZE \in Nat
  BY <1>5, GbufRoom
<1>9. PICK byte : byte = Carried(mem, d, from, size, step)
  OBVIOUS
<1>10. from + step <= d
  BY <1>2, <1>6
<1>11. \A i \in 0..(size - 1) :
         byte[i] = IF from + i >= d THEN byte[from + i - d] ELSE mem[from + i]
  <2>1. Repeating(byte, mem, d, from, size)
    BY <1>2, <1>5, <1>6, <1>9, <1>10, CopiedUp
  <2> QED
    BY <2>1 DEF Repeating
<1>12. /\ DOMAIN new = 0..(GBUF_SIZE - 1)
       /\ \A i \in 0..(size - 1) : new[d + i] = byte[i]
       /\ \A j \in 0..(GBUF_SIZE - 1) : j < d \/ j >= d + size => new[j] = mem[j]
  <2>1. Placed(new, mem, d, size, byte)
    BY <1>2, <1>5, <1>7, <1>8, <1>9, CopiedAt
  <2> QED
    BY <2>1 DEF Placed
<1>13. ASSUME NEW i \in d..(d + len - 1) PROVE new[i] = new[i - dst]
  <2>1. PICK k : k = i - d
    OBVIOUS
  <2>2. k \in 0..(size - 1) /\ d + k = i /\ from + k = i - dst
    BY <1>2, <1>5, <2>1
  <2>3. new[i] = byte[k]
    BY <1>12, <2>2
  <2>4. CASE from + k >= d
    <3>1. from + k - d \in 0..(size - 1) /\ d + (from + k - d) = i - dst
      BY <1>2, <1>5, <2>2, <2>4
    <3>2. new[i - dst] = byte[from + k - d]
      BY <1>12, <3>1
    <3> QED
      BY <1>11, <2>2, <2>3, <2>4, <3>2
  <2>5. CASE from + k < d
    <3>1. i - dst \in 0..(GBUF_SIZE - 1) /\ i - dst < d
      BY <1>2, <1>5, <1>8, <2>2, <2>5
    <3>2. new[i - dst] = mem[i - dst]
      BY <1>12, <3>1
    <3>3. ~(from + k >= d)
      BY <1>2, <1>5, <2>2, <2>5
    <3> QED
      BY <1>11, <2>2, <2>3, <3>2, <3>3
  <2> QED
    BY <1>2, <1>5, <2>2, <2>4, <2>5
<1>14. ASSUME NEW j \in 0..(GBUF_SIZE - 1), j < d \/ j >= d + len + 7 PROVE new[j] = mem[j]
  <2>1. j < d \/ j >= d + size
    BY <1>5, <1>8, <1>14
  <2> QED
    BY <1>12, <2>1
<1> QED
  BY <1>12, <1>13, <1>14 DEF Kept, Repeated

\* What precedes a match, and the distance, decide all its bytes.
LEMMA Repeats ==
  ASSUME NEW b, NEW x, NEW a \in Nat, NEW t \in Nat, NEW dst \in 1..a,
         \A i \in 0..(a - 1) : x[i] = b[i],
         \A i \in a..(t - 1) : b[i] = b[i - dst],
         \A i \in a..(t - 1) : x[i] = x[i - dst]
  PROVE  \A i \in 0..(t - 1) : x[i] = b[i]
<1>1. PICK T : T = { i \in 0..(t - 1) : x[i] # b[i] }
  OBVIOUS
<1>2. T \in SUBSET Nat
  BY <1>1
<1>3. ASSUME T # {} PROVE FALSE
  <2>1. PICK i \in T : \A j \in T : i <= j
    BY <1>2, <1>3, Least
  <2>2. i \in 0..(t - 1) /\ x[i] # b[i]
    BY <1>1, <2>1
  <2>3. i >= a
    BY <2>2
  <2>4. i \in a..(t - 1) /\ i - dst \in 0..(t - 1) /\ i - dst < i
    BY <2>2, <2>3
  <2>5. i - dst \notin T
    BY <2>1, <2>4
  <2>6. x[i - dst] = b[i - dst]
    BY <1>1, <2>4, <2>5
  <2> QED
    BY <2>2, <2>4, <2>6
<1> QED
  BY <1>1, <1>3

-----------------------------------------------------------------------------
(* Decoding one code.                                                      *)

\* A block that has been handed over whole.
Received(b, k, cs, w, pos, off) ==
  /\ k \in Nat /\ k <= BLOCK_SIZE
  /\ cs \in Seq(Code) /\ w \in Seq(Octet) /\ Len(w) <= BLOCK_SIZE + EXCESS
  /\ Layout(b, k, cs, w, k, pos, off) /\ Ended(cs)

\* What a block that has been handed over says of its code i.
LEMMA CodeAt ==
  ASSUME NEW b, NEW k, NEW cs, NEW w, NEW pos, NEW off, Received(b, k, cs, w, pos, off),
         NEW i \in 1..Len(cs)
  PROVE  /\ cs[i] \in Code /\ (cs[i].len = 0 \/ cs[i].len >= MIN_MATCH)
         /\ pos[i] \in Nat /\ off[i] \in Nat /\ pos[i + 1] \in Nat /\ off[i + 1] \in Nat
         /\ Means(b, k, cs[i], pos[i], pos[i + 1])
         /\ off[i + 1] = off[i] + CodeLen(cs[i]) /\ off[i + 1] <= Len(w)
         /\ IF cs[i].len = 0 THEN i = Len(cs) /\ pos[i + 1] = k /\ off[i + 1] = Len(w)
            ELSE i + 1 \in 1..Len(cs)
<1>1. cs \in Seq(Code) /\ Layout(b, k, cs, w, k, pos, off) /\ Ended(cs)
  BY DEF Received
<1>2. cs[i] \in Code /\ Len(cs) \in Nat
  BY <1>1
<1>3. i \in 1..(Len(cs) + 1) /\ i + 1 \in 1..(Len(cs) + 1)
  BY <1>2
<1>4. pos[i] \in Nat /\ off[i] \in Nat /\ pos[i + 1] \in Nat /\ off[i + 1] \in Nat
  <2>1. pos \in [1..(Len(cs) + 1) -> Nat] /\ off \in [1..(Len(cs) + 1) -> Nat]
    BY <1>1 DEF Layout
  <2> QED
    BY <1>3, <2>1
<1>5. /\ Means(b, k, cs[i], pos[i], pos[i + 1])
      /\ off[i + 1] = off[i] + CodeLen(cs[i]) /\ off[i + 1] <= Len(w)
  BY <1>1 DEF Layout
<1>6. CASE i = Len(cs)
  <2>1. cs[i].len = 0
    BY <1>1, <1>6 DEF Ended
  <2>2. pos[i + 1] = k /\ off[i + 1] = Len(w)
    BY <1>1, <1>6 DEF Layout
  <2> QED
    BY <1>2, <1>4, <1>5, <1>6, <2>1, <2>2
<1>7. CASE i # Len(cs)
  <2>1. i \in 1..(Len(cs) - 1) /\ i + 1 \in 1..Len(cs)
    BY <1>2, <1>7
  <2>2. cs[i].len >= MIN_MATCH
    BY <1>1, <2>1 DEF Ended
  <2> QED
    BY <1>2, <1>4, <1>5, <2>1, <2>2
<1> QED
  BY <1>6, <1>7

\* How far the parts of a code reach.
LEMMA CodeParts ==
  ASSUME NEW c \in Code, c.len = 0 \/ c.len >= MIN_MATCH, NEW run, run = Len(c.lits)
  PROVE  /\ run \in Nat /\ c.len \in Nat /\ ExtSize(run) \in Nat
         /\ LitSize(run) \in Nat /\ LitSize(run) = 1 + ExtSize(run) + run
         /\ CodeLen(c) \in Nat /\ CodeLen(c) >= LitSize(run)
         /\ IF c.len = 0 THEN CodeLen(c) = LitSize(run)
            ELSE /\ c.len - MIN_MATCH \in Nat /\ ExtSize(c.len - MIN_MATCH) \in Nat
                 /\ CodeLen(c) = LitSize(run) + 2 + ExtSize(c.len - MIN_MATCH)
<1>1. run \in Nat /\ c.len \in Nat /\ (c.len > 0 => c.len - MIN_MATCH \in Nat)
  BY NibRange
<1>2. ExtSize(run) \in Nat /\ LitSize(run) \in Nat /\ LitSize(run) = 1 + ExtSize(run) + run
  BY <1>1, LiteralsSize
<1>3. CASE c.len = 0
  BY <1>1, <1>2, <1>3 DEF CodeLen
<1>4. CASE c.len > 0
  <2>1. c.len - MIN_MATCH \in Nat
    BY <1>1, <1>4
  <2>2. ExtSize(c.len - MIN_MATCH) \in Nat
    BY <2>1, ExtTyped
  <2>3. CodeLen(c) = LitSize(run) + MatchSize(c.len)
    BY <1>1, <1>4 DEF CodeLen
  <2>4. PICK y : y = ExtSize(c.len - MIN_MATCH)
    OBVIOUS
  <2>5. PICK x : x = LitSize(run)
    OBVIOUS
  <2>6. MatchSize(c.len) = 2 + y /\ y \in Nat /\ x \in Nat
    BY <1>2, <2>2, <2>4, <2>5 DEF MatchSize
  <2>7. x + (2 + y) = x + 2 + y /\ x + (2 + y) \in Nat
    BY ONLY <2>6
  <2>10. x + (2 + y) >= x
    BY ONLY <2>6
  <2>8. CodeLen(c) \in Nat /\ CodeLen(c) = x + 2 + y /\ CodeLen(c) >= x
    BY <2>3, <2>5, <2>6, <2>7, <2>10
  <2>9. c.len # 0
    BY <1>1, <1>4
  <2> QED
    BY <1>1, <1>2, <2>1, <2>2, <2>4, <2>5, <2>8, <2>9
<1> QED
  BY <1>1, <1>3, <1>4

\* The bytes of code i that are still to be read.
LEMMA ByteHeld ==
  ASSUME NEW b, NEW k, NEW cs, NEW w, NEW pos, NEW off, Received(b, k, cs, w, pos, off),
         NEW i \in 1..Len(cs), NEW mem, NEW a, NEW o \in Nat, Holds(mem, b, w, a, o),
         NEW j \in 1..CodeLen(cs[i]), o < off[i] + j
  PROVE  mem[BLOCK_SIZE + off[i] + j - 1] = Encode(cs[i])[j]
<1>1. /\ off[i] \in Nat /\ off[i + 1] \in Nat
      /\ off[i + 1] = off[i] + CodeLen(cs[i]) /\ off[i + 1] <= Len(w)
  BY CodeAt
<1>2. BLOCK_SIZE \in Nat
  BY Constants
<1>3. w[off[i] + j] = Encode(cs[i])[j]
  <2>1. Layout(b, k, cs, w, k, pos, off)
    BY DEF Received
  <2> QED
    BY <2>1 DEF Layout
<1>4. Len(w) \in Nat
  <2>1. w \in Seq(Octet)
    BY DEF Received
  <2> QED
    BY <2>1, LenProperties
<1>5. off[i] + j \in (o + 1)..Len(w) /\ BLOCK_SIZE + (off[i] + j) - 1 = BLOCK_SIZE + off[i] + j - 1
  <2>1. PICK z : z = CodeLen(cs[i])
    OBVIOUS
  <2>2. PICK y : y = off[i]
    OBVIOUS
  <2>3. PICK x : x = Len(w)
    OBVIOUS
  <2>4. j \in 1..z /\ y \in Nat /\ y + z \in Nat /\ y + z <= x /\ x \in Nat /\ o < y + j
    BY <1>1, <1>4, <2>1, <2>2, <2>3
  <2>5. y + j \in (o + 1)..x /\ BLOCK_SIZE + (y + j) - 1 = BLOCK_SIZE + y + j - 1
    <3>1. j \in Nat /\ j <= z /\ z \in Nat
      <4>1. z \in Nat
        <5>1. cs[i] \in Code /\ (cs[i].len = 0 \/ cs[i].len >= MIN_MATCH)
          BY CodeAt
        <5>2. CodeLen(cs[i]) \in Nat
          BY <5>1, CodeParts
        <5> QED
          BY <2>1, <5>2
      <4> QED
        BY <2>4, <4>1
    <3> QED
      BY ONLY <1>2, <2>4, <3>1, o \in Nat
  <2> QED
    BY <2>2, <2>3, <2>5
<1>6. mem[BLOCK_SIZE + (off[i] + j) - 1] = w[off[i] + j]
  BY <1>5 DEF Holds
<1> QED
  BY <1>3, <1>5, <1>6

\* A token is two halves; below 16 it announces no literals.
LEMMA TokenSplits ==
  ASSUME NEW run \in Nat, NEW nib \in 0..15, NEW t, t = MIN(run, 15) * 16 + nib
  PROVE  t \div 16 = MIN(run, 15) /\ t % 16 = nib /\ (t < 16 <=> run = 0) /\ t \in Nat
<1>1. PICK a : a = MIN(run, 15)
  OBVIOUS
<1>2. a \in 0..15 /\ (a = 0 <=> run = 0)
  BY ONLY <1>1, run \in Nat DEF MIN
<1>3. t = a * 16 + nib
  BY <1>1
<1>4. t \div 16 = a /\ t % 16 = nib /\ (t < 16 <=> a = 0) /\ t \in Nat
  BY ONLY <1>2, <1>3, nib \in 0..15
<1> QED
  BY <1>1, <1>2, <1>4

\* Two bytes make up the distance.
LEMMA DistanceRead ==
  ASSUME NEW d \in Nat, d < 65536
  PROVE  (d % 256) + 256 * ((d \div 256) % 256) = d
OBVIOUS

\* The token of code i, and the count of its literals.
LEMMA TokenRead ==
  ASSUME NEW b, NEW k, NEW cs, NEW w, NEW pos, NEW off, Received(b, k, cs, w, pos, off),
         NEW i \in 1..Len(cs), NEW mem, Holds(mem, b, w, pos[i], off[i]),
         NEW from, from = BLOCK_SIZE + off[i], NEW run, run = Len(cs[i].lits)
  PROVE  /\ mem[from] \in Nat /\ (mem[from] < 16 <=> run = 0)
         /\ cs[i].len > 0 => mem[from] % 16 = Nib(cs[i].len)
         /\ Extended(mem, from + 1, mem[from] \div 16)
              = [value |-> run, end |-> from + 1 + ExtSize(run)]
<1>1. cs[i] \in Code /\ (cs[i].len = 0 \/ cs[i].len >= MIN_MATCH) /\ off[i] \in Nat
  BY CodeAt
<1>2. PICK c : c = cs[i]
  OBVIOUS
<1>3. c \in Code /\ (c.len = 0 \/ c.len >= MIN_MATCH) /\ run = Len(c.lits)
  BY <1>1, <1>2
<1>4. PICK nib : nib = IF c.len = 0 THEN 0 ELSE Nib(c.len)
  OBVIOUS
<1>5. nib \in 0..15 /\ c.len \in Nat
  BY <1>3, <1>4, NibRange
<1>6. /\ run \in Nat /\ ExtSize(run) \in Nat /\ CodeLen(c) \in Nat
      /\ CodeLen(c) >= 1 + ExtSize(run) + run
  <2>1. /\ CodeLen(c) >= LitSize(run) /\ LitSize(run) = 1 + ExtSize(run) + run
        /\ run \in Nat /\ ExtSize(run) \in Nat /\ CodeLen(c) \in Nat
    BY <1>3, CodeParts
  <2> QED
    BY <2>1
<1>7. /\ Encode(c)[1] = MIN(run, 15) * 16 + nib
      /\ \A j \in 1..ExtSize(run) : Encode(c)[1 + j] = Ext(run)[j]
  BY <1>3, <1>4, EncodeBytes
<1>8. BLOCK_SIZE \in Nat /\ from \in Nat /\ GBUF_SIZE \in Nat /\ BLOCK_SIZE <= GBUF_SIZE
  BY <1>1, GbufRoom
<1>9. mem[from] = MIN(run, 15) * 16 + nib
  <2>1. 1 \in 1..CodeLen(c) /\ off[i] < off[i] + 1
    BY <1>1, <1>6
  <2>2. mem[BLOCK_SIZE + off[i] + 1 - 1] = Encode(c)[1]
    BY <1>1, <1>2, <2>1, ByteHeld
  <2>3. BLOCK_SIZE + off[i] + 1 - 1 = from
    BY <1>1, <1>8
  <2> QED
    BY <1>7, <2>2, <2>3
<1>10. /\ mem[from] \div 16 = MIN(run, 15) /\ mem[from] % 16 = nib
       /\ (mem[from] < 16 <=> run = 0) /\ mem[from] \in Nat
  BY <1>5, <1>6, <1>9, TokenSplits
<1>11. ASSUME NEW j \in 1..ExtSize(run) PROVE mem[from + 1 + j - 1] = Ext(run)[j]
  <2>1. 1 + j \in 1..CodeLen(c) /\ off[i] < off[i] + (1 + j)
    BY <1>1, <1>6
  <2>2. mem[BLOCK_SIZE + off[i] + (1 + j) - 1] = Encode(c)[1 + j]
    BY <1>1, <1>2, <2>1, ByteHeld
  <2>3. BLOCK_SIZE + off[i] + (1 + j) - 1 = from + 1 + j - 1
    BY <1>1, <1>6, <1>8
  <2> QED
    BY <1>7, <2>2, <2>3
<1>12. run <= GBUF_SIZE
  <2>1. Means(b, k, c, pos[i], pos[i + 1]) /\ pos[i] \in Nat /\ k \in Nat /\ k <= BLOCK_SIZE
    BY <1>2, CodeAt DEF Received
  <2>2. PICK f : f = pos[i]
    OBVIOUS
  <2>3. PICK l : l = c.len
    OBVIOUS
  <2>4. f + run + l <= k /\ f \in Nat /\ l \in Nat
    BY <1>3, <1>5, <2>1, <2>2, <2>3 DEF Means
  <2> QED
    BY ONLY <1>6, <1>8, <2>1, <2>4
<1>13. from + 1 \in Nat
  BY <1>8
<1>14. Extended(mem, from + 1, MIN(run, 15))
         = [value |-> run, end |-> from + 1 + ExtSize(run)]
  BY <1>6, <1>11, <1>12, <1>13, CountRead
<1>15. c.len > 0 => mem[from] % 16 = Nib(c.len)
  BY <1>4, <1>5, <1>10
<1> QED
  BY <1>2, <1>10, <1>14, <1>15

\* The literals of code i are in the block, and its match is still to be read.
LiteralsIn(new, b, cs, w, pos, off, i, run) ==
  /\ DOMAIN new = 0..(GBUF_SIZE - 1)
  /\ \A x \in 0..(pos[i] + run - 1) : new[x] = b[x]
  /\ cs[i].len > 0 => Holds(new, b, w, pos[i] + run, off[i] + LitSize(run))

\* The literals of code i, copied: what wild_copy writes past them overwrites
\* nothing that is still to be read.
LEMMA LiteralsHeld ==
  ASSUME NEW b, NEW k, NEW cs, NEW w, NEW pos, NEW off, Received(b, k, cs, w, pos, off),
         NEW i \in 1..Len(cs), NEW mem, Holds(mem, b, w, pos[i], off[i]),
         NEW run, run = Len(cs[i].lits), run > 0,
         NEW new, new = wild_copy(mem, pos[i], BLOCK_SIZE + off[i] + 1 + ExtSize(run), run)
  PROVE  LiteralsIn(new, b, cs, w, pos, off, i, run)
<1>1. /\ cs[i] \in Code /\ (cs[i].len = 0 \/ cs[i].len >= MIN_MATCH)
      /\ off[i] \in Nat /\ pos[i] \in Nat
      /\ Means(b, k, cs[i], pos[i], pos[i + 1]) /\ k \in Nat /\ k <= BLOCK_SIZE
  BY CodeAt DEF Received
<1>2. PICK c : c = cs[i]
  OBVIOUS
<1>3. PICK d : d = pos[i]
  OBVIOUS
<1>4. PICK o : o = off[i]
  OBVIOUS
<1>5. PICK e : e = ExtSize(run)
  OBVIOUS
<1>6. /\ c \in Code /\ (c.len = 0 \/ c.len >= MIN_MATCH) /\ run = Len(c.lits)
      /\ o \in Nat /\ d \in Nat /\ Means(b, k, c, d, pos[i + 1])
  BY <1>1, <1>2, <1>3, <1>4
<1>7. /\ run \in Nat /\ e \in Nat /\ c.len \in Nat /\ CodeLen(c) \in Nat
      /\ LitSize(run) = 1 + e + run /\ LitSize(run) \in Nat /\ CodeLen(c) >= 1 + e + run
  <2>1. /\ CodeLen(c) >= LitSize(run) /\ LitSize(run) = 1 + ExtSize(run) + run
        /\ run \in Nat /\ ExtSize(run) \in Nat /\ CodeLen(c) \in Nat /\ c.len \in Nat
        /\ LitSize(run) \in Nat
    BY <1>6, CodeParts
  <2> QED
    BY <1>5, <2>1
<1>8. /\ d + run + c.len <= k
      /\ \A j \in 1..run : c.lits[j] = b[d + j - 1]
      /\ c.len > 0 => d + run + 12 <= k
  BY <1>6 DEF Means
<1>9. /\ BLOCK_SIZE \in Nat /\ GBUF_SIZE \in Nat /\ EXCESS \in Nat
      /\ GBUF_SIZE = BLOCK_SIZE + BLOCK_SIZE + EXCESS
  BY GbufRoom
<1>10. PICK from : from = BLOCK_SIZE + o + 1 + e
  OBVIOUS
<1>11. from \in Nat /\ from >= d /\ d + run <= BLOCK_SIZE
  BY <1>1, <1>6, <1>7, <1>8, <1>9, <1>10
<1>12. new = wild_copy(mem, d, from, run)
  BY <1>3, <1>4, <1>5, <1>10
<1>13. Kept(new, mem, d, run) /\ Moved(new, mem, d, from, run)
  BY <1>6, <1>7, <1>11, <1>12, LiteralsCopied
<1>14. \A x \in 0..(run - 1) : new[d + x] = mem[from + x]
  BY <1>13 DEF Moved
<1>15. \A j \in 0..(GBUF_SIZE - 1) : j < d \/ j >= d + run + 7 => new[j] = mem[j]
  BY <1>13 DEF Kept
<1>16. ASSUME NEW x \in 0..(run - 1) PROVE mem[from + x] = b[d + x]
  <2>1. PICK j : j = 1 + e + (x + 1)
    OBVIOUS
  <2>2. j \in 1..CodeLen(c) /\ o < o + j
    <3>1. PICK z : z = CodeLen(c)
      OBVIOUS
    <3>2. z \in Nat /\ z >= 1 + e + run
      BY <1>7, <3>1
    <3>3. o \in Nat /\ e \in Nat /\ run \in Nat /\ x \in 0..(run - 1)
      BY <1>6, <1>7
    <3>4. j \in 1..z /\ o < o + j
      BY ONLY <2>1, <3>2, <3>3
    <3> QED
      BY <3>1, <3>4
  <2>3. mem[BLOCK_SIZE + o + j - 1] = Encode(c)[j]
    BY <1>2, <1>4, <1>6, <2>2, ByteHeld
  <2>4. BLOCK_SIZE + o + j - 1 = from + x
    BY <1>6, <1>7, <1>9, <1>10, <2>1
  <2>5. Encode(c)[j] = c.lits[x + 1]
    <3>1. \A y \in 1..run : Encode(c)[1 + ExtSize(run) + y] = c.lits[y]
      BY <1>6, EncodeBytes
    <3>2. x + 1 \in 1..run
      BY <1>7
    <3> QED
      BY <1>5, <2>1, <3>1, <3>2
  <2>6. c.lits[x + 1] = b[d + x]
    <3>1. x + 1 \in 1..run /\ d + (x + 1) - 1 = d + x
      BY <1>6, <1>7
    <3> QED
      BY <1>8, <3>1
  <2> QED
    BY <2>3, <2>4, <2>5, <2>6
<1>17. ASSUME NEW x \in 0..(d + run - 1) PROVE new[x] = b[x]
  <2>1. CASE x < d
    <3>1. x \in 0..(d - 1) /\ x \in 0..(GBUF_SIZE - 1)
      BY <1>6, <1>7, <1>9, <1>11, <2>1
    <3>2. mem[x] = b[x]
      BY <1>3, <3>1 DEF Holds
    <3> QED
      BY <1>15, <2>1, <3>1, <3>2
  <2>2. CASE x >= d
    <3>1. x - d \in 0..(run - 1) /\ d + (x - d) = x
      BY <1>6, <1>7, <2>2
    <3> QED
      BY <1>14, <1>16, <3>1
  <2> QED
    BY <1>6, <2>1, <2>2
<1>18. ASSUME c.len > 0 PROVE Holds(new, b, w, d + run, o + LitSize(run))
  <2>1. ASSUME NEW j \in (o + LitSize(run) + 1)..Len(w)
        PROVE  new[BLOCK_SIZE + j - 1] = w[j]
    <3>1. Len(w) \in Nat /\ Len(w) <= BLOCK_SIZE + EXCESS
      <4>1. w \in Seq(Octet) /\ Len(w) <= BLOCK_SIZE + EXCESS
        BY DEF Received
      <4> QED
        BY <4>1, LenProperties
    <3>2. PICK z : z = Len(w)
      OBVIOUS
    <3>3. PICK q : q = LitSize(run)
      OBVIOUS
    <3>4. /\ j \in (o + q + 1)..z /\ z \in Nat /\ z <= BLOCK_SIZE + EXCESS /\ q \in Nat
          /\ o \in Nat
      BY <1>6, <1>7, <3>1, <3>2, <3>3
    <3>5. d + run + 12 <= k /\ k \in Nat /\ k <= BLOCK_SIZE /\ d \in Nat /\ run \in Nat
      BY <1>1, <1>6, <1>7, <1>8, <1>18
    <3>6. j \in (o + 1)..z
      BY ONLY <3>4
    <3>7. mem[BLOCK_SIZE + j - 1] = w[j]
      BY <1>4, <3>2, <3>6 DEF Holds
    <3>8. BLOCK_SIZE + j - 1 \in 0..(GBUF_SIZE - 1) /\ BLOCK_SIZE + j - 1 >= d + run + 7
      BY ONLY <1>9, <3>4, <3>5
    <3> QED
      BY <1>15, <3>7, <3>8
  <2>2. DOMAIN new = 0..(GBUF_SIZE - 1)
    BY <1>13 DEF Kept
  <2>3. \A x \in 0..(d + run - 1) : new[x] = b[x]
    BY <1>17
  <2>4. \A j \in (o + LitSize(run) + 1)..Len(w) : new[BLOCK_SIZE + j - 1] = w[j]
    BY <2>1
  <2>5. PICK a : a = d + run
    OBVIOUS
  <2>6. PICK u : u = o + LitSize(run)
    OBVIOUS
  <2>7. \A x \in 0..(a - 1) : new[x] = b[x]
    <3>1. a - 1 = d + run - 1
      BY ONLY <1>6, <1>7, <2>5
    <3> QED
      BY ONLY <2>3, <3>1
  <2>8. \A j \in (u + 1)..Len(w) : new[BLOCK_SIZE + j - 1] = w[j]
    BY <2>4, <2>6
  <2>9. Holds(new, b, w, a, u)
    BY ONLY <2>2, <2>7, <2>8 DEF Holds
  <2> QED
    BY <2>5, <2>6, <2>9
<1> QED
  BY <1>2, <1>3, <1>4, <1>13, <1>17, <1>18 DEF Kept, LiteralsIn

\* The distance and the count of code i are at from.
MatchAt(mem, from, cs, off, i) ==
  /\ mem[from] + 256 * mem[from + 1] = cs[i].dist
  /\ Extended(mem, from + 2, Nib(cs[i].len))
       = [value |-> cs[i].len - MIN_MATCH, end |-> BLOCK_SIZE + off[i + 1]]

\* decompress reads them.
LEMMA MatchRead ==
  ASSUME NEW b, NEW k, NEW cs, NEW w, NEW pos, NEW off, Received(b, k, cs, w, pos, off),
         NEW i \in 1..Len(cs), cs[i].len > 0, NEW run, run = Len(cs[i].lits), NEW mem, NEW a,
         Holds(mem, b, w, a, off[i] + LitSize(run)),
         NEW from, from = BLOCK_SIZE + off[i] + LitSize(run)
  PROVE  MatchAt(mem, from, cs, off, i)
<1>1. /\ cs[i] \in Code /\ (cs[i].len = 0 \/ cs[i].len >= MIN_MATCH)
      /\ off[i] \in Nat /\ pos[i] \in Nat /\ off[i + 1] = off[i] + CodeLen(cs[i])
      /\ Means(b, k, cs[i], pos[i], pos[i + 1]) /\ k \in Nat /\ k <= BLOCK_SIZE
  <2>1. k \in Nat /\ k <= BLOCK_SIZE
    BY DEF Received
  <2> QED
    BY <2>1, CodeAt
<1>2. PICK c : c = cs[i]
  OBVIOUS
<1>3. PICK o : o = off[i]
  OBVIOUS
<1>4. PICK m : m = c.len - MIN_MATCH
  OBVIOUS
<1>5. PICK q : q = LitSize(run)
  OBVIOUS
<1>6. /\ c \in Code /\ (c.len = 0 \/ c.len >= MIN_MATCH) /\ run = Len(c.lits) /\ c.len > 0
      /\ o \in Nat /\ off[i + 1] = o + CodeLen(c)
  BY <1>1, <1>2, <1>3
<1>7. /\ m \in Nat /\ ExtSize(m) \in Nat /\ q \in Nat /\ CodeLen(c) = q + 2 + ExtSize(m)
      /\ c.len \in Nat /\ run \in Nat
  <2>1. /\ run \in Nat /\ c.len \in Nat /\ LitSize(run) \in Nat
        /\ IF c.len = 0 THEN CodeLen(c) = LitSize(run)
            ELSE /\ c.len - MIN_MATCH \in Nat /\ ExtSize(c.len - MIN_MATCH) \in Nat
                 /\ CodeLen(c) = LitSize(run) + 2 + ExtSize(c.len - MIN_MATCH)
    BY <1>6, CodeParts
  <2>2. c.len # 0
    BY <1>6
  <2> QED
    BY <1>4, <1>5, <2>1, <2>2
<1>8. PICK e : e = ExtSize(m)
  OBVIOUS
<1>9. PICK nib : nib = IF c.len = 0 THEN 0 ELSE Nib(c.len)
  OBVIOUS
<1>10. /\ Encode(c)[q + 1] = c.dist % 256
       /\ Encode(c)[q + 2] = (c.dist \div 256) % 256
       /\ \A j \in 1..ExtSize(m) : Encode(c)[q + 2 + j] = Ext(m)[j]
  <2>1. /\ Encode(c)[LitSize(run) + 1] = c.dist % 256
        /\ Encode(c)[LitSize(run) + 2] = (c.dist \div 256) % 256
        /\ \A j \in 1..ExtSize(c.len - MIN_MATCH) :
             Encode(c)[LitSize(run) + 2 + j] = Ext(c.len - MIN_MATCH)[j]
    <3>1. c.len > 0 =>
            /\ Encode(c)[LitSize(run) + 1] = c.dist % 256
            /\ Encode(c)[LitSize(run) + 2] = (c.dist \div 256) % 256
            /\ \A j \in 1..ExtSize(c.len - MIN_MATCH) :
                 Encode(c)[LitSize(run) + 2 + j] = Ext(c.len - MIN_MATCH)[j]
      <4>1. c \in Code /\ (c.len = 0 \/ c.len >= MIN_MATCH) /\ run = Len(c.lits)
        BY <1>6
      <4> QED
        BY ONLY <4>1, <1>9, EncodeBytes
    <3> QED
      BY <1>6, <3>1
  <2> QED
    BY <1>4, <1>5, <2>1
<1>11. BLOCK_SIZE \in Nat /\ GBUF_SIZE \in Nat /\ BLOCK_SIZE <= GBUF_SIZE
  BY GbufRoom
<1>12. from = BLOCK_SIZE + o + q /\ from \in Nat
  <2>1. from = BLOCK_SIZE + o + q /\ o \in Nat /\ q \in Nat
    BY <1>3, <1>5, <1>6, <1>7
  <2> QED
    BY ONLY <1>11, <2>1
<1>13. ASSUME NEW j \in 1..(2 + e) PROVE mem[from + j - 1] = Encode(c)[q + j]
  <2>1. q + j \in 1..CodeLen(c) /\ o + q < o + (q + j) /\ o + q \in Nat
    <3>1. PICK z : z = CodeLen(c)
      OBVIOUS
    <3>2. z = q + 2 + e /\ q \in Nat /\ e \in Nat /\ o \in Nat
      BY <1>6, <1>7, <1>8, <3>1
    <3>3. q + j \in 1..z /\ o + q < o + (q + j) /\ o + q \in Nat
      BY ONLY <3>2, j \in 1..(2 + e)
    <3> QED
      BY <3>1, <3>3
  <2>2. Holds(mem, b, w, a, o + q)
    BY <1>3, <1>5
  <2>3. mem[BLOCK_SIZE + o + (q + j) - 1] = Encode(c)[q + j]
    BY <1>2, <1>3, <2>1, <2>2, ByteHeld
  <2>4. BLOCK_SIZE + o + (q + j) - 1 = from + j - 1
    <3>1. q \in Nat /\ e \in Nat /\ o \in Nat
      BY <1>6, <1>7, <1>8
    <3> QED
      BY ONLY <1>11, <1>12, <3>1, j \in 1..(2 + e)
  <2> QED
    BY <2>3, <2>4
<1>14. mem[from] + 256 * mem[from + 1] = c.dist
  <2>1. 1 \in 1..(2 + e) /\ 2 \in 1..(2 + e)
    BY <1>7, <1>8
  <2>2. from + 1 - 1 = from /\ from + 2 - 1 = from + 1
    BY <1>12
  <2>3. mem[from] = c.dist % 256 /\ mem[from + 1] = (c.dist \div 256) % 256
    BY <1>10, <1>13, <2>1, <2>2
  <2>4. c.dist \in Nat /\ c.dist < 65536
    BY <1>6, NibRange
  <2> QED
    BY <2>3, <2>4, DistanceRead
<1>15. ASSUME NEW j \in 1..ExtSize(m) PROVE mem[from + 2 + j - 1] = Ext(m)[j]
  <2>1. 2 + j \in 1..(2 + e) /\ from + (2 + j) - 1 = from + 2 + j - 1
    <3>1. j \in 1..e /\ e \in Nat
      BY <1>7, <1>8
    <3> QED
      BY ONLY <1>12, <3>1
  <2>2. mem[from + (2 + j) - 1] = Encode(c)[q + (2 + j)]
    BY <1>13, <2>1
  <2>3. q + (2 + j) = q + 2 + j
    BY <1>7
  <2> QED
    BY <1>10, <2>1, <2>2, <2>3
<1>16. m <= GBUF_SIZE
  <2>1. PICK f : f = pos[i]
    OBVIOUS
  <2>2. PICK l : l = c.len
    OBVIOUS
  <2>3. f + run + l <= k /\ f \in Nat /\ l \in Nat /\ run \in Nat /\ m = l - 4
    BY <1>1, <1>2, <1>4, <1>6, <1>7, <2>1, <2>2 DEF Means
  <2> QED
    BY ONLY <1>1, <1>11, <2>3
<1>17. Extended(mem, from + 2, MIN(m, 15)) = [value |-> m, end |-> from + 2 + ExtSize(m)]
  <2>1. from + 2 \in Nat
    BY <1>12
  <2>2. PICK x : x = from + 2
    OBVIOUS
  <2>3. x \in Nat /\ \A j \in 1..ExtSize(m) : mem[x + j - 1] = Ext(m)[j]
    BY <1>15, <2>1, <2>2
  <2>4. m \in Nat
    BY <1>7
  <2>5. Extended(mem, x, MIN(m, 15)) = [value |-> m, end |-> x + ExtSize(m)]
    BY <1>16, <2>3, <2>4, CountRead
  <2> QED
    BY <2>2, <2>5
<1>18. Nib(c.len) = MIN(m, 15)
  BY <1>4 DEF Nib
<1>19. from + 2 + ExtSize(m) = BLOCK_SIZE + off[i + 1]
  <2>1. PICK z : z = CodeLen(c)
    OBVIOUS
  <2>2. off[i + 1] = o + z /\ z = q + 2 + e /\ o \in Nat /\ q \in Nat /\ e \in Nat
    BY <1>6, <1>7, <1>8, <2>1
  <2>3. from + 2 + e = BLOCK_SIZE + (o + z)
    BY ONLY <1>11, <1>12, <2>2
  <2> QED
    BY <1>8, <2>2, <2>3
<1> QED
  BY <1>2, <1>4, <1>14, <1>17, <1>18, <1>19 DEF MatchAt

\* The match of code i, copied.
LEMMA MatchHeld ==
  ASSUME NEW b, NEW k, NEW cs, NEW w, NEW pos, NEW off, Received(b, k, cs, w, pos, off),
         NEW i \in 1..Len(cs), cs[i].len > 0, NEW run, run = Len(cs[i].lits), NEW mem, NEW d,
         d = pos[i] + run, Holds(mem, b, w, d, off[i] + LitSize(run)), NEW new,
         new = IF cs[i].dist >= 4 THEN wild_copy(mem, d, d - cs[i].dist, cs[i].len)
               ELSE Copied(mem, d, d - cs[i].dist, cs[i].len, 1)
  PROVE  Holds(new, b, w, pos[i + 1], off[i + 1])
<1>1. /\ cs[i] \in Code /\ (cs[i].len = 0 \/ cs[i].len >= MIN_MATCH)
      /\ off[i] \in Nat /\ pos[i] \in Nat /\ off[i + 1] = off[i] + CodeLen(cs[i])
      /\ Means(b, k, cs[i], pos[i], pos[i + 1]) /\ k \in Nat /\ k <= BLOCK_SIZE
  <2>1. k \in Nat /\ k <= BLOCK_SIZE
    BY DEF Received
  <2> QED
    BY <2>1, CodeAt
<1>2. PICK c : c = cs[i]
  OBVIOUS
<1>3. PICK dst : dst = c.dist
  OBVIOUS
<1>4. PICK len : len = c.len
  OBVIOUS
<1>5. PICK o : o = off[i]
  OBVIOUS
<1>6. PICK t : t = pos[i + 1]
  OBVIOUS
<1>7. PICK o2 : o2 = off[i + 1]
  OBVIOUS
<1>8. PICK q : q = LitSize(run)
  OBVIOUS
<1>9. c \in Code /\ (c.len = 0 \/ c.len >= MIN_MATCH) /\ run = Len(c.lits) /\ c.len > 0
  BY <1>1, <1>2
<1>10. /\ run \in Nat /\ len \in Nat /\ q \in Nat /\ q >= 1 /\ CodeLen(c) \in Nat
       /\ CodeLen(c) >= q + 2
  <2>1. /\ run \in Nat /\ c.len \in Nat /\ LitSize(run) \in Nat /\ ExtSize(run) \in Nat
        /\ LitSize(run) = 1 + ExtSize(run) + run /\ CodeLen(c) \in Nat
        /\ IF c.len = 0 THEN CodeLen(c) = LitSize(run)
            ELSE /\ c.len - MIN_MATCH \in Nat /\ ExtSize(c.len - MIN_MATCH) \in Nat
                 /\ CodeLen(c) = LitSize(run) + 2 + ExtSize(c.len - MIN_MATCH)
    BY <1>9, CodeParts
  <2>2. PICK y : y = ExtSize(c.len - MIN_MATCH)
    OBVIOUS
  <2>3. PICK x : x = ExtSize(run)
    OBVIOUS
  <2>4. PICK z : z = CodeLen(c)
    OBVIOUS
  <2>5. /\ y \in Nat /\ z = q + 2 + y /\ q \in Nat /\ q = 1 + x + run /\ x \in Nat
        /\ run \in Nat /\ z \in Nat
    BY <1>8, <1>9, <2>1, <2>2, <2>3, <2>4
  <2>6. z >= q + 2 /\ q >= 1
    BY ONLY <2>5
  <2> QED
    BY <1>4, <2>1, <2>4, <2>5, <2>6
<1>11. /\ o \in Nat /\ o2 \in Nat /\ o2 >= o + q + 2
  <2>1. PICK z : z = CodeLen(c)
    OBVIOUS
  <2>2. o2 = o + z /\ o \in Nat /\ z \in Nat /\ z >= q + 2 /\ q \in Nat
    BY <1>1, <1>2, <1>5, <1>7, <1>10, <2>1
  <2> QED
    BY ONLY <2>2
<1>12. /\ d \in Nat /\ len > 0 /\ t = d + len /\ t + 5 <= k /\ t \in Nat /\ dst \in 1..d
       /\ \A x \in d..(t - 1) : b[x] = b[x - dst]
  <2>1. d \in Nat /\ len > 0
    <3>1. PICK f : f = pos[i]
      OBVIOUS
    <3>2. f \in Nat /\ run \in Nat /\ d = f + run
      BY <1>1, <1>10, <3>1
    <3>3. d \in Nat
      BY ONLY <3>2
    <3> QED
      BY <1>4, <1>9, <3>3
  <2>2. /\ t = d + len /\ t + 5 <= k /\ dst \in 1..d
        /\ \A x \in d..(t - 1) : b[x] = b[x - dst]
    BY <1>1, <1>2, <1>3, <1>4, <1>6, <1>9 DEF Means
  <2> QED
    BY <1>10, <2>1, <2>2
<1>13. d + len <= BLOCK_SIZE /\ BLOCK_SIZE \in Nat
  BY ONLY <1>1, <1>10, <1>12, GbufRoom
<1>14. Kept(new, mem, d, len) /\ Repeated(new, d, dst, len)
  <2>1. new = IF dst >= 4 THEN wild_copy(mem, d, d - dst, len)
              ELSE Copied(mem, d, d - dst, len, 1)
    BY <1>2, <1>3, <1>4
  <2> QED
    BY <1>10, <1>12, <1>13, <2>1, MatchCopied
<1>15. /\ BLOCK_SIZE \in Nat /\ GBUF_SIZE \in Nat /\ EXCESS \in Nat
       /\ GBUF_SIZE = BLOCK_SIZE + BLOCK_SIZE + EXCESS
  BY GbufRoom
<1>16. \A x \in 0..(d - 1) : new[x] = b[x]
  <2> TAKE x \in 0..(d - 1)
  <2>1. x \in 0..(GBUF_SIZE - 1) /\ x < d
    BY ONLY <1>10, <1>12, <1>13, <1>15, x \in 0..(d - 1)
  <2>2. new[x] = mem[x]
    BY <1>14, <2>1 DEF Kept
  <2>3. mem[x] = b[x]
    BY DEF Holds
  <2> QED
    BY <2>2, <2>3
<1>17. \A x \in 0..(t - 1) : new[x] = b[x]
  <2>1. t - 1 = d + len - 1
    BY ONLY <1>10, <1>12
  <2>2. \A x \in d..(t - 1) : new[x] = new[x - dst]
    BY <1>14, <2>1 DEF Repeated
  <2>3. d \in Nat /\ t \in Nat /\ dst \in 1..d
    BY <1>12
  <2>4. \A x \in d..(t - 1) : b[x] = b[x - dst]
    BY <1>12
  <2> QED
    BY ONLY <1>16, <2>2, <2>3, <2>4, Repeats
<1>18. ASSUME NEW j \in (o2 + 1)..Len(w) PROVE new[BLOCK_SIZE + j - 1] = w[j]
  <2>1. Len(w) \in Nat /\ Len(w) <= BLOCK_SIZE + EXCESS
    <3>1. w \in Seq(Octet) /\ Len(w) <= BLOCK_SIZE + EXCESS
      BY DEF Received
    <3> QED
      BY <3>1, LenProperties
  <2>2. PICK z : z = Len(w)
    OBVIOUS
  <2>3. j \in (o2 + 1)..z /\ z \in Nat /\ z <= BLOCK_SIZE + EXCESS
    BY <2>1, <2>2
  <2>4. j \in (o + q + 1)..z
    BY ONLY <1>10, <1>11, <2>3
  <2>5. mem[BLOCK_SIZE + j - 1] = w[j]
    BY <1>5, <1>8, <2>2, <2>4 DEF Holds
  <2>6. BLOCK_SIZE + j - 1 \in 0..(GBUF_SIZE - 1) /\ BLOCK_SIZE + j - 1 >= d + len + 7
    BY ONLY <1>1, <1>10, <1>11, <1>12, <1>15, <2>3
  <2> QED
    BY <1>14, <2>5, <2>6 DEF Kept
<1>19. DOMAIN new = 0..(GBUF_SIZE - 1)
  BY <1>14 DEF Kept
<1>20. Holds(new, b, w, t, o2)
  BY ONLY <1>17, <1>18, <1>19 DEF Holds
<1> QED
  BY <1>6, <1>7, <1>20

-----------------------------------------------------------------------------
(* Laying out the codes while compress writes them.                        *)

\* A block without codes.
LEMMA LayoutOfNone ==
  ASSUME NEW b, NEW k
  PROVE  \E pos, off : Layout(b, k, <<>>, <<>>, 0, pos, off)
<1>1. PICK f : f = [i \in 1..1 |-> 0]
  OBVIOUS
<1>2. f \in [1..1 -> Nat] /\ f[1] = 0
  BY <1>1
<1>3. Len(<<>>) = 0 /\ 0 + 1 = 1 /\ 1..0 = {}
  OBVIOUS
<1>4. Layout(b, k, <<>>, <<>>, 0, f, f)
  BY <1>2, <1>3 DEF Layout
<1> QED
  BY <1>4

\* g is the function f on 1..(m + 1) and, at m + 2, v.
OneMore(g, f, m, v) ==
  /\ g \in [1..(m + 2) -> Nat] /\ g[m + 2] = v
  /\ \A i \in 1..(m + 1) : g[i] = f[i]

\* Such a g exists.
LEMMA Longer ==
  ASSUME NEW m \in Nat, NEW f \in [1..(m + 1) -> Nat], NEW v \in Nat
  PROVE  \E g : OneMore(g, f, m, v)
<1>1. PICK g : g = [i \in 1..(m + 2) |-> IF i = m + 2 THEN v ELSE f[i]]
  OBVIOUS
<1>2. ASSUME NEW i \in 1..(m + 2) PROVE g[i] \in Nat
  <2>1. i # m + 2 => i \in 1..(m + 1)
    OBVIOUS
  <2> QED
    BY <1>1, <2>1
<1>3. g \in [1..(m + 2) -> Nat]
  BY <1>1, <1>2
<1>4. \A i \in 1..(m + 1) : i \in 1..(m + 2) /\ i # m + 2
  OBVIOUS
<1>5. \A i \in 1..(m + 1) : g[i] = f[i]
  BY <1>1, <1>4
<1>6. g[m + 2] = v
  BY <1>1
<1> QED
  BY <1>3, <1>5, <1>6 DEF OneMore

\* A code that stands for the next part of the block goes after the others.
LEMMA LayoutGrows ==
  ASSUME NEW b, NEW k, NEW cs \in Seq(Code), NEW w \in Seq(Octet), NEW e \in Nat, NEW t \in Nat,
         NEW c \in Code, c.len = 0 \/ c.len >= MIN_MATCH, Means(b, k, c, e, t),
         NEW pos0, NEW off0, Layout(b, k, cs, w, e, pos0, off0)
  PROVE  \E pos, off : Layout(b, k, Append(cs, c), w \o Encode(c), t, pos, off)
<1>1. PICK m : m = Len(cs)
  OBVIOUS
<1>2. PICK v : v = w \o Encode(c)
  OBVIOUS
<1>3. PICK ds : ds = Append(cs, c)
  OBVIOUS
<1>4. PICK l : l = CodeLen(c)
  OBVIOUS
<1>5. PICK u : u = Len(w)
  OBVIOUS
<1>6. m \in Nat /\ u \in Nat /\ l \in Nat
  <2>1. CodeLen(c) \in Nat
    BY CodeParts
  <2> QED
    BY <1>1, <1>4, <1>5, <2>1, LenProperties
<1>7. Encode(c) \in Seq(Octet) /\ Len(Encode(c)) = l
  <2>1. PICK nib : nib = IF c.len = 0 THEN 0 ELSE Nib(c.len)
    OBVIOUS
  <2>2. PICK run : run = Len(c.lits)
    OBVIOUS
  <2> QED
    BY <1>4, <2>1, <2>2, EncodeBytes
<1>8. Join(v, w, Encode(c))
  BY <1>2, <1>7, Joined
<1>9. /\ Len(v) = u + l /\ v \in Seq(Octet)
      /\ \A j \in 1..u : v[j] = w[j]
      /\ \A j \in 1..l : v[u + j] = Encode(c)[j]
  BY <1>5, <1>7, <1>8 DEF Join
<1>10. Len(ds) = m + 1 /\ ds[m + 1] = c /\ \A i \in 1..m : ds[i] = cs[i]
  BY <1>1, <1>3, Appended
<1>11. /\ pos0 \in [1..(m + 1) -> Nat] /\ pos0[1] = 0 /\ pos0[m + 1] = e
       /\ off0 \in [1..(m + 1) -> Nat] /\ off0[1] = 0 /\ off0[m + 1] = u
  BY <1>1, <1>5 DEF Layout
<1>12. PICK pos : OneMore(pos, pos0, m, t)
  BY <1>6, <1>11, Longer
<1>13. /\ pos \in [1..(m + 2) -> Nat] /\ pos[m + 2] = t
       /\ \A i \in 1..(m + 1) : pos[i] = pos0[i]
  BY <1>12 DEF OneMore
<1>14. u + l \in Nat
  BY <1>6
<1>15. PICK ul : ul = u + l
  OBVIOUS
<1>16. PICK off : OneMore(off, off0, m, ul)
  BY <1>6, <1>11, <1>14, <1>15, Longer
<1>17. /\ off \in [1..(m + 2) -> Nat] /\ off[m + 2] = u + l
       /\ \A i \in 1..(m + 1) : off[i] = off0[i]
  BY <1>15, <1>16 DEF OneMore
<1>18. Len(ds) + 1 = m + 2 /\ 1 \in 1..(m + 1) /\ m + 1 \in 1..(m + 1) /\ m + 1 + 1 = m + 2
  BY <1>6, <1>10
<1>19. /\ pos[1] = 0 /\ pos[Len(ds) + 1] = t /\ pos[m + 1] = e
       /\ off[1] = 0 /\ off[Len(ds) + 1] = Len(v) /\ off[m + 1] = u
  BY <1>9, <1>11, <1>13, <1>17, <1>18
<1>20. ASSUME NEW i \in 1..Len(ds)
       PROVE  /\ Means(b, k, ds[i], pos[i], pos[i + 1])
              /\ off[i + 1] = off[i] + CodeLen(ds[i]) /\ off[i + 1] <= Len(v)
              /\ \A j \in 1..CodeLen(ds[i]) : v[off[i] + j] = Encode(ds[i])[j]
  <2>1. CASE i = m + 1
    <3>1. ds[i] = c /\ pos[i] = e /\ pos[i + 1] = t /\ off[i] = u /\ off[i + 1] = u + l
      BY <1>10, <1>13, <1>17, <1>18, <1>19, <2>1
    <3>2. off[i + 1] <= Len(v)
      BY <1>9, <1>14, <3>1
    <3> QED
      BY <1>4, <1>9, <3>1, <3>2
  <2>2. CASE i # m + 1
    <3>1. i \in 1..m /\ i \in 1..(m + 1) /\ i + 1 \in 1..(m + 1)
      BY <1>6, <1>10, <2>2
    <3>2. /\ ds[i] = cs[i] /\ pos[i] = pos0[i] /\ pos[i + 1] = pos0[i + 1]
          /\ off[i] = off0[i] /\ off[i + 1] = off0[i + 1]
      BY <1>10, <1>13, <1>17, <3>1
    <3>3. /\ Means(b, k, cs[i], pos0[i], pos0[i + 1])
          /\ off0[i + 1] = off0[i] + CodeLen(cs[i]) /\ off0[i + 1] <= u
          /\ \A j \in 1..CodeLen(cs[i]) : w[off0[i] + j] = Encode(cs[i])[j]
      BY <1>1, <1>5, <3>1 DEF Layout
    <3>4. PICK z : z = CodeLen(cs[i])
      OBVIOUS
    <3>5. PICK o : o = off0[i]
      OBVIOUS
    <3>6. o \in Nat /\ off0[i + 1] \in Nat
      BY <1>11, <3>1, <3>5
    <3>7. off0[i + 1] <= Len(v)
      BY <1>6, <1>9, <3>3, <3>6
    <3>8. \A j \in 1..z : v[o + j] = w[o + j]
      <4> TAKE j \in 1..z
      <4>1. z \in Nat
        <5>1. cs[i] \in Code /\ cs[i].len \in Nat
          <6>1. cs[i] \in Code
            BY <1>1, <3>1
          <6> QED
            BY <6>1 DEF Code
        <5>2. cs[i].len = 0 \/ cs[i].len >= MIN_MATCH
          BY <3>3, <5>1 DEF Means
        <5> QED
          BY <3>4, <5>1, <5>2, CodeParts
      <4>2. o + z <= u
        BY <3>3, <3>4, <3>5
      <4>3. o + j \in 1..u
        BY ONLY <1>6, <3>6, <4>1, <4>2, j \in 1..z
      <4> QED
        BY <1>9, <4>3
    <3>9. \A j \in 1..CodeLen(ds[i]) : v[off[i] + j] = Encode(ds[i])[j]
      BY <3>2, <3>3, <3>4, <3>5, <3>8
    <3> QED
      BY <3>2, <3>3, <3>7, <3>9
  <2> QED
    BY <2>1, <2>2
<1>21. Layout(b, k, ds, v, t, pos, off)
  <2>1. pos \in [1..(Len(ds) + 1) -> Nat] /\ off \in [1..(Len(ds) + 1) -> Nat]
    BY <1>13, <1>17, <1>18
  <2> QED
    BY <1>19, <1>20, <2>1 DEF Layout
<1> QED
  BY <1>2, <1>3, <1>21

-----------------------------------------------------------------------------
(* The steps of compress.                                                  *)

\* The block is a function on its positions.
LEMMA TextIs ==
  ASSUME TypeOK
  PROVE  /\ n \in Nat /\ n <= BLOCK_SIZE
         /\ \A i \in 0..(n - 1) : text[i] = g_buf(i)
BY Bounds DEF text

\* The block changes only when one is read.
LEMMA TextStays ==
  ASSUME UNCHANGED <<source, inputIndex, n>>
  PROVE  text' = text
BY BlockStays DEF text

\* Every code compress appends stands for the part of the block it should.
LEMMA NewCodeMeans ==
  ASSUME TypeOK, pp <= p, NEW d \in 0..(WINDOW_SIZE - 1), NEW len \in Nat,
         len = 0 => p = n /\ pp < p,
         len > 0 => len >= MIN_MATCH /\ p + 12 <= n /\ p + len + PADDING_LITERALS <= n
                    /\ d \in 1..p,
         \A j \in 0..(len - 1) : g_buf(p - d + j) = g_buf(p + j),
         NEW c, c = [lits |-> Literals, dist |-> d, len |-> len]
  PROVE  c \in Code /\ Means(text, n, c, pp, p + len) /\ CodeLen(c) \in Nat
         /\ CodeLen(c) = LitSize(p - pp) + (IF len = 0 THEN 0 ELSE MatchSize(len))
<1>1. /\ p \in Nat /\ pp \in Nat /\ n \in Nat /\ p <= n /\ p - pp \in Nat
  BY Bounds
<1>2. /\ Literals \in Seq(Byte) /\ Len(Literals) = p - pp
      /\ Literals = [i \in 1..(p - pp) |-> g_buf(pp + i - 1)]
  BY LiteralsAreBytes DEF Literals
<1>3. c.lits = Literals /\ c.dist = d /\ c.len = len
  OBVIOUS
<1>4. c \in Code
  <2>1. WINDOW_SIZE \in Nat /\ WINDOW_SIZE <= 65536
    BY Constants
  <2>2. d \in U16
    BY <2>1 DEF U16
  <2> QED
    BY <1>2, <2>2 DEF Code
<1>5. c.len = 0 \/ c.len >= MIN_MATCH
  BY <1>3
<1>6. CodeLen(c) \in Nat
  BY <1>4, <1>5, CodeParts
<1>7. CodeLen(c) = LitSize(p - pp) + (IF len = 0 THEN 0 ELSE MatchSize(len))
  BY <1>2, <1>3 DEF CodeLen
<1>8. PICK m : m = pp + Len(c.lits)
  OBVIOUS
<1>9. m = p /\ Len(c.lits) = p - pp
  BY <1>1, <1>2, <1>3, <1>8
<1>10. PICK t : t = p + len
  OBVIOUS
<1>11. t = m + c.len /\ t <= n
  BY <1>1, <1>3, <1>9, <1>10
<1>12. \A j \in 1..Len(c.lits) : c.lits[j] = text[pp + j - 1]
  <2> TAKE j \in 1..Len(c.lits)
  <2>1. j \in 1..(p - pp) /\ pp + j - 1 \in 0..(n - 1)
    BY <1>1, <1>9
  <2>2. text[pp + j - 1] = g_buf(pp + j - 1)
    BY <2>1, TextIs
  <2>3. c.lits[j] = g_buf(pp + j - 1)
    BY <1>2, <1>3, <2>1
  <2> QED
    BY <2>2, <2>3
<1>13. c.len = 0 => Len(c.lits) > 0
  BY <1>1, <1>3, <1>9
<1>14. ASSUME c.len > 0
       PROVE  /\ c.len >= MIN_MATCH /\ m + 12 <= n /\ t + PADDING_LITERALS <= n
              /\ c.dist \in 1..m
              /\ \A i \in m..(t - 1) : text[i] = text[i - c.dist]
  <2>1. len > 0 /\ len >= MIN_MATCH /\ p + 12 <= n /\ p + len + PADDING_LITERALS <= n /\ d \in 1..p
    BY <1>3, <1>14
  <2>2. ASSUME NEW i \in m..(t - 1) PROVE text[i] = text[i - d]
    <3>1. PICK j : j = i - p
      OBVIOUS
    <3>2. /\ j \in 0..(len - 1) /\ p + j = i /\ p - d + j = i - d
          /\ i \in 0..(n - 1) /\ i - d \in 0..(n - 1)
      BY <1>1, <1>9, <1>10, <2>1, <3>1
    <3>3. g_buf(i - d) = g_buf(i)
      BY <3>2
    <3> QED
      BY <3>2, <3>3, TextIs
  <2> QED
    BY <1>3, <1>9, <1>10, <2>1, <2>2
<1>15. Means(text, n, c, pp, t)
  BY <1>8, <1>11, <1>12, <1>13, <1>14 DEF Means
<1> QED
  BY <1>4, <1>6, <1>7, <1>10, <1>15

\* A code appended, while everything else of the block stays.
LEMMA CodecAppends ==
  ASSUME TypeOK, CodecInv, phase = "idle", InBlock, NEW c \in Code, NEW t \in Nat,
         Means(text, n, c, pp, t), CodeLen(c) \in Nat,
         codes' = Append(codes, c), comp' = Stored, op' = op + CodeLen(c),
         UNCHANGED <<source, inputIndex, n>>, UNCHANGED decoder,
         pc' \in {"insert", "write"}, Encoded' = t
  PROVE  CodecInv'
<1>1. codes \in Seq(Code) /\ op \in Nat /\ BLOCK_SIZE \in Nat /\ pp \in Nat
  BY Typed, Bounds DEF TypeOK
<1>2. /\ comp \in Seq(Octet) /\ Len(comp) = op - BLOCK_SIZE
      /\ g_out = SubSeq(source, 1, blockStart) /\ DOMAIN memory = 0..(GBUF_SIZE - 1)
  BY DEF CodecInv, InBlock
<1>3. PICK pos0, off0 : Layout(text, n, codes, comp, Encoded, pos0, off0)
  BY DEF CodecInv
<1>4. Encoded = pp
  BY DEF Encoded, InBlock
<1>5. c.len = 0 \/ c.len >= MIN_MATCH
  <2>1. c.len \in Nat
    BY DEF Code
  <2> QED
    BY <2>1 DEF Means
<1>6. PICK pos, off : Layout(text, n, Append(codes, c), comp \o Encode(c), t, pos, off)
  BY <1>1, <1>2, <1>3, <1>4, <1>5, LayoutGrows
<1>7. comp' = comp \o Encode(c)
  <2>1. /\ codes' # <<>> /\ Len(codes') = Len(codes) + 1 /\ codes'[Len(codes) + 1] = c
        /\ Len(codes) \in Nat
    BY <1>1, Appended
  <2>2. codes' # codes /\ codes'[Len(codes')] = c
    BY <2>1
  <2> QED
    BY <2>1, <2>2 DEF Stored
<1>8. Encode(c) \in Seq(Octet) /\ Len(Encode(c)) = CodeLen(c)
  <2>1. PICK nib : nib = IF c.len = 0 THEN 0 ELSE Nib(c.len)
    OBVIOUS
  <2>2. PICK run : run = Len(c.lits)
    OBVIOUS
  <2> QED
    BY <1>5, <2>1, <2>2, EncodeBytes
<1>9. comp' \in Seq(Octet) /\ Len(comp') = op' - BLOCK_SIZE
  <2>1. Join(comp', comp, Encode(c))
    BY <1>2, <1>7, <1>8, Joined
  <2>2. comp' \in Seq(Octet) /\ Len(comp') = Len(comp) + CodeLen(c)
    BY <1>8, <2>1 DEF Join
  <2>3. PICK x : x = CodeLen(c)
    OBVIOUS
  <2>4. PICK y : y = op'
    OBVIOUS
  <2>5. y = op + x /\ x \in Nat /\ Len(comp') = op - BLOCK_SIZE + x
    BY <1>2, <2>2, <2>3, <2>4
  <2>6. op - BLOCK_SIZE + x = y - BLOCK_SIZE
    BY ONLY <1>1, <2>5
  <2> QED
    BY <2>2, <2>4, <2>5, <2>6
<1>10. text' = text /\ blockStart' = blockStart
  BY TextStays, BlockStays
<1>11. Layout(text, n, codes, comp, Encoded, pos, off)'
  BY <1>6, <1>7, <1>10
<1>12. phase' = "idle" /\ g_out' = g_out /\ memory' = memory /\ source' = source
  BY DEF decoder
<1>13. Decoding(pos, off)'
  BY <1>12 DEF Decoding
<1>14. (\E f, g : Layout(text, n, codes, comp, Encoded, f, g) /\ Decoding(f, g))'
  BY <1>11, <1>13
<1>15. (g_out = SubSeq(source, 1, IF phase = "idle" /\ pc \in {"read", "done"}
                                  THEN inputIndex ELSE blockStart))'
  BY <1>2, <1>10, <1>12
<1> QED
  BY <1>2, <1>9, <1>12, <1>14, <1>15 DEF CodecInv

\* A step that leaves the block and its codes alone.
LEMMA CodecStays ==
  ASSUME CodecInv, phase = "idle", UNCHANGED <<source, inputIndex, n, pp, op, codes>>,
         comp' = comp, UNCHANGED decoder,
         \/ InBlock /\ InBlock'
         \/ pc \in {"read", "done"} /\ pc' \in {"read", "done"}
  PROVE  CodecInv'
<1>1. /\ comp \in Seq(Octet) /\ Len(comp) = op - BLOCK_SIZE /\ DOMAIN memory = 0..(GBUF_SIZE - 1)
      /\ g_out = SubSeq(source, 1, IF phase = "idle" /\ pc \in {"read", "done"}
                                   THEN inputIndex ELSE blockStart)
  BY DEF CodecInv
<1>2. text' = text /\ blockStart' = blockStart
  BY TextStays, BlockStays
<1>3. /\ phase' = "idle" /\ memory' = memory /\ g_out' = g_out
  BY DEF decoder
<1>4. Encoded' = Encoded
  BY DEF Encoded, InBlock
<1>5. PICK pos, off : Layout(text, n, codes, comp, Encoded, pos, off)
  BY DEF CodecInv
<1>6. Layout(text, n, codes, comp, Encoded, pos, off)'
  BY <1>2, <1>4, <1>5
<1>7. Decoding(pos, off)'
  BY <1>3 DEF Decoding
<1>8. (\E f, g : Layout(text, n, codes, comp, Encoded, f, g) /\ Decoding(f, g))'
  BY <1>6, <1>7
<1>9. (g_out = SubSeq(source, 1, IF phase = "idle" /\ pc \in {"read", "done"}
                                 THEN inputIndex ELSE blockStart))'
  BY <1>1, <1>2, <1>3 DEF InBlock
<1> QED
  BY <1>1, <1>3, <1>8, <1>9 DEF CodecInv

\* ReadBlock: no codes yet.
LEMMA CodecReadBlock ==
  ASSUME TypeOK, CodecInv, phase = "idle", ReadBlock, comp' = Stored, UNCHANGED decoder
  PROVE  CodecInv'
<1>1. /\ pc = "read" /\ pc' = "scan" /\ pp' = 0 /\ codes' = <<>> /\ op' = BLOCK_SIZE
      /\ n' = Available /\ inputIndex' = inputIndex + Available /\ source' = source
  BY DEF ReadBlock
<1>2. /\ g_out = SubSeq(source, 1, inputIndex) /\ DOMAIN memory = 0..(GBUF_SIZE - 1)
      /\ comp \in Seq(Octet)
  BY <1>1 DEF CodecInv
<1>3. comp' = <<>>
  <2>1. CASE codes' = codes
    <3>1. PICK pos, off : Layout(text, n, codes, comp, Encoded, pos, off)
      BY DEF CodecInv
    <3>2. Len(codes) = 0 /\ 0 + 1 = 1
      BY <1>1, <2>1
    <3>3. Len(comp) = 0
      BY <3>1, <3>2 DEF Layout
    <3>4. comp = <<>>
      BY <1>2, <3>3
    <3> QED
      BY <2>1, <3>4 DEF Stored
  <2>2. CASE codes' # codes
    BY <1>1, <2>2 DEF Stored
  <2> QED
    BY <2>1, <2>2
<1>4. inputIndex \in Nat /\ Available \in Nat /\ BLOCK_SIZE \in Nat
  <2>1. /\ Len(source) \in Nat /\ inputIndex \in Nat /\ inputIndex <= Len(source)
        /\ BLOCK_SIZE \in Nat
    BY FilesTyped
  <2> QED
    BY <2>1 DEF Available, MIN
<1>5. blockStart' = inputIndex
  <2>1. PICK a : a = Available
    OBVIOUS
  <2>2. blockStart' = inputIndex + a - a /\ a \in Nat
    BY <1>1, <1>4, <2>1 DEF blockStart
  <2>3. inputIndex + a - a = inputIndex
    BY ONLY <1>4, <2>2
  <2> QED
    BY <2>2, <2>3
<1>6. /\ phase' = "idle" /\ memory' = memory /\ g_out' = g_out
  BY DEF decoder
<1>7. (Encoded = 0)'
  BY <1>1 DEF Encoded
<1>8. PICK b : b = text'
  OBVIOUS
<1>9. PICK k : k = n'
  OBVIOUS
<1>10. PICK pos, off : Layout(b, k, <<>>, <<>>, 0, pos, off)
  BY LayoutOfNone
<1>11. Layout(text, n, codes, comp, Encoded, pos, off)'
  BY <1>1, <1>3, <1>7, <1>8, <1>9, <1>10
<1>12. Decoding(pos, off)'
  BY <1>6 DEF Decoding
<1>13. (\E f, g : Layout(text, n, codes, comp, Encoded, f, g) /\ Decoding(f, g))'
  BY <1>11, <1>12
<1>14. (g_out = SubSeq(source, 1, IF phase = "idle" /\ pc \in {"read", "done"}
                                  THEN inputIndex ELSE blockStart))'
  BY <1>1, <1>2, <1>5, <1>6
<1>15. comp' \in Seq(Octet) /\ Len(comp') = op' - BLOCK_SIZE
  <2>1. <<>> \in Seq(Octet) /\ Len(<<>>) = 0 /\ BLOCK_SIZE - BLOCK_SIZE = 0
    BY <1>4
  <2> QED
    BY <1>1, <1>3, <2>1
<1> QED
  BY <1>2, <1>6, <1>13, <1>14, <1>15 DEF CodecInv

\* EmitMatch: one more code, ending where the match does.
LEMMA CodecEmitMatch ==
  ASSUME Inv, CodecInv, phase = "idle", EmitMatch, comp' = Stored, UNCHANGED decoder
  PROVE  CodecInv'
<1>1. TypeOK /\ CursorsInOrder /\ MatchFound
  BY DEF Inv
<1>2. /\ pc = "emit" /\ best_len >= MIN_MATCH /\ pp' = p + best_len /\ pc' = "insert"
      /\ codes' = Append(codes, [lits |-> Literals, dist |-> dist, len |-> best_len])
      /\ op' = op + LitSize(p - pp) + MatchSize(best_len)
      /\ UNCHANGED <<files, n>>
  BY DEF EmitMatch
<1>3. /\ p \in Nat /\ n \in Nat /\ pp \in Nat /\ max_match = n - 5 - p /\ best_len \in Nat
      /\ limit \in Int /\ limit >= NIL /\ (Searchable <=> p + 12 <= n)
  BY <1>1, Bounds
<1>4. /\ best_len \in MIN_MATCH..max_match /\ dist \in 1..(p - limit - 1) /\ dist <= p
      /\ \A j \in 0..(best_len - 1) : g_buf(p - dist + j) = g_buf(p + j)
  BY <1>1, <1>2, <1>3 DEF MatchFound, Searching
<1>5. pp <= p /\ InBlock /\ p + 12 <= n
  <2>1. Searchable
    BY <1>1, <1>2, <1>3 DEF CursorsInOrder
  <2> QED
    BY <1>1, <1>2, <1>3, <2>1 DEF CursorsInOrder, Searching, InBlock
<1>6. dist \in 0..(WINDOW_SIZE - 1)
  BY <1>1 DEF TypeOK
<1>7. PICK c : c = [lits |-> Literals, dist |-> dist, len |-> best_len]
  OBVIOUS
<1>8. /\ best_len = 0 => p = n /\ pp < p
      /\ best_len > 0 => best_len >= MIN_MATCH /\ p + 12 <= n
                         /\ p + best_len + PADDING_LITERALS <= n /\ dist \in 1..p
  BY <1>2, <1>3, <1>4, <1>5
<1>9. /\ c \in Code /\ Means(text, n, c, pp, p + best_len) /\ CodeLen(c) \in Nat
      /\ CodeLen(c) = LitSize(p - pp) + (IF best_len = 0 THEN 0 ELSE MatchSize(best_len))
  BY <1>1, <1>3, <1>4, <1>5, <1>6, <1>7, <1>8, NewCodeMeans
<1>10. op' = op + CodeLen(c)
  <2>1. LitSize(p - pp) \in Nat /\ MatchSize(best_len) \in Nat /\ op \in Nat /\ best_len # 0
    <3>1. p - pp \in Nat
      BY <1>3, <1>5
    <3> QED
      BY <1>1, <1>2, <1>3, <3>1, SizesAreNat, Typed
  <2>2. CodeLen(c) = LitSize(p - pp) + MatchSize(best_len)
    BY <1>9, <2>1
  <2> QED
    BY <1>2, <2>1, <2>2
<1>11. PICK t : t = p + best_len
  OBVIOUS
<1>12. t \in Nat /\ (Encoded = t)'
  <2>1. (Encoded = pp)'
    BY <1>2 DEF Encoded
  <2> QED
    BY <1>2, <1>3, <1>11, <2>1
<1>13. codes' = Append(codes, c) /\ UNCHANGED <<source, inputIndex, n>>
  BY <1>2, <1>7 DEF files
<1>14. Means(text, n, c, pp, t) /\ c \in Code /\ CodeLen(c) \in Nat
  BY <1>9, <1>11
<1>15. pc' \in {"insert", "write"} /\ Encoded' = t
  BY <1>2, <1>12
<1> QED
  BY <1>1, <1>5, <1>10, <1>12, <1>13, <1>14, <1>15, CodecAppends

\* FlushLiterals: one more code, unless the block ends in a match.
LEMMA CodecFlush ==
  ASSUME Inv, CodecInv, phase = "idle", FlushLiterals, comp' = Stored, UNCHANGED decoder
  PROVE  CodecInv'
<1>1. TypeOK /\ CursorsInOrder
  BY DEF Inv
<1>2. pc = "scan" /\ p >= n /\ pc' = "write" /\ UNCHANGED <<files, n>> /\ InBlock
  BY DEF FlushLiterals, InBlock
<1>3. /\ p \in Nat /\ n \in Nat /\ pp \in Nat /\ p = n /\ pp <= p /\ n > 0
      /\ pp = 0 \/ pp <= n - 5
  BY <1>1, <1>2, Bounds DEF CursorsInOrder, InBlock
<1>4. pp < p
  BY <1>3
<1>5. PICK len : len = 0
  OBVIOUS
<1>6. PICK d : d = 0
  OBVIOUS
<1>7. PICK c : c = [lits |-> Literals, dist |-> d, len |-> len]
  OBVIOUS
<1>8. codes' = Append(codes, c) /\ op' = op + LitSize(p - pp)
  <2>1. pp # p
    BY <1>3, <1>4
  <2>2. /\ codes' = Append(codes, [lits |-> Literals, dist |-> 0, len |-> 0])
        /\ op' = op + LitSize(p - pp)
    BY <2>1 DEF FlushLiterals
  <2> QED
    BY <1>5, <1>6, <1>7, <2>2
<1>9. d \in 0..(WINDOW_SIZE - 1) /\ len \in Nat
  BY <1>1, <1>5, <1>6, Typed
<1>10. /\ c \in Code /\ Means(text, n, c, pp, p + len) /\ CodeLen(c) \in Nat
       /\ CodeLen(c) = LitSize(p - pp) + (IF len = 0 THEN 0 ELSE MatchSize(len))
  <2>1. /\ len = 0 => p = n /\ pp < p
        /\ len > 0 => len >= MIN_MATCH /\ p + 12 <= n /\ p + len + PADDING_LITERALS <= n
                      /\ d \in 1..p
        /\ \A j \in 0..(len - 1) : g_buf(p - d + j) = g_buf(p + j)
    BY <1>3, <1>4, <1>5
  <2> QED
    BY <1>1, <1>3, <1>7, <1>9, <2>1, NewCodeMeans
<1>11. op' = op + CodeLen(c)
  <2>1. LitSize(p - pp) \in Nat
    <3>1. p - pp \in Nat
      BY <1>3
    <3> QED
      BY <3>1, SizesAreNat
  <2>2. CodeLen(c) = LitSize(p - pp)
    BY <1>5, <1>10, <2>1
  <2> QED
    BY <1>8, <2>2
<1>12. p + len = n /\ (Encoded = n)' /\ n' = n
  BY <1>2, <1>3, <1>5 DEF Encoded
<1>13. UNCHANGED <<source, inputIndex, n>>
  BY <1>2 DEF files
<1>14. Means(text, n, c, pp, n) /\ c \in Code /\ CodeLen(c) \in Nat /\ n \in Nat
  BY <1>3, <1>10, <1>12
<1>15. pc' \in {"insert", "write"} /\ Encoded' = n
  BY <1>2, <1>12
<1> QED
  BY <1>1, <1>2, <1>8, <1>11, <1>13, <1>14, <1>15, CodecAppends

\* Every step of compress.
LEMMA CodecCompress ==
  ASSUME Inv, CodecInv, Compress
  PROVE  CodecInv'
<1>1. TypeOK /\ phase = "idle" /\ pc # "write" /\ Next /\ comp' = Stored /\ UNCHANGED decoder
  BY DEF Compress, Inv
<1>2. CASE ReadBlock
  BY <1>1, <1>2, CodecReadBlock
<1>3. CASE EmitMatch
  BY <1>1, <1>3, CodecEmitMatch
<1>4. CASE FlushLiterals
  BY <1>1, <1>4, CodecFlush
<1>5. CASE Finish
  <2>1. /\ UNCHANGED <<source, inputIndex, n, pp, op, codes>>
        /\ pc \in {"read", "done"} /\ pc' \in {"read", "done"}
    BY <1>5 DEF Finish, files, cursor
  <2>2. comp' = comp
    BY <1>1, <2>1 DEF Stored
  <2> QED
    BY <1>1, <2>1, <2>2, CodecStays
<1>6. CASE \/ BeginSearch \/ SkipSearch \/ Improve \/ PassOver \/ ChainEnds
           \/ InsertMatched \/ InsertLiteral
  <2>1. InBlock /\ InBlock' /\ UNCHANGED <<source, inputIndex, n, pp, op, codes>>
    BY <1>6 DEF BeginSearch, SkipSearch, Improve, PassOver, ChainEnds, EndSearch,
                NextCandidate, InsertMatched, InsertLiteral, InBlock, files, cursor
  <2>2. comp' = comp
    BY <1>1, <2>1 DEF Stored
  <2> QED
    BY <1>1, <2>1, <2>2, CodecStays
<1>7. ~WriteBlock
  BY <1>1 DEF WriteBlock
<1> QED
  BY <1>1, <1>2, <1>3, <1>4, <1>5, <1>6, <1>7 DEF Next

-----------------------------------------------------------------------------
(* The steps of decompress.                                                *)

\* A block whose codes have been written is ready to be decoded.
LEMMA HandedOver ==
  ASSUME TypeOK, NEW pos, NEW off, Layout(text, n, codes, comp, n, pos, off), Ended(codes),
         comp \in Seq(Octet), Len(comp) <= BLOCK_SIZE + EXCESS
  PROVE  Received(text, n, codes, comp, pos, off)
<1>1. n \in Nat /\ n <= BLOCK_SIZE /\ codes \in Seq(Code)
  BY Bounds DEF TypeOK
<1> QED
  BY <1>1 DEF Received

\* The codes of a block take at least two bytes.
LEMMA BlockBigEnough ==
  ASSUME NEW b, NEW k, NEW cs, NEW w, NEW pos, NEW off, Received(b, k, cs, w, pos, off)
  PROVE  Len(w) >= 2 /\ 1 \in 1..Len(cs)
<1>1. Ended(cs) /\ cs \in Seq(Code) /\ w \in Seq(Octet)
  BY DEF Received
<1>2. Len(cs) \in Nat /\ Len(cs) >= 1 /\ Len(w) \in Nat
  BY <1>1 DEF Ended
<1>3. PICK i \in 1..Len(cs) : i = Len(cs)
  BY <1>2
<1>4. PICK c : c = cs[i]
  OBVIOUS
<1>5. c.len = 0
  BY <1>1, <1>3, <1>4 DEF Ended
<1>6. /\ c \in Code /\ off[i] \in Nat /\ off[i + 1] = off[i] + CodeLen(c)
      /\ off[i + 1] <= Len(w) /\ Means(b, k, c, pos[i], pos[i + 1])
  BY <1>4, CodeAt
<1>7. PICK run : run = Len(c.lits)
  OBVIOUS
<1>8. run > 0
  BY <1>5, <1>6, <1>7 DEF Means
<1>9. /\ CodeLen(c) \in Nat /\ CodeLen(c) >= LitSize(run) /\ run \in Nat /\ ExtSize(run) \in Nat
      /\ LitSize(run) = 1 + ExtSize(run) + run /\ LitSize(run) \in Nat
  BY <1>5, <1>6, <1>7, CodeParts
<1>10. PICK z : z = CodeLen(c)
  OBVIOUS
<1>11. PICK o : o = off[i]
  OBVIOUS
<1>12. /\ o \in Nat /\ z \in Nat /\ o + z <= Len(w) /\ z >= 2
  BY <1>6, <1>8, <1>9, <1>10, <1>11
<1> QED
  BY ONLY <1>2, <1>12

\* What holds after o bytes holds after more.
LEMMA HoldsLess ==
  ASSUME NEW mem, NEW b, NEW w, NEW a, NEW o \in Nat, NEW o2 \in Nat, o <= o2,
         Holds(mem, b, w, a, o), Len(w) \in Nat
  PROVE  Holds(mem, b, w, a, o2)
<1>1. \A j \in (o2 + 1)..Len(w) : j \in (o + 1)..Len(w)
  OBVIOUS
<1> QED
  BY <1>1 DEF Holds

\* ReceiveBlock: the codes are in memory, and decompress is at the first.
LEMMA CodecReceive ==
  ASSUME Inv, OutputInv, EndsInLiterals, CodecInv, ReceiveBlock
  PROVE  CodecInv'
<1>1. /\ phase = "idle" /\ pc = "write" /\ pc' = "read" /\ comp' = comp /\ g_out' = g_out
      /\ UNCHANGED <<source, inputIndex, n, pp, op, codes>>
  BY DEF ReceiveBlock, WriteBlock, cursor
<1>2. TypeOK /\ n \in Nat /\ n <= BLOCK_SIZE /\ op \in Nat /\ BLOCK_SIZE \in Nat
  BY Bounds, Typed DEF Inv
<1>3. /\ comp \in Seq(Octet) /\ Len(comp) = op - BLOCK_SIZE /\ Len(comp) \in Nat
      /\ g_out = SubSeq(source, 1, blockStart) /\ DOMAIN memory = 0..(GBUF_SIZE - 1)
  BY <1>1, LenProperties DEF CodecInv
<1>4. Ended(codes)
  BY <1>1 DEF EndsInLiterals, Ended
<1>5. Len(comp) <= BLOCK_SIZE + EXCESS
  <2>1. op - BLOCK_SIZE <= Coded(n) + 2
    BY <1>1 DEF OutputInv
  <2>2. BLOCK_SIZE + Coded(n) + 16 <= GBUF_SIZE
    BY <1>2, Room
  <2>3. Coded(n) \in Nat
    BY <1>2, CodedAdds
  <2>4. EXCESS \in Nat /\ GBUF_SIZE = BLOCK_SIZE + BLOCK_SIZE + EXCESS
    BY GbufRoom
  <2> QED
    BY ONLY <1>2, <1>3, <2>1, <2>2, <2>3, <2>4
<1>6. PICK pos, off : Layout(text, n, codes, comp, n, pos, off)
  BY <1>1 DEF CodecInv, Encoded
<1>7. Received(text, n, codes, comp, pos, off)
  BY <1>2, <1>3, <1>4, <1>5, <1>6, HandedOver
<1>8. Len(comp) >= 2 /\ 1 \in 1..Len(codes)
  BY <1>7, BlockBigEnough
<1>9. /\ phase' = "token" /\ at' = 0 /\ ip' = BLOCK_SIZE
      /\ memory' = [i \in DOMAIN memory |->
           IF i \in BLOCK_SIZE..(BLOCK_SIZE + Len(comp) - 1)
           THEN comp[i - BLOCK_SIZE + 1] ELSE memory[i]]
  <2>1. ~(Len(comp) < 2 \/ Len(comp) > BLOCK_SIZE + EXCESS)
    <3>1. EXCESS \in Nat
      BY GbufRoom
    <3> QED
      BY ONLY <1>2, <1>3, <1>5, <1>8, <3>1
  <2> QED
    BY <2>1 DEF ReceiveBlock
<1>10. Holds(memory', text, comp, 0, 0)
  <2>1. ASSUME NEW j \in (0 + 1)..Len(comp) PROVE memory'[BLOCK_SIZE + j - 1] = comp[j]
    <3>1. EXCESS \in Nat /\ GBUF_SIZE = BLOCK_SIZE + BLOCK_SIZE + EXCESS
      BY GbufRoom
    <3>2. /\ BLOCK_SIZE + j - 1 \in 0..(GBUF_SIZE - 1)
          /\ BLOCK_SIZE + j - 1 \in BLOCK_SIZE..(BLOCK_SIZE + Len(comp) - 1)
          /\ BLOCK_SIZE + j - 1 - BLOCK_SIZE + 1 = j
      BY ONLY <1>2, <1>3, <1>5, <3>1, j \in (0 + 1)..Len(comp)
    <3>3. PICK z : z = BLOCK_SIZE + j - 1
      OBVIOUS
    <3>4. z \in DOMAIN memory /\ z \in BLOCK_SIZE..(BLOCK_SIZE + Len(comp) - 1)
          /\ z - BLOCK_SIZE + 1 = j
      <4>1. z \in DOMAIN memory
        BY <1>3, <3>2, <3>3
      <4>2. z \in BLOCK_SIZE..(BLOCK_SIZE + Len(comp) - 1)
        BY ONLY <3>2, <3>3
      <4>3. z - BLOCK_SIZE + 1 = j
        BY ONLY <1>2, <1>3, <3>3, j \in (0 + 1)..Len(comp)
      <4> QED
        BY ONLY <4>1, <4>2, <4>3
    <3>5. memory'[z] = comp[j]
      BY <1>9, <3>4
    <3> QED
      BY <3>3, <3>5
  <2>2. DOMAIN memory' = 0..(GBUF_SIZE - 1)
    BY <1>3, <1>9
  <2>3. \A i \in 0..(0 - 1) : memory'[i] = text[i]
    OBVIOUS
  <2> QED
    BY <2>1, <2>2, <2>3 DEF Holds
<1>11. text' = text /\ blockStart' = blockStart
  BY <1>1, TextStays, BlockStays
<1>12. Layout(text, n, codes, comp, Encoded, pos, off)'
  BY <1>1, <1>6, <1>11 DEF Encoded
<1>13. pos[1] = 0 /\ off[1] = 0
  BY <1>6 DEF Layout
<1>14. AtToken(pos, off, 1)'
  BY <1>1, <1>2, <1>9, <1>10, <1>11, <1>13 DEF AtToken
<1>15. Decoding(pos, off)'
  BY <1>1, <1>8, <1>9, <1>14 DEF Decoding
<1>16. (\E f, g : Layout(text, n, codes, comp, Encoded, f, g) /\ Decoding(f, g))'
  BY <1>12, <1>15
<1>17. DOMAIN memory' = 0..(GBUF_SIZE - 1)
  BY <1>10 DEF Holds
<1>18. (g_out = SubSeq(source, 1, IF phase = "idle" /\ pc \in {"read", "done"}
                                  THEN inputIndex ELSE blockStart))'
  BY <1>1, <1>3, <1>9, <1>11
<1>19. comp' \in Seq(Octet) /\ Len(comp') = op' - BLOCK_SIZE
       /\ Ended(codes') /\ Len(comp') <= BLOCK_SIZE + EXCESS
  BY <1>1, <1>3, <1>4, <1>5
<1>20. (Ended(codes))'
  BY <1>19
<1> QED
  BY <1>1, <1>9, <1>16, <1>17, <1>18, <1>19, <1>20 DEF CodecInv

\* What is common to the steps between the first and the last of a block.
LEMMA DecoderSteps ==
  ASSUME CodecInv, phase # "idle", UNCHANGED <<vars, comp, g_out>>,
         phase' \in {"token", "match", "write"}, DOMAIN memory' = 0..(GBUF_SIZE - 1),
         NEW pos, NEW off, Layout(text, n, codes, comp, Encoded, pos, off),
         Decoding(pos, off)',
         phase' = "write" => at' = n /\ \A i \in 0..(n - 1) : memory'[i] = text[i]
  PROVE  CodecInv'
<1>1. /\ comp \in Seq(Octet) /\ Len(comp) = op - BLOCK_SIZE
      /\ pc = "read" /\ Ended(codes) /\ Len(comp) <= BLOCK_SIZE + EXCESS
      /\ g_out = SubSeq(source, 1, blockStart)
  BY DEF CodecInv
<1>2. UNCHANGED <<pc, source, inputIndex, n, pp, op, codes>>
  BY DEF vars, files, cursor
<1>3. text' = text /\ blockStart' = blockStart
  BY <1>2, TextStays, BlockStays
<1>4. Encoded' = Encoded
  BY <1>2 DEF Encoded
<1>5. Layout(text, n, codes, comp, Encoded, pos, off)'
  BY <1>2, <1>3, <1>4
<1>6. (\E f, g : Layout(text, n, codes, comp, Encoded, f, g) /\ Decoding(f, g))'
  BY <1>5
<1>7. (g_out = SubSeq(source, 1, IF phase = "idle" /\ pc \in {"read", "done"}
                                 THEN inputIndex ELSE blockStart))'
  BY <1>1, <1>2, <1>3
<1>8. (comp \in Seq(Octet) /\ Len(comp) = op - BLOCK_SIZE /\ pc = "read" /\ Ended(codes)
       /\ Len(comp) <= BLOCK_SIZE + EXCESS)'
  BY <1>1, <1>2
<1>9. (phase = "write" => at = n /\ \A i \in 0..(n - 1) : memory[i] = text[i])'
  BY <1>2, <1>3
<1> QED
  BY <1>6, <1>7, <1>8, <1>9 DEF CodecInv

\* While decompress runs, its block has been handed over whole.
LEMMA CodecReceived ==
  ASSUME TypeOK, CodecInv, phase # "idle"
  PROVE  \E pos, off : /\ Layout(text, n, codes, comp, Encoded, pos, off)
                       /\ Decoding(pos, off) /\ Received(text, n, codes, comp, pos, off)
<1>1. /\ comp \in Seq(Octet) /\ Ended(codes) /\ Len(comp) <= BLOCK_SIZE + EXCESS
      /\ pc = "read"
  BY DEF CodecInv
<1>2. PICK pos, off : Layout(text, n, codes, comp, Encoded, pos, off) /\ Decoding(pos, off)
  BY DEF CodecInv
<1>3. Layout(text, n, codes, comp, n, pos, off)
  BY <1>1, <1>2 DEF Encoded
<1>4. Received(text, n, codes, comp, pos, off)
  BY <1>1, <1>3, HandedOver
<1> QED
  BY <1>2, <1>4

\* DecodeLiterals: from code i to its match, or to the end of the block.
LEMMA CodecLiterals ==
  ASSUME TypeOK, CodecInv, DecodeLiterals
  PROVE  CodecInv'
<1>1. phase = "token" /\ token' = memory[ip] /\ UNCHANGED <<vars, comp, g_out>>
  BY DEF DecodeLiterals
<1>2. PICK pos, off : /\ Layout(text, n, codes, comp, Encoded, pos, off)
                      /\ Decoding(pos, off) /\ Received(text, n, codes, comp, pos, off)
  BY <1>1, CodecReceived
<1>3. PICK i \in 1..Len(codes) : AtToken(pos, off, i)
  BY <1>1, <1>2 DEF Decoding
<1>4. PICK c : c = codes[i]
  OBVIOUS
<1>5. PICK run : run = Len(c.lits)
  OBVIOUS
<1>6. PICK o : o = off[i]
  OBVIOUS
<1>7. at = pos[i] /\ ip = BLOCK_SIZE + o /\ Holds(memory, text, comp, at, o)
  BY <1>3, <1>6 DEF AtToken
<1>8. /\ c \in Code /\ (c.len = 0 \/ c.len >= MIN_MATCH)
      /\ at \in Nat /\ o \in Nat /\ pos[i + 1] \in Nat /\ off[i + 1] \in Nat
      /\ Means(text, n, c, at, pos[i + 1])
      /\ off[i + 1] = o + CodeLen(c) /\ off[i + 1] <= Len(comp)
      /\ IF c.len = 0 THEN i = Len(codes) /\ pos[i + 1] = n /\ off[i + 1] = Len(comp)
         ELSE i + 1 \in 1..Len(codes)
  BY <1>2, <1>4, <1>6, <1>7, CodeAt
<1>9. /\ run \in Nat /\ c.len \in Nat /\ ExtSize(run) \in Nat /\ LitSize(run) \in Nat
      /\ LitSize(run) = 1 + ExtSize(run) + run
      /\ IF c.len = 0 THEN CodeLen(c) = LitSize(run)
         ELSE /\ c.len - MIN_MATCH \in Nat /\ ExtSize(c.len - MIN_MATCH) \in Nat
              /\ CodeLen(c) = LitSize(run) + 2 + ExtSize(c.len - MIN_MATCH)
  BY <1>5, <1>8, CodeParts
<1>10. /\ memory[ip] \in Nat /\ (memory[ip] < 16 <=> run = 0)
       /\ c.len > 0 => memory[ip] % 16 = Nib(c.len)
       /\ Extended(memory, ip + 1, memory[ip] \div 16)
            = [value |-> run, end |-> ip + 1 + ExtSize(run)]
  BY <1>2, <1>4, <1>5, <1>6, <1>7, TokenRead
<1>11. /\ BLOCK_SIZE \in Nat /\ n \in Nat /\ n <= BLOCK_SIZE /\ Len(comp) \in Nat
       /\ GBUF_SIZE \in Nat
  <2>1. comp \in Seq(Octet)
    BY DEF CodecInv
  <2> QED
    BY <2>1, Bounds, GbufRoom, LenProperties
<1>12. PICK q : q = LitSize(run)
  OBVIOUS
<1>13. q \in Nat /\ q = 1 + ExtSize(run) + run
  BY <1>9, <1>12
<1>14. /\ pos[i + 1] = at + run + c.len /\ pos[i + 1] <= n
       /\ c.len = 0 => run > 0
  BY <1>5, <1>8 DEF Means
<1>15. c.len = 0 => off[i + 1] = o + q
  BY <1>8, <1>9, <1>12
<1>16. c.len > 0 => o + q < Len(comp)
  <2> SUFFICES ASSUME c.len > 0 PROVE o + q < Len(comp)
    OBVIOUS
  <2>1. PICK y : y = ExtSize(c.len - MIN_MATCH)
    OBVIOUS
  <2>2. PICK z : z = CodeLen(c)
    OBVIOUS
  <2>3. c.len # 0
    BY <1>9
  <2>4. z = q + 2 + y /\ y \in Nat /\ o + z <= Len(comp)
    BY <1>8, <1>9, <1>12, <2>1, <2>2, <2>3
  <2>5. o \in Nat
    BY <1>8
  <2> QED
    BY ONLY <1>11, <1>13, <2>4, <2>5
<1>17. CASE memory[ip] < 16
  <2>1. run = 0 /\ c.len > 0
    <3>1. run = 0
      BY <1>10, <1>17
    <3>2. PICK l : l = c.len
      OBVIOUS
    <3>3. l \in Nat /\ (l = 0 => run > 0)
      BY <1>9, <1>14, <3>2
    <3>4. l > 0
      BY ONLY <3>1, <3>3
    <3> QED
      BY <3>1, <3>2, <3>4
  <2>2. phase' = "match" /\ ip' = ip + 1 /\ memory' = memory /\ at' = at
    BY <1>17 DEF DecodeLiterals
  <2>3. q = 1
    BY <1>13, <2>1 DEF ExtSize
  <2>4. Holds(memory, text, comp, at, o + q)
    <3>1. o + q \in Nat /\ o <= o + q /\ o \in Nat
      BY <1>8, <1>13
    <3> QED
      BY <1>7, <1>11, <3>1, HoldsLess
  <2>5. /\ codes' = codes /\ text' = text /\ comp' = comp
    BY <1>1, TextStays DEF vars, files, cursor
  <2>6. AtMatch(pos, off, i)'
    <3>1. at = pos[i] + run
      BY <1>7, <1>8, <2>1
    <3>2. ip + 1 = BLOCK_SIZE + off[i] + LitSize(run)
      BY <1>6, <1>7, <1>8, <1>11, <1>12, <2>3
    <3>3. Holds(memory, text, comp, at, off[i] + LitSize(run))
      BY <1>6, <1>12, <2>4
    <3>4. codes[i].len > 0 /\ token' % 16 = Nib(codes[i].len)
      BY <1>1, <1>4, <1>10, <2>1
    <3> QED
      BY <1>4, <1>5, <2>2, <2>5, <3>1, <3>2, <3>3, <3>4 DEF AtMatch
  <2>7. Decoding(pos, off)'
    BY <2>2, <2>5, <2>6 DEF Decoding
  <2>8. DOMAIN memory' = 0..(GBUF_SIZE - 1)
    BY <1>7, <2>2 DEF Holds
  <2>9. phase' \in {"token", "match", "write"} /\ phase' # "write"
    BY <2>2
  <2> QED
    BY <1>1, <1>2, <2>7, <2>8, <2>9, DecoderSteps
<1>18. CASE ~(memory[ip] < 16)
  <2>1. run > 0
    BY <1>9, <1>10, <1>18
  <2>2. PICK r : r = [value |-> run, end |-> ip + 1 + ExtSize(run)]
    OBVIOUS
  <2>3. r.value = run /\ r.end = ip + 1 + ExtSize(run)
    BY <2>2
  <2>4. ~(at + r.value > BLOCK_SIZE)
    <3>1. PICK l : l = c.len
      OBVIOUS
    <3>2. PICK t : t = pos[i + 1]
      OBVIOUS
    <3>3. /\ t = at + run + l /\ t <= n /\ l \in Nat /\ run \in Nat /\ at \in Nat
          /\ t \in Nat
      BY <1>8, <1>9, <1>14, <3>1, <3>2
    <3>4. ~(at + run > BLOCK_SIZE)
      BY ONLY <1>11, <3>3
    <3> QED
      BY <2>3, <3>4
  <2>5. /\ memory' = wild_copy(memory, at, r.end, r.value)
        /\ at' = at + r.value /\ ip' = r.end + r.value
        /\ phase' = IF r.end + r.value >= ip_end THEN "write" ELSE "match"
    BY <1>10, <1>18, <2>2, <2>4 DEF DecodeLiterals
  <2>6. r.end + r.value = BLOCK_SIZE + o + q
    <3>1. PICK e : e = ExtSize(run)
      OBVIOUS
    <3>2. /\ ip = BLOCK_SIZE + o /\ q = 1 + e + run /\ e \in Nat /\ run \in Nat
          /\ o \in Nat /\ q \in Nat
      BY <1>7, <1>8, <1>9, <1>13, <3>1
    <3>3. ip + 1 + e + run = BLOCK_SIZE + o + q
      BY ONLY <1>11, <3>2
    <3> QED
      BY <2>3, <3>1, <3>3
  <2>7. /\ memory' = wild_copy(memory, pos[i], BLOCK_SIZE + off[i] + 1 + ExtSize(run), run)
        /\ at' = at + run /\ ip' = BLOCK_SIZE + o + q
        /\ phase' = IF BLOCK_SIZE + o + q >= BLOCK_SIZE + Len(comp) THEN "write" ELSE "match"
    BY <1>6, <1>7, <2>3, <2>5, <2>6 DEF ip_end
  <2>8. PICK new : new = memory'
    OBVIOUS
  <2>9. LiteralsIn(new, text, codes, comp, pos, off, i, run)
    <3>1. Holds(memory, text, comp, pos[i], off[i])
      BY <1>6, <1>7
    <3>2. run = Len(codes[i].lits)
      BY <1>4, <1>5
    <3>3. new = wild_copy(memory, pos[i], BLOCK_SIZE + off[i] + 1 + ExtSize(run), run)
      BY <2>7, <2>8
    <3> QED
      BY <1>2, <2>1, <3>1, <3>2, <3>3, LiteralsHeld
  <2>10. codes' = codes /\ text' = text /\ comp' = comp
    BY <1>1, TextStays DEF vars, files, cursor
  <2>11. CASE c.len = 0
    <3>1. BLOCK_SIZE + o + q >= BLOCK_SIZE + Len(comp)
      BY <1>8, <1>11, <1>13, <1>15, <2>11
    <3>2. phase' = "write"
      BY <2>7, <3>1
    <3>3. at + run = n /\ at' = n
      <4>1. n = at + run + 0
        BY <1>8, <1>14, <2>11
      <4>2. at + run = n
        BY <1>8, <1>9, <4>1
      <4> QED
        BY <2>7, <4>2
    <3>4. \A x \in 0..(n - 1) : memory'[x] = text[x]
      <4>1. \A x \in 0..(pos[i] + run - 1) : new[x] = text[x]
        BY <2>9 DEF LiteralsIn
      <4>2. at + run - 1 = n - 1
        BY ONLY <1>8, <1>9, <1>11, <3>3
      <4>3. \A x \in 0..(at + run - 1) : new[x] = text[x]
        BY <1>7, <4>1
      <4>4. \A x \in 0..(n - 1) : new[x] = text[x]
        BY ONLY <4>2, <4>3
      <4> QED
        BY <2>8, <4>4
    <3>5. Decoding(pos, off)'
      BY <3>2 DEF Decoding
    <3>6. DOMAIN memory' = 0..(GBUF_SIZE - 1) /\ phase' \in {"token", "match", "write"}
      BY <2>8, <2>9, <3>2 DEF LiteralsIn
    <3> QED
      BY <1>1, <1>2, <3>3, <3>4, <3>5, <3>6, DecoderSteps
  <2>12. CASE c.len > 0
    <3>1. ~(BLOCK_SIZE + o + q >= BLOCK_SIZE + Len(comp))
      BY <1>8, <1>11, <1>13, <1>16, <2>12
    <3>2. phase' = "match"
      BY <2>7, <3>1
    <3>3. AtMatch(pos, off, i)'
      <4>1. Holds(new, text, comp, at + run, off[i] + LitSize(run))
        BY <1>4, <1>7, <2>9, <2>12 DEF LiteralsIn
      <4>2. codes[i].len > 0 /\ token' % 16 = Nib(codes[i].len)
        BY <1>1, <1>4, <1>10, <2>12
      <4>3. at' = pos[i] + run /\ ip' = BLOCK_SIZE + off[i] + LitSize(run)
        BY <1>6, <1>7, <1>12, <2>7
      <4>4. Holds(memory', text, comp, at', off[i] + LitSize(run))
        BY <2>7, <2>8, <4>1
      <4> QED
        BY <1>4, <1>5, <2>10, <4>2, <4>3, <4>4 DEF AtMatch
    <3>4. Decoding(pos, off)'
      BY <2>10, <3>2, <3>3 DEF Decoding
    <3>5. DOMAIN memory' = 0..(GBUF_SIZE - 1)
      BY <2>8, <2>9 DEF LiteralsIn
    <3>6. phase' \in {"token", "match", "write"} /\ phase' # "write"
      BY <3>2
    <3> QED
      BY <1>1, <1>2, <3>4, <3>5, <3>6, DecoderSteps
  <2> QED
    BY <1>9, <2>11, <2>12
<1> QED
  BY <1>17, <1>18

\* DecodeMatch: from the match of code i to the next code.
LEMMA CodecMatch ==
  ASSUME TypeOK, CodecInv, DecodeMatch
  PROVE  CodecInv'
<1>1. phase = "match" /\ UNCHANGED <<vars, comp, token, g_out>>
  BY DEF DecodeMatch
<1>2. PICK pos, off : /\ Layout(text, n, codes, comp, Encoded, pos, off)
                      /\ Decoding(pos, off) /\ Received(text, n, codes, comp, pos, off)
  BY <1>1, CodecReceived
<1>3. PICK i \in 1..Len(codes) : AtMatch(pos, off, i)
  BY <1>1, <1>2 DEF Decoding
<1>4. PICK c : c = codes[i]
  OBVIOUS
<1>5. PICK run : run = Len(c.lits)
  OBVIOUS
<1>6. /\ c.len > 0 /\ token % 16 = Nib(c.len)
      /\ at = pos[i] + run /\ ip = BLOCK_SIZE + off[i] + LitSize(run)
      /\ Holds(memory, text, comp, at, off[i] + LitSize(run))
  BY <1>3, <1>4, <1>5 DEF AtMatch
<1>7. /\ c \in Code /\ (c.len = 0 \/ c.len >= MIN_MATCH)
      /\ pos[i] \in Nat /\ pos[i + 1] \in Nat /\ off[i + 1] \in Nat
      /\ Means(text, n, c, pos[i], pos[i + 1])
      /\ IF c.len = 0 THEN i = Len(codes) /\ pos[i + 1] = n /\ off[i + 1] = Len(comp)
         ELSE i + 1 \in 1..Len(codes)
  BY <1>2, <1>4, CodeAt
<1>8. run \in Nat /\ c.len \in Nat
  BY <1>5, <1>7, NibRange
<1>9. i + 1 \in 1..Len(codes)
  BY <1>6, <1>7, <1>8
<1>10. /\ at \in Nat /\ pos[i + 1] = at + c.len /\ pos[i + 1] <= n /\ c.dist \in 1..at
       /\ n \in Nat /\ n <= BLOCK_SIZE /\ BLOCK_SIZE \in Nat
  <2>1. pos[i + 1] = at + c.len /\ pos[i + 1] <= n /\ c.dist \in 1..at
    BY <1>5, <1>6, <1>7 DEF Means
  <2>2. at \in Nat
    BY <1>6, <1>7, <1>8
  <2> QED
    BY <2>1, <2>2, Bounds, GbufRoom
<1>11. PICK r : r = [value |-> c.len - MIN_MATCH, end |-> BLOCK_SIZE + off[i + 1]]
  OBVIOUS
<1>12. r.value = c.len - MIN_MATCH /\ r.end = BLOCK_SIZE + off[i + 1]
  BY <1>11
<1>13. /\ memory[ip] + 256 * memory[ip + 1] = c.dist
       /\ Extended(memory, ip + 2, token % 16) = r
  <2>1. codes[i].len > 0 /\ run = Len(codes[i].lits)
    BY <1>4, <1>5, <1>6
  <2>2. MatchAt(memory, ip, codes, off, i)
    BY <1>2, <1>6, <2>1, MatchRead
  <2> QED
    BY <1>4, <1>6, <1>11, <2>2 DEF MatchAt
<1>14. r.value + MIN_MATCH = c.len
  BY <1>8, <1>12
<1>15. ~(at - c.dist < 0 \/ at + c.len > BLOCK_SIZE)
  BY <1>8, <1>10
<1>16. /\ memory' = IF c.dist >= 4 THEN wild_copy(memory, at, at - c.dist, c.len)
                    ELSE Copied(memory, at, at - c.dist, c.len, 1)
       /\ at' = at + c.len /\ ip' = r.end /\ phase' = "token"
  BY <1>13, <1>14, <1>15 DEF DecodeMatch
<1>17. PICK new : new = memory'
  OBVIOUS
<1>18. Holds(new, text, comp, pos[i + 1], off[i + 1])
  <2>1. codes[i].len > 0 /\ run = Len(codes[i].lits)
    BY <1>4, <1>5, <1>6
  <2>2. new = IF codes[i].dist >= 4
              THEN wild_copy(memory, at, at - codes[i].dist, codes[i].len)
              ELSE Copied(memory, at, at - codes[i].dist, codes[i].len, 1)
    BY <1>4, <1>16, <1>17
  <2> QED
    BY ONLY <1>2, i \in 1..Len(codes), <1>6, <2>1, <2>2, MatchHeld
<1>19. codes' = codes /\ text' = text /\ comp' = comp
  BY <1>1, TextStays DEF vars, files, cursor
<1>20. AtToken(pos, off, i + 1)'
  <2>1. at' = pos[i + 1] /\ ip' = BLOCK_SIZE + off[i + 1]
    BY <1>10, <1>12, <1>16
  <2>2. Holds(memory', text, comp, at', off[i + 1])
    BY <1>17, <1>18, <2>1
  <2> QED
    BY <1>19, <2>1, <2>2 DEF AtToken
<1>21. Decoding(pos, off)'
  BY <1>9, <1>16, <1>19, <1>20 DEF Decoding
<1>22. DOMAIN memory' = 0..(GBUF_SIZE - 1)
  BY <1>17, <1>18 DEF Holds
<1>23. phase' \in {"token", "match", "write"} /\ phase' # "write"
  BY <1>16
<1> QED
  BY <1>1, <1>2, <1>21, <1>22, <1>23, DecoderSteps

\* WriteDecoded: the block that has been decoded is the one that was read.
LEMMA CodecWrite ==
  ASSUME TypeOK, CodecInv, WriteDecoded
  PROVE  CodecInv'
<1>1. /\ phase = "write" /\ phase' = "idle" /\ memory' = memory
      /\ g_out' = g_out \o [i \in 1..at |-> memory[i - 1]]
      /\ UNCHANGED <<vars, comp>>
  BY DEF WriteDecoded
<1>2. /\ comp \in Seq(Octet) /\ Len(comp) = op - BLOCK_SIZE
      /\ pc = "read" /\ DOMAIN memory = 0..(GBUF_SIZE - 1)
      /\ g_out = SubSeq(source, 1, blockStart)
      /\ at = n /\ \A i \in 0..(n - 1) : memory[i] = text[i]
  BY <1>1 DEF CodecInv
<1>3. UNCHANGED <<pc, source, inputIndex, n, pp, op, codes>>
  BY <1>1 DEF vars, files, cursor
<1>4. text' = text /\ blockStart' = blockStart
  BY <1>3, TextStays, BlockStays
<1>5. /\ source \in Seq(Byte) /\ Len(source) \in Nat /\ blockStart \in Nat
      /\ blockStart + n = inputIndex /\ inputIndex <= Len(source) /\ inputIndex \in Nat
      /\ n \in Nat
  BY BlockTyped, Bounds
<1>6. PICK u : u = SubSeq(source, blockStart + 1, inputIndex)
  OBVIOUS
<1>7. u \in Seq(Byte) /\ Len(u) = n /\ \A i \in 1..n : u[i] = source[blockStart + i]
  <2>1. inputIndex - blockStart = n /\ blockStart <= inputIndex
    BY <1>5
  <2> QED
    BY <1>5, <1>6, <2>1, Part
<1>8. PICK v : v = [i \in 1..at |-> memory[i - 1]]
  OBVIOUS
<1>9. v = u
  <2>1. ASSUME NEW i \in 1..n PROVE memory[i - 1] = u[i]
    <3>1. i - 1 \in 0..(n - 1) /\ blockStart + (i - 1) + 1 = blockStart + i
      BY <1>5
    <3>2. memory[i - 1] = source[blockStart + (i - 1) + 1]
      BY <1>2, <3>1, TextIs DEF g_buf
    <3> QED
      BY <1>7, <3>1, <3>2
  <2>2. u = [i \in 1..n |-> u[i]]
    BY <1>5, <1>7
  <2> QED
    BY <1>2, <1>8, <2>1, <2>2
<1>10. g_out' = SubSeq(source, 1, inputIndex)
  <2>1. 1 \in 1..(Len(source) + 1) /\ blockStart \in (1 - 1)..Len(source)
        /\ inputIndex \in blockStart..Len(source)
    BY <1>5
  <2>2. SubSeq(source, 1, blockStart) \o SubSeq(source, blockStart + 1, inputIndex)
          = SubSeq(source, 1, inputIndex)
    BY <1>5, <2>1, ConcatAdjacentSubSeq
  <2> QED
    BY <1>1, <1>2, <1>6, <1>8, <1>9, <2>2
<1>11. PICK pos, off : Layout(text, n, codes, comp, Encoded, pos, off)
  BY DEF CodecInv
<1>12. Encoded' = Encoded
  BY <1>3 DEF Encoded
<1>13. Layout(text, n, codes, comp, Encoded, pos, off)'
  BY <1>1, <1>3, <1>4, <1>11, <1>12
<1>14. Decoding(pos, off)'
  BY <1>1 DEF Decoding
<1>15. (\E f, g : Layout(text, n, codes, comp, Encoded, f, g) /\ Decoding(f, g))'
  BY <1>13, <1>14
<1>16. (g_out = SubSeq(source, 1, IF phase = "idle" /\ pc \in {"read", "done"}
                                  THEN inputIndex ELSE blockStart))'
  BY <1>1, <1>2, <1>3, <1>10
<1> QED
  BY <1>1, <1>2, <1>3, <1>15, <1>16 DEF CodecInv

-----------------------------------------------------------------------------
\* CodecInv holds initially.
LEMMA CodecBegins == CodecInit => CodecInv
<1> SUFFICES ASSUME CodecInit PROVE CodecInv
  OBVIOUS
<1>1. /\ pc = "read" /\ n = 0 /\ inputIndex = 0 /\ op = BLOCK_SIZE /\ codes = <<>>
      /\ comp = <<>> /\ phase = "idle" /\ g_out = <<>>
      /\ memory = [i \in 0..(GBUF_SIZE - 1) |-> 0]
  BY DEF CodecInit, Init
<1>2. PICK pos, off : Layout(text, n, <<>>, <<>>, 0, pos, off)
  BY LayoutOfNone
<1>3. Layout(text, n, codes, comp, Encoded, pos, off)
  BY <1>1, <1>2 DEF Encoded
<1>4. Decoding(pos, off)
  BY <1>1 DEF Decoding
<1>5. comp \in Seq(Octet) /\ Len(comp) = op - BLOCK_SIZE
  <2>1. BLOCK_SIZE \in Nat
    BY Constants
  <2> QED
    BY <1>1, <2>1
<1>6. g_out = SubSeq(source, 1, inputIndex)
  BY <1>1, SubSeqEmpty
<1> QED
  BY <1>1, <1>3, <1>4, <1>5, <1>6 DEF CodecInv

\* Every step preserves CodecInv.
LEMMA CodecStep ==
  Inv /\ OutputInv /\ EndsInLiterals /\ CodecInv /\ [CodecNext]_codecVars => CodecInv'
<1> SUFFICES ASSUME Inv, OutputInv, EndsInLiterals, CodecInv, [CodecNext]_codecVars
             PROVE  CodecInv'
  OBVIOUS
<1>1. TypeOK
  BY DEF Inv
<1>2. CASE Compress
  BY <1>2, CodecCompress
<1>3. CASE ReceiveBlock
  BY <1>3, CodecReceive
<1>4. CASE DecodeLiterals
  BY <1>1, <1>4, CodecLiterals
<1>5. CASE DecodeMatch
  BY <1>1, <1>5, CodecMatch
<1>6. CASE WriteDecoded
  BY <1>1, <1>6, CodecWrite
<1>7. CASE UNCHANGED codecVars
  <2>1. UNCHANGED <<vars, comp, phase, memory, at, ip, token, g_out>>
    BY <1>7 DEF codecVars, decoder
  <2>2. UNCHANGED <<pc, source, inputIndex, n, pp, op, codes>>
    BY <2>1 DEF vars, files, cursor
  <2>3. text' = text /\ blockStart' = blockStart /\ Encoded' = Encoded
    BY <2>2, TextStays, BlockStays DEF Encoded
  <2>4. PICK pos, off : Layout(text, n, codes, comp, Encoded, pos, off) /\ Decoding(pos, off)
    BY DEF CodecInv
  <2>5. Layout(text, n, codes, comp, Encoded, pos, off)'
    BY <2>1, <2>2, <2>3, <2>4
  <2>6. Decoding(pos, off)'
    BY <2>1, <2>2, <2>3, <2>4 DEF Decoding, AtToken, AtMatch
  <2>7. (\E f, g : Layout(text, n, codes, comp, Encoded, f, g) /\ Decoding(f, g))'
    BY <2>5, <2>6
  <2> QED
    BY <2>1, <2>2, <2>3, <2>7 DEF CodecInv
<1> QED
  BY <1>2, <1>3, <1>4, <1>5, <1>6, <1>7 DEF CodecNext

\* compress takes the same steps with the decoder beside it as without.
LEMMA CodecCompresses == CodecSpec => Spec
<1>1. CodecInit => Init
  BY DEF CodecInit
<1>2. [CodecNext]_codecVars => [Next]_vars
  BY DEF CodecNext, Compress, ReceiveBlock, DecodeLiterals, DecodeMatch, WriteDecoded,
         codecVars, Next
<1> QED
  BY <1>1, <1>2, PTL DEF CodecSpec, Spec

\* CodecInv always holds.
LEMMA CodecHolds == CodecSpec => []CodecInv
BY CodecBegins, CodecStep, CodecCompresses, OutputHolds, BlocksEndInLiterals, PTL
   DEF CodecSpec

(* Every block decodes, by the repository's own decoder, to the bytes it   *)
(* was made from: whatever the input, the sizes and the hash, no block     *)
(* looks corrupt to it, it writes nothing outside its g_buf, and what      *)
(* wild_copy writes too far spoils no byte that is still to be read.       *)
THEOREM BlocksRoundTrip == CodecSpec => []RoundTrip
<1>1. CodecInv => RoundTrip
  BY DEF CodecInv, RoundTrip
<1> QED
  BY <1>1, CodecHolds, PTL

(***************************************************************************)
(* Every step leaves less to do.                                           *)
(***************************************************************************)

-----------------------------------------------------------------------------
(* Pairs of numbers, pairs of a number and those, and so on, in their      *)
(* lexicographic orderings.                                                *)

Two   == Nat \X Nat
Three == Nat \X Two
Four  == Nat \X Three
Five  == Nat \X Four

TwoLess   == LexPairOrdering(NatLess, NatLess, Nat, Nat)
ThreeLess == LexPairOrdering(NatLess, TwoLess, Nat, Two)
FourLess  == LexPairOrdering(NatLess, ThreeLess, Nat, Three)
FiveLess  == LexPairOrdering(NatLess, FourLess, Nat, Four)

\* No infinite descent among five numbers.
LEMMA FiveIsWellFounded == IsWellFoundedOn(FiveLess, Five)
<1>1. IsWellFoundedOn(TwoLess, Two)
  BY NatLessIsWellFounded, WFLexPairOrdering DEF TwoLess, Two
<1>2. IsWellFoundedOn(ThreeLess, Three)
  BY <1>1, NatLessIsWellFounded, WFLexPairOrdering DEF ThreeLess, Three
<1>3. IsWellFoundedOn(FourLess, Four)
  BY <1>2, NatLessIsWellFounded, WFLexPairOrdering DEF FourLess, Four
<1> QED
  BY <1>3, NatLessIsWellFounded, WFLexPairOrdering DEF FiveLess, Five

\* A pair goes down when its first part does, or when that stays and the second
\* does.
LEMMA LexFirst ==
  ASSUME NEW Q, NEW R, NEW S, NEW T, NEW a \in S, NEW b \in S, NEW u \in T, NEW v \in T,
         <<a, b>> \in Q
  PROVE  <<<<a, u>>, <<b, v>>>> \in LexPairOrdering(Q, R, S, T)
<1>1. PICK ss : ss = <<<<a, u>>, <<b, v>>>>
  OBVIOUS
<1>2. ss \in (S \X T) \X (S \X T) /\ ss[1][1] = a /\ ss[2][1] = b
  BY <1>1
<1> QED
  BY <1>1, <1>2 DEF LexPairOrdering

LEMMA LexSecond ==
  ASSUME NEW Q, NEW R, NEW S, NEW T, NEW a \in S, NEW u \in T, NEW v \in T,
         <<u, v>> \in R
  PROVE  <<<<a, u>>, <<a, v>>>> \in LexPairOrdering(Q, R, S, T)
<1>1. PICK ss : ss = <<<<a, u>>, <<a, v>>>>
  OBVIOUS
<1>2. ss \in (S \X T) \X (S \X T)
  BY <1>1
<1>3. ss[1][1] = a /\ ss[2][1] = a /\ ss[1][2] = u /\ ss[2][2] = v
  BY <1>1
<1> QED
  BY <1>1, <1>2, <1>3 DEF LexPairOrdering

\* The same where the first part is a number.
LEMMA LexDown ==
  ASSUME NEW R, NEW S, NEW a \in Nat, NEW b \in Nat, NEW u \in S, NEW v \in S,
         a < b \/ (a = b /\ <<u, v>> \in R)
  PROVE  <<<<a, u>>, <<b, v>>>> \in LexPairOrdering(NatLess, R, Nat, S)
<1>1. CASE a < b
  <2>1. <<a, b>> \in NatLess
    BY <1>1 DEF NatLess
  <2> QED
    BY <2>1, LexFirst
<1>2. CASE a = b /\ <<u, v>> \in R
  BY <1>2, LexSecond
<1> QED
  BY <1>1, <1>2

\* Of five numbers the first that changes is less.
Lower(a1, b1, c1, d1, e1, a, b, c, d, e) ==
  \/ a1 < a
  \/ a1 = a /\ b1 < b
  \/ a1 = a /\ b1 = b /\ c1 < c
  \/ a1 = a /\ b1 = b /\ c1 = c /\ d1 < d
  \/ a1 = a /\ b1 = b /\ c1 = c /\ d1 = d /\ e1 < e

Paired(a, b, c, d, e) == <<a, <<b, <<c, <<d, e>>>>>>>>

\* Then so are the pairs they make up.
LEMMA FiveDown ==
  ASSUME NEW a1 \in Nat, NEW b1 \in Nat, NEW c1 \in Nat, NEW d1 \in Nat, NEW e1 \in Nat,
         NEW a \in Nat, NEW b \in Nat, NEW c \in Nat, NEW d \in Nat, NEW e \in Nat,
         Lower(a1, b1, c1, d1, e1, a, b, c, d, e)
  PROVE  <<Paired(a1, b1, c1, d1, e1), Paired(a, b, c, d, e)>> \in FiveLess
<1> DEFINE t1 == <<d1, e1>>
           t  == <<d, e>>
           u1 == <<c1, t1>>
           u  == <<c, t>>
           v1 == <<b1, u1>>
           v  == <<b, u>>
<1>1. /\ t1 \in Two /\ t \in Two /\ u1 \in Three /\ u \in Three /\ v1 \in Four /\ v \in Four
  BY DEF Two, Three, Four
<1>2. e1 < e => <<e1, e>> \in NatLess
  BY DEF NatLess
<1>3. d1 < d \/ (d1 = d /\ e1 < e) => <<t1, t>> \in TwoLess
  BY <1>2, LexDown DEF TwoLess
<1> HIDE DEF t1, t
<1>4. c1 < c \/ (c1 = c /\ <<t1, t>> \in TwoLess) => <<u1, u>> \in ThreeLess
  BY <1>1, LexDown DEF ThreeLess
<1> HIDE DEF u1, u
<1>5. b1 < b \/ (b1 = b /\ <<u1, u>> \in ThreeLess) => <<v1, v>> \in FourLess
  BY <1>1, LexDown DEF FourLess
<1> HIDE DEF v1, v
<1>6. a1 < a \/ (a1 = a /\ <<v1, v>> \in FourLess)
  BY <1>3, <1>4, <1>5 DEF Lower
<1>7. <<<<a1, v1>>, <<a, v>>>> \in FiveLess
  BY <1>1, <1>6, LexDown DEF FiveLess
<1> QED
  BY <1>7 DEF Paired, t1, t, u1, u, v1, v

-----------------------------------------------------------------------------
(* compress.                                                               *)

\* Where compress is with a block, and in the loop over its positions.
Stage == IF InBlock THEN 3 ELSE IF pc = "write" THEN 2 ELSE IF pc = "read" THEN 1 ELSE 0
Turn  == IF pc = "scan" THEN 3 ELSE IF pc = "chain" THEN 2 ELSE IF pc = "emit" THEN 1 ELSE 0

\* What is left to do: of the input, of the block, of its positions, at one
\* of them, and of its candidates.
Left == Paired(Len(source) - inputIndex, Stage, n - p, Turn, chain_len)

LeftDescends == <<Left', Left>> \in FiveLess

\* All five are natural numbers.
LeftOK ==
  /\ Len(source) - inputIndex \in Nat /\ Stage \in Nat /\ n - p \in Nat
  /\ Turn \in Nat /\ chain_len \in Nat

\* As the types of the cursors say.
LEMMA LeftTyped == TypeOK => LeftOK
<1> SUFFICES ASSUME TypeOK PROVE LeftOK
  OBVIOUS
<1>1. Len(source) - inputIndex \in Nat
  BY Typed
<1>2. n - p \in Nat /\ chain_len \in Nat
  BY Bounds
<1>3. Stage \in Nat
  BY DEF Stage
<1>4. Turn \in Nat
  BY DEF Turn
<1> QED
  BY <1>1, <1>2, <1>3, <1>4 DEF LeftOK

\* A step that moves the cursors of compress forward.
Forward ==
  Lower((Len(source) - inputIndex)', Stage', (n - p)', Turn', chain_len',
        Len(source) - inputIndex, Stage, n - p, Turn, chain_len)

\* Left goes down with it.
LEMMA ForwardIsLess ==
  ASSUME LeftOK, LeftOK', Forward
  PROVE  LeftDescends
<1>1. PICK a, b, c, d, e : /\ a = Len(source) - inputIndex /\ b = Stage /\ c = n - p
                           /\ d = Turn /\ e = chain_len
  OBVIOUS
<1>2. PICK a1, b1, c1, d1, e1 :
        /\ a1 = (Len(source) - inputIndex)' /\ b1 = Stage' /\ c1 = (n - p)'
        /\ d1 = Turn' /\ e1 = chain_len'
  OBVIOUS
<1>3. /\ a \in Nat /\ b \in Nat /\ c \in Nat /\ d \in Nat /\ e \in Nat
      /\ a1 \in Nat /\ b1 \in Nat /\ c1 \in Nat /\ d1 \in Nat /\ e1 \in Nat
  BY <1>1, <1>2 DEF LeftOK
<1>4. Lower(a1, b1, c1, d1, e1, a, b, c, d, e)
  BY <1>1, <1>2 DEF Forward
<1>5. <<Paired(a1, b1, c1, d1, e1), Paired(a, b, c, d, e)>> \in FiveLess
  BY ONLY <1>3, <1>4, FiveDown
<1>6. Left = Paired(a, b, c, d, e)
  BY <1>1 DEF Left
<1>7. Left' = Paired(a1, b1, c1, d1, e1)
  BY <1>2 DEF Left
<1> QED
  BY <1>5, <1>6, <1>7 DEF LeftDescends

\* Each action moves one of them.
LEMMA StepsForward ==
  ASSUME Inv, TypeOK', Next
  PROVE  Forward
<1>1. TypeOK /\ CursorsInOrder
  BY DEF Inv
<1>2. /\ n \in Nat /\ p \in Nat /\ p <= n /\ pp \in Nat /\ chain_len \in Nat
      /\ Len(source) \in Nat /\ inputIndex \in Nat
  BY <1>1, Bounds, Typed
<1>3. CASE ReadBlock
  <2>1. source' = source /\ inputIndex' = inputIndex + Available /\ Available > 0
    BY <1>3 DEF ReadBlock
  <2>2. Available \in Nat
    BY <1>1, <1>3 DEF ReadBlock, TypeOK
  <2> QED
    BY <1>2, <2>1, <2>2 DEF Forward, Lower
<1>4. CASE Finish
  BY <1>4 DEF Finish, files, Forward, Lower, Stage, InBlock
<1>5. CASE FlushLiterals
  BY <1>5 DEF FlushLiterals, files, Forward, Lower, Stage, InBlock
<1>6. CASE WriteBlock
  BY <1>6 DEF WriteBlock, Forward, Lower, Stage, InBlock
<1>7. CASE BeginSearch
  BY <1>7 DEF BeginSearch, files, cursor, Forward, Lower, Stage, InBlock, Turn
<1>8. CASE SkipSearch
  BY <1>8 DEF SkipSearch, files, cursor, Forward, Lower, Stage, InBlock, Turn
<1>9. CASE Improve \/ PassOver \/ ChainEnds
  <2>1. pc = "chain" /\ UNCHANGED <<files, cursor>> /\ (EndSearch \/ NextCandidate)
    BY <1>9 DEF Improve, PassOver, ChainEnds
  <2>2. UNCHANGED <<source, inputIndex, n, p>>
    BY <2>1 DEF files, cursor
  <2>3. \/ pc' = "emit"
        \/ pc' = "chain" /\ chain_len' = chain_len - 1
    BY <2>1 DEF EndSearch, NextCandidate
  <2>4. CASE pc' = "emit"
    BY <2>1, <2>2, <2>4 DEF Forward, Lower, Stage, InBlock, Turn
  <2>5. CASE pc' = "chain" /\ chain_len' = chain_len - 1
    <3>1. chain_len' < chain_len
      BY <1>2, <2>5
    <3> QED
      BY <2>1, <2>2, <2>5, <3>1 DEF Forward, Lower, Stage, InBlock, Turn
  <2> QED
    BY <2>3, <2>4, <2>5
<1>10. CASE EmitMatch
  BY <1>10 DEF EmitMatch, files, search, Forward, Lower, Stage, InBlock, Turn
<1>11. CASE InsertMatched \/ InsertLiteral
  <2>1. /\ pc \in {"insert", "emit"} /\ pc' \in {"scan", "insert"} /\ p' = p + 1
        /\ UNCHANGED <<files, n>>
    BY <1>11 DEF InsertMatched, InsertLiteral, Insert
  <2>2. (n - p)' < n - p
    BY <1>2, <2>1
  <2> QED
    BY <2>1, <2>2 DEF files, Forward, Lower, Stage, InBlock
<1> QED
  BY <1>3, <1>4, <1>5, <1>6, <1>7, <1>8, <1>9, <1>10, <1>11 DEF Next

(* compress leaves less to do with every step, in an ordering that has no  *)
(* infinite descent, whatever the input, the sizes and the hash: no loop   *)
(* of it goes on for ever.                                                 *)
THEOREM CompressRunsOut ==
  /\ IsWellFoundedOn(FiveLess, Five)
  /\ Spec => [][LeftDescends]_vars
<1>1. LeftOK /\ LeftOK' /\ Inv /\ Inv' /\ [Next]_vars
        => [LeftDescends]_vars
  <2> SUFFICES ASSUME LeftOK, LeftOK', Inv, Inv', Next PROVE LeftDescends
    OBVIOUS
  <2>1. TypeOK'
    BY DEF Inv
  <2> QED
    BY <2>1, StepsForward, ForwardIsLess
<1>2. Spec => []LeftOK
  BY TypeCorrect, LeftTyped, PTL
<1>3. Spec => [][LeftDescends]_vars
  BY <1>1, <1>2, Invariance, PTL DEF Spec
<1> QED
  BY <1>3, FiveIsWellFounded

-----------------------------------------------------------------------------
(* compress and decompress.                                                *)

\* What decompress has left of its block: of the bytes it reads, and to write.
BlockLeft ==
  IF phase \in {"token", "match"} THEN 2 + (ip_end - ip) ELSE IF phase = "write" THEN 1 ELSE 0

CodecLeft     == <<Left, BlockLeft>>
Both          == Five \X Nat
BothLess      == LexPairOrdering(FiveLess, NatLess, Five, Nat)
CodecDescends == <<CodecLeft', CodecLeft>> \in BothLess

\* No infinite descent among these.
LEMMA BothIsWellFounded == IsWellFoundedOn(BothLess, Both)
BY FiveIsWellFounded, NatLessIsWellFounded, WFLexPairOrdering DEF BothLess, Both

\* decompress is inside the bytes it has been given.
Inside ==
  /\ BlockLeft \in Nat
  /\ phase \in {"token", "match"} => ip \in Nat /\ ip <= ip_end /\ ip_end \in Nat

\* It always is.
LEMMA InsideBlock ==
  ASSUME TypeOK, CodecInv
  PROVE  Inside
<1>1. CASE phase \notin {"token", "match"}
  BY <1>1 DEF Inside, BlockLeft
<1>2. CASE phase \in {"token", "match"}
  <2>1. PICK pos, off : /\ Layout(text, n, codes, comp, Encoded, pos, off)
                        /\ Decoding(pos, off) /\ Received(text, n, codes, comp, pos, off)
    BY <1>2, CodecReceived
  <2>2. PICK i \in 1..Len(codes) : AtToken(pos, off, i) \/ AtMatch(pos, off, i)
    BY <1>2, <2>1 DEF Decoding
  <2>3. PICK c : c = codes[i]
    OBVIOUS
  <2>4. PICK z : z = CodeLen(c)
    OBVIOUS
  <2>5. PICK q : q = LitSize(Len(c.lits))
    OBVIOUS
  <2>6. PICK o : o = off[i]
    OBVIOUS
  <2>7. PICK l : l = Len(comp)
    OBVIOUS
  <2>8. c \in Code /\ (c.len = 0 \/ c.len >= MIN_MATCH) /\ o \in Nat /\ off[i + 1] = o + z
        /\ off[i + 1] <= l
    BY <2>1, <2>3, <2>4, <2>6, <2>7, CodeAt
  <2>9. q \in Nat /\ z \in Nat /\ z >= q
    BY <2>3, <2>4, <2>5, <2>8, CodeParts
  <2>10. BLOCK_SIZE \in Nat /\ l \in Nat
    <3>1. comp \in Seq(Octet)
      BY DEF CodecInv
    <3> QED
      BY <2>7, <3>1, Constants, LenProperties
  <2>11. ip = BLOCK_SIZE + o \/ ip = BLOCK_SIZE + o + q
    BY <2>2, <2>3, <2>5, <2>6 DEF AtToken, AtMatch
  <2>12. o + z <= l
    BY <2>8
  <2>13. ip \in Nat /\ ip <= BLOCK_SIZE + l /\ BLOCK_SIZE + l \in Nat
    BY ONLY <2>8, <2>9, <2>10, <2>11, <2>12
  <2>14. ip_end = BLOCK_SIZE + l
    BY <2>7 DEF ip_end
  <2>15. 2 + (ip_end - ip) \in Nat
    BY ONLY <2>13, <2>14
  <2> QED
    BY <1>2, <2>13, <2>14, <2>15 DEF Inside, BlockLeft
<1> QED
  BY <1>1, <1>2

\* Each half of decompress reads a byte at least.
LEMMA ReadsOn ==
  ASSUME TypeOK, CodecInv, DecodeLiterals \/ DecodeMatch
  PROVE  ip' > ip
<1>1. phase \in {"token", "match"} /\ UNCHANGED <<vars, comp>>
  BY DEF DecodeLiterals, DecodeMatch
<1>2. PICK pos, off : /\ Layout(text, n, codes, comp, Encoded, pos, off)
                      /\ Decoding(pos, off) /\ Received(text, n, codes, comp, pos, off)
  BY <1>1, CodecReceived
<1>3. ip \in Nat
  BY <1>1, InsideBlock DEF Inside
<1>4. CASE DecodeLiterals
  <2>1. PICK i \in 1..Len(codes) : AtToken(pos, off, i)
    BY <1>2, <1>4 DEF Decoding, DecodeLiterals
  <2>2. PICK run : run = Len(codes[i].lits)
    OBVIOUS
  <2>3. PICK c : c = codes[i]
    OBVIOUS
  <2>4. c \in Code /\ (c.len = 0 \/ c.len >= MIN_MATCH)
    BY <1>2, <2>3, CodeAt
  <2>5. PICK e : e = ExtSize(run)
    OBVIOUS
  <2>6. run \in Nat /\ e \in Nat
    BY <2>2, <2>3, <2>4, <2>5, CodeParts
  <2>7. Extended(memory, ip + 1, memory[ip] \div 16) = [value |-> run, end |-> ip + 1 + e]
    BY <1>2, <2>1, <2>2, <2>5, TokenRead DEF AtToken
  <2>8. \/ ip' = ip + 1
        \/ ip' = ip + 1 + e + run
        \/ phase' = "corrupt"
    BY <1>4, <2>7 DEF DecodeLiterals
  <2>9. phase' # "corrupt"
    <3>1. CodecInv'
      BY <1>4, CodecLiterals
    <3> QED
      BY <3>1 DEF CodecInv
  <2>10. ip' > ip
    BY ONLY <1>3, <2>6, <2>8, <2>9
  <2> QED
    BY <2>10
<1>5. CASE DecodeMatch
  <2>1. PICK i \in 1..Len(codes) : AtMatch(pos, off, i)
    BY <1>2, <1>5 DEF Decoding, DecodeMatch
  <2>2. PICK run : run = Len(codes[i].lits)
    OBVIOUS
  <2>3. PICK c : c = codes[i]
    OBVIOUS
  <2>4. PICK z : z = CodeLen(c)
    OBVIOUS
  <2>5. PICK q : q = LitSize(run)
    OBVIOUS
  <2>6. PICK o : o = off[i]
    OBVIOUS
  <2>7. /\ c.len > 0 /\ token % 16 = Nib(c.len) /\ ip = BLOCK_SIZE + o + q
        /\ Holds(memory, text, comp, at, o + q)
    BY <2>1, <2>2, <2>3, <2>5, <2>6 DEF AtMatch
  <2>8. c \in Code /\ (c.len = 0 \/ c.len >= MIN_MATCH) /\ o \in Nat /\ off[i + 1] = o + z
    BY <1>2, <2>3, <2>4, <2>6, CodeAt
  <2>9. q \in Nat /\ z \in Nat /\ z >= q + 2
    <3>1. PICK y : y = ExtSize(c.len - MIN_MATCH)
      OBVIOUS
    <3>2. c.len # 0
      BY <2>7, <2>8 DEF Code
    <3>3. q \in Nat /\ z \in Nat /\ y \in Nat /\ z = q + 2 + y
      BY <2>2, <2>3, <2>4, <2>5, <2>8, <3>1, <3>2, CodeParts
    <3> QED
      BY ONLY <3>3
  <2>10. MatchAt(memory, ip, codes, off, i)
    BY <1>2, <2>2, <2>3, <2>5, <2>6, <2>7, MatchRead
  <2>11. Extended(memory, ip + 2, token % 16).end = BLOCK_SIZE + (o + z)
    <3>1. Extended(memory, ip + 2, token % 16)
            = [value |-> c.len - MIN_MATCH, end |-> BLOCK_SIZE + off[i + 1]]
      BY <2>3, <2>7, <2>10 DEF MatchAt
    <3> QED
      BY <2>8, <3>1
  <2>12. ip' = BLOCK_SIZE + (o + z) \/ phase' = "corrupt"
    BY <1>5, <2>11 DEF DecodeMatch
  <2>13. phase' # "corrupt"
    <3>1. CodecInv'
      BY <1>5, CodecMatch
    <3> QED
      BY <3>1 DEF CodecInv
  <2>14. BLOCK_SIZE \in Nat
    BY Constants
  <2>15. ip' > ip
    BY ONLY <2>7, <2>8, <2>9, <2>12, <2>13, <2>14
  <2> QED
    BY <2>15
<1> QED
  BY <1>4, <1>5

\* A step of compress, or of decompress beside it, leaves less to do.
LEMMA CodecForward ==
  ASSUME Inv, Inv', LeftOK, LeftOK', CodecInv, Inside, Inside', phase' # "corrupt",
         CodecNext
  PROVE  CodecDescends
<1>1. TypeOK /\ TypeOK'
  BY DEF Inv
<1>2. Left \in Five /\ Left' \in Five
  <2>1. Left \in Five
    BY DEF LeftOK, Left, Paired, Five, Four, Three, Two
  <2>2. Left' \in Five
    BY DEF LeftOK, Left, Paired, Five, Four, Three, Two
  <2> QED
    BY <2>1, <2>2
<1>3. CASE Next
  <2>1. <<Left', Left>> \in FiveLess
    BY <1>1, <1>3, StepsForward, ForwardIsLess DEF LeftDescends
  <2> QED
    BY <1>2, <2>1, LexFirst DEF Inside, CodecDescends, CodecLeft, BothLess
<1>4. CASE UNCHANGED vars /\ BlockLeft' < BlockLeft
  <2>1. Left' = Left
    <3>1. UNCHANGED <<source, inputIndex, n, p, pc, chain_len>>
      BY <1>4 DEF vars, files, cursor, search
    <3> QED
      BY <3>1 DEF Left, Stage, Turn, InBlock
  <2>2. <<BlockLeft', BlockLeft>> \in NatLess
    BY <1>4 DEF NatLess, Inside
  <2> QED
    BY <1>2, <2>1, <2>2, LexSecond DEF Inside, CodecDescends, CodecLeft, BothLess
<1>5. CASE Compress \/ ReceiveBlock
  BY <1>3, <1>5 DEF Compress, ReceiveBlock, Next
<1>6. CASE DecodeLiterals \/ DecodeMatch
  <2>1. /\ phase \in {"token", "match"} /\ phase' \in {"token", "match", "write"}
        /\ UNCHANGED <<vars, comp>>
    BY <1>6 DEF DecodeLiterals, DecodeMatch
  <2>2. ip' > ip /\ ip \in Nat /\ ip_end \in Nat /\ ip <= ip_end /\ ip_end' = ip_end
    BY <1>1, <1>6, <2>1, ReadsOn DEF Inside, ip_end
  <2>3. BlockLeft = 2 + (ip_end - ip)
    BY <2>1 DEF BlockLeft
  <2>4. CASE phase' = "write"
    <3>1. BlockLeft' = 1
      BY <2>4 DEF BlockLeft
    <3> QED
      BY <1>4, <2>1, <2>2, <2>3, <3>1
  <2>5. CASE phase' \in {"token", "match"}
    <3>1. BlockLeft' = 2 + (ip_end - ip')
      BY <2>2, <2>5 DEF BlockLeft
    <3>2. ip' \in Nat
      BY <2>5 DEF Inside
    <3>3. PICK e, i, j : e = ip_end /\ i = ip /\ j = ip'
      OBVIOUS
    <3>4. e \in Nat /\ i \in Nat /\ j \in Nat /\ j > i
      BY <2>2, <3>2, <3>3
    <3>5. BlockLeft = 2 + (e - i) /\ BlockLeft' = 2 + (e - j)
      BY <2>3, <3>1, <3>3
    <3>6. BlockLeft' < BlockLeft
      BY ONLY <3>4, <3>5
    <3> QED
      BY <1>4, <2>1, <3>6
  <2> QED
    BY <2>1, <2>4, <2>5
<1>7. CASE WriteDecoded
  <2>1. phase = "write" /\ phase' = "idle" /\ UNCHANGED vars
    BY <1>7 DEF WriteDecoded
  <2>2. BlockLeft = 1 /\ BlockLeft' = 0
    BY <2>1 DEF BlockLeft
  <2> QED
    BY <1>4, <2>1, <2>2
<1> QED
  BY <1>5, <1>6, <1>7 DEF CodecNext

(* The same with decompress beside it: neither the loops that decode the   *)
(* codes of a block, nor the two programs together, go on for ever.        *)
THEOREM CodecRunsOut ==
  /\ IsWellFoundedOn(BothLess, Both)
  /\ CodecSpec => [][CodecDescends]_codecVars
<1> DEFINE Known == Inv /\ LeftOK /\ CodecInv /\ Inside /\ phase # "corrupt"
<1>1. CodecSpec => []Known
  <2>1. Inv /\ CodecInv => Known
    <3>1. Inv => TypeOK
      BY DEF Inv
    <3>2. CodecInv => phase # "corrupt"
      BY DEF CodecInv
    <3> QED
      BY <3>1, <3>2, LeftTyped, InsideBlock
  <2> QED
    BY <2>1, CodecHolds, CodecCompresses, Invariance, PTL
<1>2. Known /\ Known' /\ [CodecNext]_codecVars => [CodecDescends]_codecVars
  BY CodecForward
<1>3. CodecSpec => [][CodecDescends]_codecVars
  BY <1>1, <1>2, PTL DEF CodecSpec
<1> QED
  BY <1>3, BothIsWellFounded

=============================================================================
