----------------------------- MODULE HdrRleProofs -----------------------------
(***************************************************************************)
(* Proofs about the pixels of a .hdr file, for pictures of every size, for *)
(* every file that is read, and for every length a run may have.           *)
(***************************************************************************)
EXTENDS HdrRle, SequenceTheorems, WellFoundedInduction, TLAPS

-----------------------------------------------------------------------------
(* Numbers.                                                                *)

NatLess == { ss \in Nat \X Nat : ss[1] < ss[2] }

LEMMA NatLessIsWellFounded == IsWellFoundedOn(NatLess, Nat)
<1>1. PICK R : R = OpToRel(<, Nat)
  OBVIOUS
<1>2. NatLess = R
  BY <1>1 DEF NatLess, OpToRel
<1> QED
  BY <1>1, <1>2, NatLessThanWellFounded

\* What FirstRun and EndOfRun choose is there.
LEMMA Least ==
  ASSUME NEW T, T \subseteq Nat, T # {}
  PROVE  \E m \in T : \A n \in T : m <= n
<1>1. PICK m \in T : \A n \in T : ~ (<<n, m>> \in NatLess)
  BY NatLessIsWellFounded, WFMin
<1>2. ASSUME NEW n \in T PROVE m <= n
  <2>1. m \in Nat /\ n \in Nat
    OBVIOUS
  <2>2. ~(n < m)
    BY <1>1, <2>1 DEF NatLess
  <2> QED
    BY <2>1, <2>2
<1> QED
  BY <1>2

LEMMA DivFacts ==
  ASSUME NEW n \in Nat, NEW d \in Nat \ {0}
  PROVE  /\ n \div d \in Nat /\ n % d \in 0..(d - 1) /\ n = d * (n \div d) + (n % d)
OBVIOUS

LEMMA DivUnique ==
  ASSUME NEW n \in Nat, NEW d \in Nat \ {0}, NEW q \in Nat, NEW m \in 0..(d - 1), n = q * d + m
  PROVE  n \div d = q /\ n % d = m
<1> DEFINE a == n \div d
           b == n % d
<1>1. a \in Nat /\ b \in 0..(d - 1) /\ n = d * a + b
  BY DivFacts
<1> HIDE DEF a, b
<1>2. d * (a - q) = m - b
  BY <1>1
<1>3. ASSUME a > q PROVE FALSE
  <2>1. d * (a - q) >= d
    BY <1>1, <1>3
  <2> QED
    BY <1>1, <1>2, <2>1
<1>4. ASSUME a < q PROVE FALSE
  <2>1. d * (q - a) >= d /\ d * (q - a) = b - m
    BY <1>1, <1>2, <1>4
  <2> QED
    BY <1>1, <2>1
<1>5. a = q
  BY <1>1, <1>3, <1>4
<1>6. b = m
  BY <1>1, <1>5
<1> QED
  BY <1>5, <1>6 DEF a, b

LEMMA TopFacts ==
  /\ Top \in Nat /\ Top >= 2 /\ MinWidth \in Nat /\ MinWidth >= 1
  /\ 2 * Top \in Nat /\ 2 * Top >= 4 /\ 0 \in Byte /\ 2 \in Byte
  BY RleAssumption DEF Byte

\* A count is what its byte says.
LEMMA LengthByteIs ==
  ASSUME NEW n \in 0..(2 * Top - 1)
  PROVE  LengthByte(n) = n
<1>1. PICK t \in Nat : t = 2 * Top /\ t >= 4
  BY TopFacts
<1>2. n \in 0..(t - 1)
  BY <1>1
<1>3. n % t = n
  BY ONLY <1>1, <1>2
<1> QED
  BY <1>1, <1>3 DEF LengthByte

\* The width, in the two bytes of a scanline's header.
LEMMA WidthBytes ==
  ASSUME NEW w \in Nat, w < Top * (2 * Top)
  PROVE  /\ w \div (2 * Top) \in 0..(Top - 1) /\ w % (2 * Top) \in Byte
         /\ (w \div (2 * Top)) * (2 * Top) + (w % (2 * Top)) = w
<1>1. PICK t \in Nat, T \in Nat : t = 2 * Top /\ T = Top /\ t >= 4 /\ t = 2 * T
  BY TopFacts
<1>2. PICK q, m : q = w \div t /\ m = w % t
  OBVIOUS
<1>3. q \in Nat /\ m \in 0..(t - 1) /\ w = t * q + m
  <2>1. t \in Nat \ {0}
    BY <1>1
  <2> QED
    BY <1>2, <2>1, DivFacts
<1>4. q < T
  <2>1. w < T * t
    BY <1>1
  <2>2. ASSUME q >= T PROVE FALSE
    <3>1. t * q >= T * t
      BY ONLY <1>1, <1>3, <2>2
    <3> QED
      BY ONLY <1>1, <1>3, <2>1, <3>1
  <2> QED
    BY ONLY <1>1, <1>3, <2>2
<1>5. q * t + m = w
  BY ONLY <1>1, <1>3
<1> QED
  BY <1>1, <1>2, <1>3, <1>4, <1>5 DEF Byte

\* Joining sequences.
LEMMA Joined ==
  ASSUME NEW S, NEW s \in Seq(S), NEW t \in Seq(S)
  PROVE  /\ s \o t \in Seq(S) /\ Len(s \o t) = Len(s) + Len(t)
         /\ Len(s) \in Nat /\ Len(t) \in Nat
         /\ \A m \in 1..Len(s) : (s \o t)[m] = s[m]
         /\ \A m \in 1..Len(t) : (s \o t)[Len(s) + m] = t[m]
<1>1. Len(s) \in Nat /\ Len(t) \in Nat
  BY LenProperties
<1>2. /\ s \o t \in Seq(S) /\ Len(s \o t) = Len(s) + Len(t)
      /\ \A m \in 1..(Len(s) + Len(t)) :
           (s \o t)[m] = IF m <= Len(s) THEN s[m] ELSE t[m - Len(s)]
  BY ConcatProperties
<1>3. ASSUME NEW m \in 1..Len(s) PROVE (s \o t)[m] = s[m]
  <2>1. m \in 1..(Len(s) + Len(t)) /\ m <= Len(s)
    BY <1>1
  <2> QED
    BY <1>2, <2>1
<1>4. ASSUME NEW m \in 1..Len(t) PROVE (s \o t)[Len(s) + m] = t[m]
  <2>1. /\ Len(s) + m \in 1..(Len(s) + Len(t)) /\ ~(Len(s) + m <= Len(s))
        /\ (Len(s) + m) - Len(s) = m
    BY <1>1
  <2> QED
    BY <1>2, <2>1
<1> QED
  BY <1>1, <1>2, <1>3, <1>4

\* A function on 1..n is a sequence.
LEMMA IsSequence ==
  ASSUME NEW S, NEW n \in Nat, NEW f \in [1..n -> S]
  PROVE  f \in Seq(S) /\ Len(f) = n
<1>1. Seq(S) = UNION {[1..m -> S] : m \in Nat}
  BY SeqDef
<1>2. f \in Seq(S)
  BY <1>1, Zenon
<1>3. DOMAIN f = 1..Len(f) /\ Len(f) \in Nat
  BY <1>2, LenProperties
<1>4. DOMAIN f = 1..n
  OBVIOUS
<1> QED
  BY <1>2, <1>3, <1>4

-----------------------------------------------------------------------------
(* Where the writer and the reader are, and that the file is bytes.        *)

Writing == {"scanline", "search", "dump", "run"}
InRle == {"search", "dump", "run"}

\* The byte of column n, of channel d, of scanline k of picture p.
Val(p, k, d, n) == p[k + 1][d][n + 1]

PictureInv ==
  picture # <<>> => /\ picture \in Pictures
                    /\ width = Len(picture[1][0]) /\ height = Len(picture)

FileInv ==
  /\ width \in Nat /\ height \in Nat /\ bytes \in Seq(Byte)
  /\ i \in 0..width /\ at \in 0..Len(bytes)

WriterInv ==
  /\ pc \in Writing \union {"row", "count", "flat", "loaded", "failed"}
  /\ pc \in Writing => picture # <<>> /\ j \in 0..(height - 1)
  /\ pc \in InRle => ~WritesFlat /\ c \in Channels /\ x \in 0..width
  /\ pc \in {"dump", "run"} => r \in x..width
  /\ pc = "run" => \A n \in x..(r - 1) : Val(picture, j, c, n) = Val(picture, j, c, x)

SizeInv == PictureInv /\ FileInv /\ WriterInv

LEMMA PictureFacts ==
  ASSUME NEW p \in Pictures
  PROVE  /\ Len(p) \in Nat \ {0} /\ Len(p[1][0]) \in Nat \ {0}
         /\ \A k \in 0..(Len(p) - 1), d \in Channels, n \in 0..(Len(p[1][0]) - 1) :
              Val(p, k, d, n) \in Byte
<1>1. p \in Seq([Channels -> Seq(Byte)]) /\ Len(p) > 0
  BY RleAssumption
<1>2. Len(p) \in Nat \ {0} /\ DOMAIN p = 1..Len(p)
      /\ \A k \in 1..Len(p) : p[k] \in [Channels -> Seq(Byte)]
  <2>1. Len(p) \in Nat /\ DOMAIN p = 1..Len(p) /\ p \in [1..Len(p) -> [Channels -> Seq(Byte)]]
    BY <1>1, LenProperties
  <2> QED
    BY <1>1, <2>1
<1>3. \A k \in 1..Len(p), d \in Channels :
        p[k][d] \in Seq(Byte) /\ Len(p[k][d]) = Len(p[1][0]) /\ Len(p[k][d]) > 0
  BY <1>2, RleAssumption
<1>4. Len(p[1][0]) \in Nat \ {0}
  <2>1. 1 \in 1..Len(p) /\ 0 \in Channels
    BY <1>2 DEF Channels
  <2>2. p[1][0] \in Seq(Byte) /\ Len(p[1][0]) > 0
    BY <1>3, <2>1
  <2>3. Len(p[1][0]) \in Nat
    BY <2>2, LenProperties
  <2> QED
    BY <2>2, <2>3
<1>5. ASSUME NEW k \in 0..(Len(p) - 1), NEW d \in Channels, NEW n \in 0..(Len(p[1][0]) - 1)
      PROVE  Val(p, k, d, n) \in Byte
  <2>1. k + 1 \in 1..Len(p) /\ n + 1 \in 1..Len(p[1][0])
    BY <1>2, <1>4
  <2>2. p[k + 1][d] \in Seq(Byte) /\ Len(p[k + 1][d]) = Len(p[1][0])
    BY <1>3, <2>1
  <2>3. p[k + 1][d] \in [1..Len(p[1][0]) -> Byte]
    BY <2>2, LenProperties
  <2> QED
    BY <2>1, <2>3 DEF Val
<1> QED
  BY <1>2, <1>4, <1>5

\* The picture, while there is one.
LEMMA OwnPicture ==
  ASSUME PictureInv, picture # <<>>
  PROVE  /\ width \in Nat \ {0} /\ height \in Nat \ {0}
         /\ \A k \in 0..(height - 1), d \in Channels, n \in 0..(width - 1) :
              Val(picture, k, d, n) \in Byte
  BY PictureFacts DEF PictureInv

\* A scanline of it as WriteFlat puts it into the file.
LEMMA InBytesIs ==
  ASSUME PictureInv, picture # <<>>, j \in 0..(height - 1)
  PROVE  /\ InBytes \in Seq(Byte) /\ Len(InBytes) = 4 * width
         /\ \A d \in Channels, n \in 0..(width - 1) :
              InBytes[4 * n + d + 1] = Val(picture, j, d, n)
<1>1. width \in Nat \ {0} /\ 4 * width \in Nat
  BY OwnPicture
<1>2. ASSUME NEW m \in 1..(4 * width)
      PROVE  /\ (m - 1) % 4 \in Channels /\ (m - 1) \div 4 \in 0..(width - 1)
             /\ InBytes[m] = Val(picture, j, (m - 1) % 4, (m - 1) \div 4)
  <2>1. m - 1 \in Nat
    OBVIOUS
  <2>2. PICK w, q, e : w = width /\ q = (m - 1) \div 4 /\ e = (m - 1) % 4
    OBVIOUS
  <2>3. q \in Nat /\ e \in 0..3 /\ m - 1 = 4 * q + e
    <3>1. 4 \in Nat \ {0} /\ 4 - 1 = 3
      OBVIOUS
    <3>2. /\ (m - 1) \div 4 \in Nat /\ (m - 1) % 4 \in 0..(4 - 1)
          /\ m - 1 = 4 * ((m - 1) \div 4) + ((m - 1) % 4)
      BY <2>1, <3>1, DivFacts
    <3> QED
      BY <2>2, <3>1, <3>2
  <2>4. w \in Nat /\ m <= 4 * w
    BY <1>1, <2>2
  <2>5. q <= w - 1
    BY ONLY <2>1, <2>3, <2>4
  <2>6. q \in 0..(w - 1)
    BY ONLY <2>3, <2>4, <2>5
  <2> QED
    BY <2>2, <2>3, <2>6 DEF InBytes, Val, Channels
<1>3. \A m \in 1..(4 * width) : InBytes[m] \in Byte
  BY <1>2, OwnPicture
<1>4. InBytes \in [1..(4 * width) -> Byte]
  BY <1>3 DEF InBytes
<1>5. InBytes \in Seq(Byte) /\ Len(InBytes) = 4 * width
  BY <1>1, <1>4, IsSequence
<1>6. ASSUME NEW d \in Channels, NEW n \in 0..(width - 1)
      PROVE  InBytes[4 * n + d + 1] = Val(picture, j, d, n)
  <2>1. d \in 0..3 /\ n \in Nat
    BY DEF Channels
  <2>2. PICK m : m = 4 * n + d + 1
    OBVIOUS
  <2>3. m \in 1..(4 * width) /\ m - 1 = n * 4 + d /\ m - 1 \in Nat
    BY <1>1, <2>1, <2>2
  <2>4. (m - 1) \div 4 = n /\ (m - 1) % 4 = d
    BY <2>1, <2>3, DivUnique
  <2>5. InBytes[m] = Val(picture, j, d, n)
    BY <1>2, <2>3, <2>4
  <2> QED
    BY <2>2, <2>5
<1> QED
  BY <1>5, <1>6

-----------------------------------------------------------------------------
(* What each step of the writer adds to the file.                          *)

\* File b2 begins with file b.
Extends(b, b2) ==
  b \in Seq(Byte) /\ b2 \in Seq(Byte) /\ Len(b) <= Len(b2) /\ \A m \in 1..Len(b) : b2[m] = b[m]

\* File b2 is file b and then the n bytes of s.
Adds(b, s, n, b2) ==
  /\ Extends(b, b2) /\ b2 \in Seq(Byte)
  /\ Len(b) \in Nat /\ Len(b2) = Len(b) + n /\ n \in Nat
  /\ \A m \in 1..Len(b) : b2[m] = b[m]
  /\ \A m \in 1..n : b2[Len(b) + m] = s[m]

LEMMA Added ==
  ASSUME NEW b \in Seq(Byte), NEW s \in Seq(Byte), NEW n, Len(s) = n, NEW b2, b2 = b \o s
  PROVE  Adds(b, s, n, b2)
<1>1. /\ b2 \in Seq(Byte) /\ Len(b2) = Len(b) + Len(s)
      /\ Len(b) \in Nat /\ Len(s) \in Nat
      /\ \A m \in 1..Len(b) : b2[m] = b[m]
      /\ \A m \in 1..Len(s) : b2[Len(b) + m] = s[m]
  BY Joined
<1> QED
  BY <1>1 DEF Extends, Adds

LEMMA FirstRunIs ==
  ASSUME width \in Nat, x \in 0..width
  PROVE  FirstRun \in x..width /\ (FirstRun = width \/ FirstRun + 2 < width)
<1>1. CASE Runs = {}
  BY <1>1 DEF FirstRun
<1>2. CASE Runs # {}
  <2>1. Runs \subseteq x..(width - 3) /\ Runs \subseteq Nat
    BY DEF Runs
  <2>2. \E n \in Runs : \A m \in Runs : n <= m
    BY <1>2, <2>1, Least
  <2>3. FirstRun \in Runs
    BY <1>2, <2>2 DEF FirstRun
  <2> QED
    BY <2>1, <2>3
<1> QED
  BY <1>1, <1>2

LEMMA EndOfRunIs ==
  ASSUME width \in Nat, x \in 0..width
  PROVE  /\ EndOfRun \in x..width /\ \A m \in x..(EndOfRun - 1) : Comp(m) = Comp(x)
         /\ x < width => x < EndOfRun
<1>1. PICK T : T = { n \in x..width : n = width \/ Comp(n) # Comp(x) }
  OBVIOUS
<1>2. width \in T /\ T \subseteq Nat
  BY <1>1
<1>3. PICK n \in T : \A m \in T : n <= m
  <2>1. T # {}
    BY <1>2
  <2> QED
    BY <1>2, <2>1, Least
<1>4. n \in x..width /\ (n < width => Comp(n) # Comp(x))
  BY <1>1, <1>3
<1>5. ASSUME NEW m \in x..(n - 1) PROVE Comp(m) = Comp(x)
  <2>1. m \in x..width /\ ~(n <= m) /\ m # width
    BY <1>4
  <2>2. m \notin T
    BY <1>3, <2>1
  <2> QED
    BY <1>1, <2>1, <2>2
<1>6. \E m \in x..width : /\ \A l \in x..(m - 1) : Comp(l) = Comp(x)
                          /\ m < width => Comp(m) # Comp(x)
  BY <1>4, <1>5
<1>7. PICK e : e = EndOfRun
  OBVIOUS
<1>8. /\ e \in x..width /\ \A m \in x..(e - 1) : Comp(m) = Comp(x)
      /\ e < width => Comp(e) # Comp(x)
  BY <1>6, <1>7 DEF EndOfRun
<1>9. x < width => x < e
  <2>1. e # x \/ ~(e < width)
    BY <1>8
  <2> QED
    BY <1>8, <2>1
<1> QED
  BY <1>7, <1>8, <1>9

LEMMA HeaderIs ==
  ASSUME SizeInv, WriteHeader
  PROVE  /\ Extends(bytes, bytes') /\ Len(bytes') = Len(bytes) + 4
         /\ bytes'[Len(bytes) + 1] = 2 /\ bytes'[Len(bytes) + 2] = 2
         /\ bytes'[Len(bytes) + 3] = width \div (2 * Top)
         /\ bytes'[Len(bytes) + 4] = width % (2 * Top)
<1>1. PICK q, m : q = width \div (2 * Top) /\ m = width % (2 * Top)
  OBVIOUS
<1>2. q \in Byte /\ m \in Byte
  <2>1. width \in Nat /\ width < Top * (2 * Top)
    <3>1. width \in Nat /\ ~(width >= Top * (2 * Top))
      BY DEF WriteHeader, WritesFlat, SizeInv, FileInv
    <3>2. Top * (2 * Top) \in Nat
      BY TopFacts
    <3> QED
      BY <3>1, <3>2
  <2>2. q \in 0..(Top - 1) /\ m \in Byte
    BY <1>1, <2>1, WidthBytes
  <2> QED
    BY <2>2, TopFacts DEF Byte
<1>3. PICK h : h = <<2, 2, q, m>>
  OBVIOUS
<1>4. h \in Seq(Byte) /\ Len(h) = 4
  BY <1>2, <1>3, TopFacts
<1>5. bytes' = bytes \o h /\ bytes \in Seq(Byte)
  BY <1>1, <1>3 DEF WriteHeader, SizeInv, FileInv
<1>6. /\ Extends(bytes, bytes') /\ Len(bytes') = Len(bytes) + 4 /\ Len(bytes) \in Nat
      /\ \A n \in 1..4 : bytes'[Len(bytes) + n] = h[n]
  <2>1. Adds(bytes, h, 4, bytes')
    BY <1>4, <1>5, Added
  <2> QED
    BY <2>1 DEF Adds
<1>7. \A n \in {1, 2, 3, 4} : bytes'[Len(bytes) + n] = h[n]
  BY <1>6
<1> QED
  BY <1>1, <1>3, <1>6, <1>7

LEMMA DumpIs ==
  ASSUME SizeInv, Dump
  PROVE  \E len \in 1..Top :
           /\ x' = x + len /\ x + len <= r /\ x + len <= width
           /\ Extends(bytes, bytes') /\ Len(bytes') = Len(bytes) + 1 + len
           /\ bytes'[Len(bytes) + 1] = len
           /\ \A m \in 0..(len - 1) :
                bytes'[Len(bytes) + 2 + m] = Val(picture, j, c, x + m)
<1>1. PICK len : len = IF r - x > MaxDump THEN MaxDump ELSE r - x
  OBVIOUS
<1>2. /\ bytes' = bytes \o <<LengthByte(len)>> \o [n \in 1..len |-> Comp(x + n - 1)]
      /\ x' = x + len /\ x < r /\ pc = "dump"
  BY <1>1 DEF Dump
<1>3. /\ r \in x..width /\ x \in 0..width /\ width \in Nat /\ c \in Channels
      /\ j \in 0..(height - 1) /\ picture # <<>> /\ bytes \in Seq(Byte)
  BY <1>2 DEF SizeInv, FileInv, WriterInv, Writing, InRle
<1>4. len \in 1..Top /\ x + len <= r /\ x + len <= width
  BY <1>1, <1>2, <1>3, TopFacts DEF MaxDump
<1>5. len \in Byte /\ LengthByte(len) = len
  <2>1. len \in 0..(2 * Top - 1)
    BY <1>4, TopFacts
  <2> QED
    BY <2>1, LengthByteIs DEF Byte
<1>6. PICK s, t : s = <<len>> /\ t = [n \in 1..len |-> Comp(x + n - 1)]
  OBVIOUS
<1>7. \A n \in 1..len : t[n] = Val(picture, j, c, x + n - 1) /\ t[n] \in Byte
  <2>1. ASSUME NEW n \in 1..len PROVE t[n] = Val(picture, j, c, x + n - 1) /\ t[n] \in Byte
    <3>1. x + n - 1 \in 0..(width - 1)
      BY <1>3, <1>4
    <3>2. t[n] = Val(picture, j, c, x + n - 1)
      BY <1>6 DEF Comp, Val
    <3>3. Val(picture, j, c, x + n - 1) \in Byte
      BY <1>3, <3>1, OwnPicture DEF SizeInv
    <3> QED
      BY <3>2, <3>3
  <2> QED
    BY <2>1
<1>8. t \in Seq(Byte) /\ Len(t) = len
  <2>1. t \in [1..len -> Byte] /\ len \in Nat
    BY <1>4, <1>6, <1>7
  <2> QED
    BY <2>1, IsSequence
<1>9. s \in Seq(Byte) /\ Len(s) = 1 /\ s[1] = len
  BY <1>5, <1>6
<1>10. PICK b : b = bytes \o s
  OBVIOUS
<1>11. /\ b \in Seq(Byte) /\ Len(b) = Len(bytes) + 1 /\ Len(bytes) \in Nat
       /\ \A n \in 1..Len(bytes) : b[n] = bytes[n]
       /\ \A n \in 1..1 : b[Len(bytes) + n] = s[n]
  <2>1. Adds(bytes, s, 1, b)
    BY <1>3, <1>9, <1>10, Added
  <2> QED
    BY <2>1 DEF Adds
<1>12. bytes' = b \o t
  BY <1>2, <1>5, <1>6, <1>10
<1>13. /\ bytes' \in Seq(Byte) /\ Len(bytes') = Len(b) + len
       /\ \A n \in 1..Len(b) : bytes'[n] = b[n]
       /\ \A n \in 1..len : bytes'[Len(b) + n] = t[n]
  <2>1. Adds(b, t, len, bytes')
    BY <1>8, <1>11, <1>12, Added
  <2> QED
    BY <2>1 DEF Adds
<1>14. Extends(bytes, bytes')
  BY <1>3, <1>4, <1>11, <1>13 DEF Extends
<1>15. bytes'[Len(bytes) + 1] = len
  <2>1. b[Len(bytes) + 1] = len /\ Len(bytes) + 1 \in 1..Len(b)
    BY <1>9, <1>11
  <2> QED
    BY <1>13, <2>1
<1>16. ASSUME NEW m \in 0..(len - 1)
       PROVE  bytes'[Len(bytes) + 2 + m] = Val(picture, j, c, x + m)
  <2>1. /\ m + 1 \in 1..len /\ Len(b) + (m + 1) = Len(bytes) + 2 + m
        /\ x + (m + 1) - 1 = x + m
    BY <1>3, <1>4, <1>11
  <2> QED
    BY <1>7, <1>13, <2>1
<1> QED
  BY <1>2, <1>4, <1>11, <1>13, <1>14, <1>15, <1>16

LEMMA RunIs ==
  ASSUME SizeInv, Run, x < r
  PROVE  \E len \in 1..(Top - 1) :
           /\ x' = x + len /\ x + len <= r /\ x + len <= width /\ pc' = "run"
           /\ Extends(bytes, bytes') /\ Len(bytes') = Len(bytes) + 2
           /\ bytes'[Len(bytes) + 1] = len + Top
           /\ \A m \in 0..(len - 1) :
                bytes'[Len(bytes) + 2] = Val(picture, j, c, x + m)
<1>1. PICK len : len = IF r - x > MaxRun THEN MaxRun ELSE r - x
  OBVIOUS
<1>2. /\ bytes' = bytes \o <<LengthByte(len + Top), Comp(x)>>
      /\ x' = x + len /\ pc = "run" /\ pc' = "run"
  BY <1>1 DEF Run
<1>3. /\ r \in x..width /\ x \in 0..width /\ width \in Nat /\ c \in Channels
      /\ j \in 0..(height - 1) /\ picture # <<>> /\ bytes \in Seq(Byte)
      /\ \A n \in x..(r - 1) : Val(picture, j, c, n) = Val(picture, j, c, x)
  BY <1>2 DEF SizeInv, FileInv, WriterInv, Writing, InRle
<1>4. len \in 1..(Top - 1) /\ x + len <= r /\ x + len <= width
  BY <1>1, <1>3, TopFacts DEF MaxRun
<1>5. len + Top \in Byte /\ LengthByte(len + Top) = len + Top
  <2>1. len + Top \in 0..(2 * Top - 1)
    BY <1>4, TopFacts
  <2> QED
    BY <2>1, LengthByteIs DEF Byte
<1>6. Comp(x) = Val(picture, j, c, x) /\ Comp(x) \in Byte
  <2>1. x \in 0..(width - 1)
    BY <1>3
  <2> QED
    BY <1>3, <2>1, OwnPicture DEF SizeInv, Comp, Val
<1>7. PICK s : s = <<len + Top, Comp(x)>>
  OBVIOUS
<1>8. s \in Seq(Byte) /\ Len(s) = 2 /\ s[1] = len + Top /\ s[2] = Val(picture, j, c, x)
  BY <1>5, <1>6, <1>7
<1>9. bytes' = bytes \o s
  BY <1>2, <1>5, <1>7
<1>10. /\ bytes' \in Seq(Byte) /\ Len(bytes') = Len(bytes) + 2 /\ Len(bytes) \in Nat
       /\ \A n \in 1..Len(bytes) : bytes'[n] = bytes[n]
       /\ \A n \in 1..2 : bytes'[Len(bytes) + n] = s[n]
  <2>1. Adds(bytes, s, 2, bytes')
    BY <1>3, <1>8, <1>9, Added
  <2> QED
    BY <2>1 DEF Adds
<1>11. \A m \in 0..(len - 1) : Val(picture, j, c, x) = Val(picture, j, c, x + m)
  <2>1. \A m \in 0..(len - 1) : x + m \in x..(r - 1)
    BY <1>3, <1>4
  <2> QED
    BY <1>3, <2>1
<1>12. bytes'[Len(bytes) + 1] = len + Top /\ bytes'[Len(bytes) + 2] = Val(picture, j, c, x)
  BY <1>8, <1>10
<1>13. Extends(bytes, bytes')
  BY <1>3, <1>10 DEF Extends
<1> QED
  BY <1>2, <1>4, <1>10, <1>11, <1>12, <1>13

-----------------------------------------------------------------------------
(* Sizes: the file is bytes, and the reader stays within its scanline.     *)

LEMMA NextScanlineIs ==
  ASSUME PictureInv, picture # <<>>, j \in 0..(height - 1), NextScanline
  PROVE  /\ j' \in 0..(height - 1)
         /\ \/ j + 1 < height /\ j' = j + 1 /\ pc' = "scanline"
            \/ j + 1 = height /\ j' = 0 /\ pc' = "row"
<1>1. height \in Nat \ {0} /\ j \in Nat
  BY OwnPicture
<1>2. j' = (j + 1) % height /\ pc' = IF j + 1 < height THEN "scanline" ELSE "row"
  BY DEF NextScanline
<1>3. CASE j + 1 < height
  <2>1. /\ j + 1 \in Nat /\ 0 \in Nat /\ j + 1 \in 0..(height - 1)
        /\ j + 1 = 0 * height + (j + 1)
    BY <1>1, <1>3
  <2>2. (j + 1) % height = j + 1
    BY <1>1, <2>1, DivUnique
  <2> QED
    BY <1>2, <1>3, <2>1, <2>2
<1>4. CASE ~(j + 1 < height)
  <2>1. j + 1 = height /\ 0 \in 0..(height - 1)
    BY <1>1, <1>4
  <2>2. j + 1 \in Nat /\ 1 \in Nat /\ j + 1 = 1 * height + 0
    BY <1>1, <2>1
  <2>3. (j + 1) % height = 0
    BY <1>1, <2>1, <2>2, DivUnique
  <2> QED
    BY <1>2, <1>4, <2>1, <2>3
<1> QED
  BY <1>3, <1>4

LEMMA PictureStep ==
  ASSUME PictureInv, UNCHANGED size
  PROVE  PictureInv'
  BY DEF PictureInv, size

LEMMA GetIsByte ==
  ASSUME FileInv, NEW n \in Nat \ {0}
  PROVE  get8(n) \in 0..(2 * Top - 1)
<1>1. at \in 0..Len(bytes) /\ bytes \in [1..Len(bytes) -> Byte] /\ Len(bytes) \in Nat
  BY LenProperties DEF FileInv
<1>2. CASE at + n <= Len(bytes)
  <2>1. at + n \in 1..Len(bytes)
    BY <1>1, <1>2
  <2> QED
    BY <1>1, <1>2, <2>1 DEF get8, Byte
<1>3. CASE ~(at + n <= Len(bytes))
  BY <1>3, TopFacts DEF get8, Byte
<1> QED
  BY <1>2, <1>3

LEMMA PastIs ==
  ASSUME FileInv, NEW n \in Nat, Past(n)
  PROVE  at' \in 0..Len(bytes) /\ (at + n <= Len(bytes) => at' = at + n)
<1>1. at \in 0..Len(bytes) /\ Len(bytes) \in Nat
  BY LenProperties DEF FileInv
<1> QED
  BY <1>1 DEF Past

LEMMA SizeInit == Init => SizeInv
<1> SUFFICES ASSUME Init PROVE SizeInv
  OBVIOUS
<1>1. CASE /\ picture \in Pictures /\ width = Len(picture[1][0]) /\ height = Len(picture)
           /\ bytes = <<>> /\ pc = "scanline"
  <2>1. width \in Nat \ {0} /\ height \in Nat \ {0} /\ picture # <<>>
    <3>1. Len(picture) # 0 /\ Len(<<>>) = 0
      BY <1>1, PictureFacts
    <3> QED
      BY <1>1, <3>1, PictureFacts
  <2>2. PictureInv
    BY <1>1 DEF PictureInv
  <2>3. FileInv
    <3>1. bytes \in Seq(Byte) /\ Len(bytes) = 0
      BY <1>1
    <3> QED
      BY <2>1, <3>1 DEF FileInv, Init
  <2>4. WriterInv
    BY <1>1, <2>1 DEF WriterInv, Writing, InRle, Init
  <2> QED
    BY <2>2, <2>3, <2>4 DEF SizeInv
<1>2. CASE /\ picture = <<>> /\ pc = "row"
           /\ \E f \in Files : width = f.width /\ height = f.height /\ bytes = f.bytes
  <2>1. width \in Nat /\ height \in Nat /\ bytes \in Seq(Byte) /\ Len(bytes) \in Nat
    BY <1>2, RleAssumption, LenProperties
  <2> QED
    BY <1>2, <2>1 DEF SizeInv, PictureInv, FileInv, WriterInv, Writing, InRle, Init
<1> QED
  BY <1>1, <1>2 DEF Init

\* The writer keeps it.
LEMMA SizeWrite ==
  ASSUME SizeInv, Write
  PROVE  SizeInv'
<1>1. pc \in Writing /\ picture # <<>> /\ j \in 0..(height - 1) /\ UNCHANGED <<size, reader>>
  BY DEF SizeInv, WriterInv, Writing, InRle, Write, WriteFlat, WriteHeader, Search, Dump,
         StartRun, Run
<1>2. /\ width \in Nat \ {0} /\ height \in Nat \ {0} /\ width' = width /\ height' = height
      /\ picture' = picture /\ i' = i /\ at' = at
  BY <1>1, OwnPicture DEF SizeInv, size, reader
<1>3. PictureInv'
  BY <1>1, PictureStep DEF SizeInv
<1>4. bytes \in Seq(Byte) /\ Len(bytes) \in Nat /\ at \in 0..Len(bytes) /\ i \in 0..width
  BY LenProperties DEF SizeInv, FileInv
<1>5. ASSUME Extends(bytes, bytes')
      PROVE  FileInv'
  <2>1. bytes' \in Seq(Byte) /\ Len(bytes) <= Len(bytes')
    BY <1>5 DEF Extends
  <2>2. Len(bytes') \in Nat
    BY <2>1, LenProperties
  <2> QED
    BY <1>2, <1>4, <2>1, <2>2 DEF FileInv
<1>6. ASSUME bytes' = bytes PROVE FileInv'
  BY <1>2, <1>4, <1>6 DEF FileInv
<1>7. CASE WriteFlat
  <2>1. bytes' = bytes \o InBytes /\ InBytes \in Seq(Byte) /\ Len(InBytes) = 4 * width
    BY <1>1, <1>7, InBytesIs DEF WriteFlat, SizeInv
  <2>2. Adds(bytes, InBytes, 4 * width, bytes')
    BY <1>4, <2>1, Added
  <2>3. FileInv'
    BY <1>5, <2>2 DEF Adds
  <2>4. j' \in 0..(height - 1) /\ pc' \in {"scanline", "row"}
    BY <1>1, <1>7, NextScanlineIs DEF WriteFlat, SizeInv
  <2> QED
    BY <1>1, <1>2, <1>3, <2>3, <2>4 DEF SizeInv, WriterInv, Writing, InRle
<1>8. CASE WriteHeader
  <2>1. FileInv'
    BY <1>5, <1>8, HeaderIs
  <2>2. WriterInv'
    <3>1. j' = j /\ c' = 0 /\ x' = 0 /\ pc' = "search" /\ ~WritesFlat
      BY <1>8 DEF WriteHeader
    <3>2. ~WritesFlat'
      BY <1>2, <3>1 DEF WritesFlat
    <3> QED
      BY <1>1, <1>2, <3>1, <3>2 DEF WriterInv, Writing, InRle, Channels
  <2> QED
    BY <1>3, <2>1, <2>2 DEF SizeInv
<1>9. ~WritesFlat => ~WritesFlat'
  BY <1>2 DEF WritesFlat
<1>10. pc \in InRle => ~WritesFlat /\ c \in Channels /\ x \in 0..width
  BY DEF SizeInv, WriterInv
<1>11. CASE Search
  <2>1. FileInv'
    BY <1>6, <1>11 DEF Search
  <2>2. ~WritesFlat /\ c \in Channels /\ x \in 0..width /\ pc = "search"
    BY <1>10, <1>11 DEF Search, InRle
  <2>3. CASE x < width
    <3>1. r' = FirstRun /\ pc' = "dump" /\ j' = j /\ c' = c /\ x' = x
      BY <1>11, <2>3 DEF Search
    <3>2. r' \in x..width
      BY <1>2, <2>2, <3>1, FirstRunIs
    <3>3. WriterInv'
      BY <1>1, <1>2, <1>9, <2>2, <3>1, <3>2 DEF WriterInv, Writing, InRle
    <3> QED
      BY <1>3, <2>1, <3>3 DEF SizeInv
  <2>4. CASE ~(x < width)
    <3>1. x' = 0 /\ c' = (c + 1) % 4
      BY <1>11, <2>4 DEF Search
    <3>2. c' \in Channels
      BY <2>2, <3>1 DEF Channels
    <3>3. j' \in 0..(height - 1) /\ pc' \in {"search", "scanline", "row"}
      <4>1. CASE c < 3
        BY <1>1, <1>11, <2>2, <2>4, <4>1 DEF Search
      <4>2. CASE ~(c < 3)
        BY <1>1, <1>11, <2>4, <4>2, NextScanlineIs DEF Search, SizeInv
      <4> QED
        BY <4>1, <4>2
    <3>4. WriterInv'
      BY <1>1, <1>2, <1>9, <2>2, <3>1, <3>2, <3>3 DEF WriterInv, Writing, InRle
    <3> QED
      BY <1>3, <2>1, <3>4 DEF SizeInv
  <2> QED
    BY <2>3, <2>4
<1>12. CASE Dump
  <2>1. PICK len \in 1..Top : /\ x' = x + len /\ x + len <= r /\ x + len <= width
                              /\ Extends(bytes, bytes')
    BY <1>12, DumpIs
  <2>2. FileInv'
    BY <1>5, <2>1
  <2>3. /\ pc = "dump" /\ pc' = pc /\ j' = j /\ c' = c /\ r' = r
        /\ ~WritesFlat /\ c \in Channels /\ x \in 0..width /\ r \in x..width
    BY <1>10, <1>12 DEF Dump, InRle, SizeInv, WriterInv
  <2>4. x' \in 0..width /\ r' \in x'..width
    BY <1>2, <2>1, <2>3, TopFacts
  <2>5. WriterInv'
    BY <1>1, <1>2, <1>9, <2>3, <2>4 DEF WriterInv, Writing, InRle
  <2> QED
    BY <1>3, <2>2, <2>5 DEF SizeInv
<1>13. CASE StartRun
  <2>1. FileInv'
    BY <1>6, <1>13 DEF StartRun
  <2>2. /\ pc = "dump" /\ j' = j /\ c' = c /\ x' = x
        /\ ~WritesFlat /\ c \in Channels /\ x \in 0..width
    BY <1>10, <1>13 DEF StartRun, InRle
  <2>3. CASE r + 2 < width
    <3>1. r' = EndOfRun /\ pc' = "run"
      BY <1>13, <2>3 DEF StartRun
    <3>2. r' \in x..width /\ \A m \in x..(r' - 1) : Comp(m) = Comp(x)
      BY <1>2, <2>2, <3>1, EndOfRunIs
    <3>3. \A n \in x'..(r' - 1) :
            Val(picture', j', c', n) = Val(picture', j', c', x')
      BY <1>2, <2>2, <3>2 DEF Comp, Val
    <3>4. WriterInv'
      BY <1>1, <1>2, <1>9, <2>2, <3>1, <3>2, <3>3 DEF WriterInv, Writing, InRle
    <3> QED
      BY <1>3, <2>1, <3>4 DEF SizeInv
  <2>4. CASE ~(r + 2 < width)
    <3>1. pc' = "search"
      BY <1>13, <2>4 DEF StartRun
    <3>2. WriterInv'
      BY <1>1, <1>2, <1>9, <2>2, <3>1 DEF WriterInv, Writing, InRle
    <3> QED
      BY <1>3, <2>1, <3>2 DEF SizeInv
  <2> QED
    BY <2>3, <2>4
<1>14. CASE Run
  <2>1. /\ pc = "run" /\ j' = j /\ c' = c /\ r' = r
        /\ ~WritesFlat /\ c \in Channels /\ x \in 0..width /\ r \in x..width
        /\ \A n \in x..(r - 1) : Val(picture, j, c, n) = Val(picture, j, c, x)
    BY <1>10, <1>14 DEF Run, InRle, SizeInv, WriterInv
  <2>2. CASE x < r
    <3>1. PICK len \in 1..(Top - 1) :
            /\ x' = x + len /\ x + len <= r /\ x + len <= width /\ pc' = "run"
            /\ Extends(bytes, bytes')
      BY <1>14, <2>2, RunIs
    <3>2. FileInv'
      BY <1>5, <3>1
    <3>3. x' \in 0..width /\ r' \in x'..width
      BY <1>2, <2>1, <3>1, TopFacts
    <3>4. \A n \in x'..(r' - 1) : Val(picture', j', c', n) = Val(picture', j', c', x')
      <4>1. ASSUME NEW n \in x'..(r' - 1)
            PROVE  Val(picture, j, c, n) = Val(picture, j, c, x')
        <5>1. n \in x..(r - 1) /\ x' \in x..(r - 1)
          BY <2>1, <3>1, <3>3, TopFacts
        <5> QED
          BY <2>1, <5>1
      <4> QED
        BY <1>2, <2>1, <4>1
    <3>5. WriterInv'
      BY <1>1, <1>2, <1>9, <2>1, <3>1, <3>3, <3>4 DEF WriterInv, Writing, InRle
    <3> QED
      BY <1>3, <3>2, <3>5 DEF SizeInv
  <2>3. CASE ~(x < r)
    <3>1. pc' = "search" /\ x' = x /\ bytes' = bytes
      BY <1>14, <2>3 DEF Run
    <3>2. WriterInv'
      BY <1>1, <1>2, <1>9, <2>1, <3>1 DEF WriterInv, Writing, InRle
    <3> QED
      BY <1>3, <1>6, <3>1, <3>2 DEF SizeInv
  <2> QED
    BY <2>2, <2>3
<1> QED
  BY <1>7, <1>8, <1>11, <1>12, <1>13, <1>14 DEF Write

\* The reader keeps it, whatever it reads.
LEMMA SizeLoad ==
  ASSUME SizeInv, Load
  PROVE  SizeInv'
<1>1. UNCHANGED <<size, writer>> /\ pc' \in {"row", "count", "flat", "loaded", "failed"}
  BY DEF Load, ReadRow, ReadFlat, ReadCount, EndOfChannel, NotRle, NextRow
<1>2. PictureInv' /\ WriterInv'
  BY <1>1, PictureStep DEF SizeInv, WriterInv, Writing, InRle
<1>3. width \in Nat /\ height \in Nat /\ bytes \in Seq(Byte) /\ Len(bytes) \in Nat
      /\ i \in 0..width /\ at \in 0..Len(bytes)
      /\ width' = width /\ height' = height /\ bytes' = bytes
  BY <1>1, LenProperties DEF SizeInv, FileInv, size, writer
<1>4. i' \in 0..width /\ at' \in 0..Len(bytes)
  <2>1. CASE ReadRow
    <3>1. CASE ReadsFlat
      BY <1>3, <2>1, <3>1 DEF ReadRow
    <3>2. CASE ~ReadsFlat /\ ~IsRle
      <4>1. Past(4) /\ i' = 1
        BY <2>1, <3>2 DEF ReadRow, NotRle
      <4>2. 1 \in 0..width
        BY <1>3, <3>2, TopFacts DEF ReadsFlat
      <4> QED
        BY <4>1, <4>2, PastIs DEF SizeInv
    <3>3. CASE ~ReadsFlat /\ IsRle
      <4>1. Past(4) /\ i' = 0
        BY <2>1, <3>3 DEF ReadRow
      <4> QED
        BY <1>3, <4>1, PastIs DEF SizeInv
    <3> QED
      BY <3>1, <3>2, <3>3
  <2>2. CASE ReadFlat
    <3>1. CASE i < width
      <4>1. Past(4) /\ i' = i + 1
        BY <2>2, <3>1 DEF ReadFlat
      <4> QED
        BY <1>3, <3>1, <4>1, PastIs DEF SizeInv
    <3>2. CASE ~(i < width)
      BY <1>3, <2>2, <3>2 DEF ReadFlat
    <3> QED
      BY <3>1, <3>2
  <2>3. CASE ReadCount
    <3>1. PICK count : count = IF get8(1) > Top THEN get8(1) - Top ELSE get8(1)
      OBVIOUS
    <3>2. get8(1) \in 0..(2 * Top - 1)
      BY GetIsByte DEF SizeInv
    <3>3. count \in Nat
      BY <3>1, <3>2, TopFacts
    <3>4. CASE ~CountFits(count)
      <4>1. i' = i /\ (Past(1) \/ Past(2))
        BY <2>3, <3>1, <3>4 DEF ReadCount
      <4> QED
        BY <1>3, <4>1, PastIs DEF SizeInv
    <3>5. CASE CountFits(count)
      <4>1. i' = i + count /\ (Past(2) \/ Past(count + 1))
        BY <2>3, <3>1, <3>5 DEF ReadCount
      <4>2. i + count \in 0..width
        BY <1>3, <3>3, <3>5 DEF CountFits, nleft
      <4>3. count + 1 \in Nat
        BY <3>3
      <4> QED
        BY <1>3, <4>1, <4>2, <4>3, PastIs DEF SizeInv
    <3> QED
      BY <3>4, <3>5
  <2>4. CASE EndOfChannel
    BY <1>3, <2>4 DEF EndOfChannel
  <2> QED
    BY <2>1, <2>2, <2>3, <2>4 DEF Load
<1>5. FileInv'
  BY <1>3, <1>4 DEF FileInv
<1> QED
  BY <1>2, <1>5 DEF SizeInv

LEMMA SizeStep == SizeInv /\ [Next]_vars => SizeInv'
<1>1. ASSUME SizeInv, UNCHANGED vars PROVE SizeInv'
  <2>1. /\ picture' = picture /\ width' = width /\ height' = height /\ bytes' = bytes
        /\ i' = i /\ at' = at /\ pc' = pc /\ j' = j /\ c' = c /\ x' = x /\ r' = r
    BY <1>1 DEF vars, size, writer, reader
  <2>2. PictureInv' /\ FileInv' /\ WriterInv'
    BY <1>1, <2>1 DEF SizeInv, PictureInv, FileInv, WriterInv, WritesFlat
  <2> QED
    BY <2>2 DEF SizeInv
<1> QED
  BY <1>1, SizeWrite, SizeLoad DEF Next

LEMMA AlwaysSize == Spec => []SizeInv
  BY SizeInit, SizeStep, PTL DEF Spec

\* Whatever the file says, the counts in it never take the reader beyond the
\* end of its scanline: HdrRle!InScanline for every file there is.
THEOREM AlwaysInScanline == Spec => []InScanline
<1>1. SizeInv => InScanline
  BY DEF SizeInv, FileInv, InScanline
<1> QED
  BY <1>1, AlwaysSize, PTL

-----------------------------------------------------------------------------
(* The file as it is read: a point <<k, d, n, a>> says that column n of    *)
(* channel d of scanline k is what byte a begins to tell, and              *)
(* <<k, -1, 0, a>> that the header of scanline k is there.                 *)

\* From there len columns are dumped, or are one run.
IsDump(p, b, k, d, n, a, len) ==
  /\ len \in 1..Top /\ n + len <= Len(p[1][0]) /\ a + 1 + len <= Len(b)
  /\ b[a + 1] = len
  /\ \A m \in 0..(len - 1) : b[a + 2 + m] = Val(p, k, d, n + m)

IsRun(p, b, k, d, n, a, len) ==
  /\ len \in 1..(Top - 1) /\ n + len <= Len(p[1][0]) /\ a + 2 <= Len(b)
  /\ b[a + 1] = len + Top
  /\ \A m \in 0..(len - 1) : b[a + 2] = Val(p, k, d, n + m)

IsHeader(p, b, a) ==
  /\ a + 4 <= Len(b) /\ b[a + 1] = 2 /\ b[a + 2] = 2
  /\ b[a + 3] = Len(p[1][0]) \div (2 * Top) /\ b[a + 4] = Len(p[1][0]) % (2 * Top)

\* Reading on from a point of E comes to a point of E.
Leads(p, b, E, k, d, n, a) ==
  /\ k \in 0..(Len(p) - 1)
  /\ \/ d = -1 /\ IsHeader(p, b, a) /\ <<k, 0, 0, a + 4>> \in E
     \/ d \in Channels /\ n < Len(p[1][0]) /\ \E len \in 1..Top :
          \/ IsDump(p, b, k, d, n, a, len) /\ <<k, d, n + len, a + 1 + len>> \in E
          \/ IsRun(p, b, k, d, n, a, len) /\ <<k, d, n + len, a + 2>> \in E
     \/ d \in 0..2 /\ n = Len(p[1][0]) /\ <<k, d + 1, 0, a>> \in E
     \/ d = 3 /\ n = Len(p[1][0]) /\ <<k + 1, -1, 0, a>> \in E

\* So does reading on from each, up to the point f.
Chain(p, b, E, f) ==
  /\ <<0, -1, 0, 0>> \in E /\ f \in E
  /\ \A k, d, n, a : <<k, d, n, a>> \in E =>
       /\ k \in 0..Len(p) /\ d \in -1..3 /\ n \in 0..Len(p[1][0]) /\ a \in 0..Len(b)
       /\ <<k, d, n, a>> = f \/ Leads(p, b, E, k, d, n, a)

LEMMA LeadsOn ==
  ASSUME NEW p \in Pictures, NEW b, NEW b2, Extends(b, b2), NEW E, NEW E2, E \subseteq E2,
         NEW k, NEW d \in -1..3, NEW n \in 0..Len(p[1][0]), NEW a \in 0..Len(b),
         Leads(p, b, E, k, d, n, a)
  PROVE  Leads(p, b2, E2, k, d, n, a)
<1>1. /\ Len(b) \in Nat /\ Len(b2) \in Nat /\ Len(b) <= Len(b2) /\ a \in Nat
      /\ \A m \in 1..Len(b) : b2[m] = b[m]
  BY LenProperties DEF Extends
<1>2. Len(p[1][0]) \in Nat
  BY PictureFacts
<1>3. ASSUME IsHeader(p, b, a) PROVE IsHeader(p, b2, a)
  <2>1. a + 4 <= Len(b) /\ \A m \in {1, 2, 3, 4} : a + m \in 1..Len(b)
    BY <1>1, <1>3 DEF IsHeader
  <2>2. \A m \in {1, 2, 3, 4} : b2[a + m] = b[a + m]
    BY <1>1, <2>1
  <2>3. a + 4 <= Len(b2)
    BY <1>1, <2>1
  <2> QED
    BY <1>3, <2>2, <2>3 DEF IsHeader
<1>4. ASSUME NEW len \in 1..Top, IsDump(p, b, k, d, n, a, len)
      PROVE  IsDump(p, b2, k, d, n, a, len)
  <2>1. a + 1 + len <= Len(b) /\ len \in Nat /\ a + 1 \in 1..Len(b)
    BY <1>1, <1>4, TopFacts DEF IsDump
  <2>2. \A m \in 0..(len - 1) : a + 2 + m \in 1..Len(b)
    BY <1>1, <2>1
  <2>3. a + 1 + len <= Len(b2)
    BY <1>1, <2>1
  <2>4. b2[a + 1] = b[a + 1] /\ \A m \in 0..(len - 1) : b2[a + 2 + m] = b[a + 2 + m]
    BY <1>1, <2>1, <2>2
  <2> QED
    BY <1>4, <2>3, <2>4 DEF IsDump
<1>5. ASSUME NEW len \in 1..Top, IsRun(p, b, k, d, n, a, len)
      PROVE  IsRun(p, b2, k, d, n, a, len)
  <2>1. a + 2 <= Len(b) /\ a + 1 \in 1..Len(b) /\ a + 2 \in 1..Len(b)
    BY <1>1, <1>5 DEF IsRun
  <2>2. a + 2 <= Len(b2) /\ b2[a + 1] = b[a + 1] /\ b2[a + 2] = b[a + 2]
    BY <1>1, <2>1
  <2> QED
    BY <1>5, <2>2 DEF IsRun
<1>6. k \in 0..(Len(p) - 1)
  BY DEF Leads
<1>7. CASE d = -1 /\ IsHeader(p, b, a) /\ <<k, 0, 0, a + 4>> \in E
  BY <1>3, <1>6, <1>7 DEF Leads
<1>8. CASE d \in Channels /\ n < Len(p[1][0]) /\ \E len \in 1..Top :
             \/ IsDump(p, b, k, d, n, a, len) /\ <<k, d, n + len, a + 1 + len>> \in E
             \/ IsRun(p, b, k, d, n, a, len) /\ <<k, d, n + len, a + 2>> \in E
  <2>1. PICK len \in 1..Top :
             \/ IsDump(p, b, k, d, n, a, len) /\ <<k, d, n + len, a + 1 + len>> \in E
             \/ IsRun(p, b, k, d, n, a, len) /\ <<k, d, n + len, a + 2>> \in E
    BY <1>8
  <2>2. \/ IsDump(p, b2, k, d, n, a, len) /\ <<k, d, n + len, a + 1 + len>> \in E2
        \/ IsRun(p, b2, k, d, n, a, len) /\ <<k, d, n + len, a + 2>> \in E2
    BY <1>4, <1>5, <2>1
  <2> QED
    BY <1>6, <1>8, <2>2 DEF Leads
<1>9. CASE d \in 0..2 /\ n = Len(p[1][0]) /\ <<k, d + 1, 0, a>> \in E
  BY <1>6, <1>9 DEF Leads
<1>10. CASE d = 3 /\ n = Len(p[1][0]) /\ <<k + 1, -1, 0, a>> \in E
  BY <1>6, <1>10 DEF Leads
<1> QED
  BY <1>7, <1>8, <1>9, <1>10 DEF Leads

\* The chain goes on to a point that its last one leads to.
LEMMA ChainOn ==
  ASSUME NEW p \in Pictures, NEW b, NEW b2, Extends(b, b2), NEW E,
         NEW k, NEW d, NEW n, NEW a, Chain(p, b, E, <<k, d, n, a>>),
         NEW k2 \in 0..Len(p), NEW d2 \in -1..3, NEW n2 \in 0..Len(p[1][0]), NEW a2 \in 0..Len(b2),
         Leads(p, b2, E \union {<<k2, d2, n2, a2>>}, k, d, n, a)
  PROVE  Chain(p, b2, E \union {<<k2, d2, n2, a2>>}, <<k2, d2, n2, a2>>)
<1>1. PICK E2, f2 : f2 = <<k2, d2, n2, a2>> /\ E2 = E \union {f2}
  OBVIOUS
<1>2. <<0, -1, 0, 0>> \in E2 /\ f2 \in E2 /\ E \subseteq E2
  BY <1>1 DEF Chain
<1>3. Len(b) \in Nat /\ Len(b2) \in Nat /\ Len(b) <= Len(b2)
  BY LenProperties DEF Extends
<1>4. ASSUME NEW k3, NEW d3, NEW n3, NEW a3, <<k3, d3, n3, a3>> \in E2
      PROVE  /\ k3 \in 0..Len(p) /\ d3 \in -1..3 /\ n3 \in 0..Len(p[1][0]) /\ a3 \in 0..Len(b2)
             /\ <<k3, d3, n3, a3>> = f2 \/ Leads(p, b2, E2, k3, d3, n3, a3)
  <2>1. CASE <<k3, d3, n3, a3>> = f2
    <3>1. k3 = k2 /\ d3 = d2 /\ n3 = n2 /\ a3 = a2
      BY <1>1, <2>1
    <3> QED
      BY <2>1, <3>1
  <2>2. CASE <<k3, d3, n3, a3>> \in E
    <3>1. /\ k3 \in 0..Len(p) /\ d3 \in -1..3 /\ n3 \in 0..Len(p[1][0]) /\ a3 \in 0..Len(b)
          /\ <<k3, d3, n3, a3>> = <<k, d, n, a>> \/ Leads(p, b, E, k3, d3, n3, a3)
      BY <2>2 DEF Chain
    <3>2. a3 \in 0..Len(b2)
      BY <1>3, <3>1
    <3>3. CASE <<k3, d3, n3, a3>> = <<k, d, n, a>>
      <4>1. k3 = k /\ d3 = d /\ n3 = n /\ a3 = a
        BY <3>3
      <4> QED
        BY <1>1, <3>1, <3>2, <4>1
    <3>4. CASE Leads(p, b, E, k3, d3, n3, a3)
      <4>1. Leads(p, b2, E2, k3, d3, n3, a3)
        BY <1>2, <3>1, <3>4, LeadsOn
      <4> QED
        BY <3>1, <3>2, <4>1
    <3> QED
      BY <3>1, <3>3, <3>4
  <2> QED
    BY <1>1, <1>4, <2>1, <2>2
<1> QED
  BY <1>1, <1>2, <1>4 DEF Chain

-----------------------------------------------------------------------------
(* What is true of a written file, and of what was read of it.             *)

\* Up to where the file is made, and from where it is read.
Frontier ==
  IF pc = "scanline" THEN <<j, -1, 0, Len(bytes)>>
  ELSE IF pc \in InRle THEN <<j, c, x, Len(bytes)>>
  ELSE <<height, -1, 0, Len(bytes)>>
Place ==
  IF pc = "row" THEN <<j, -1, 0, at>>
  ELSE IF pc = "count" THEN <<j, c, i, at>>
  ELSE <<0, -1, 0, 0>>

Shape ==
  /\ DOMAIN hdr_data = 0..(height - 1) /\ DOMAIN scanline = Channels
  /\ \A k \in 0..(height - 1) : DOMAIN hdr_data[k] = 0..(width - 1)
  /\ \A d \in Channels : DOMAIN scanline[d] = 0..(width - 1)

Pixel(p, k, n) == [d \in Channels |-> Val(p, k, d, n)]

\* The first rows are those of the picture.
RowsRight(rows) ==
  \A k \in 0..(rows - 1), n \in 0..(width - 1) : hdr_data[k][n] = Pixel(picture, k, n)

\* So is what was read of the scanline.
ScanlineRight ==
  \A d \in Channels, n \in 0..(width - 1) :
    d < c \/ (d = c /\ n < i) => scanline[d][n] = Val(picture, j, d, n)

RleInv ==
  /\ pc \notin {"flat", "failed"}
  /\ pc \in Writing => at = 0
  /\ pc \in {"row", "count"} => j \in 0..(height - 1) /\ RowsRight(j)
  /\ pc = "count" => c \in Channels /\ ScanlineRight
  /\ pc = "loaded" => at = Len(bytes) /\ RowsRight(height)
  /\ \E E : Chain(picture, bytes, E, Frontier) /\ Place \in E

\* The first rows of the picture, flat, are all of file b.
IsFlat(p, b, rows) ==
  /\ Len(b) = 4 * (rows * Len(p[1][0]))
  /\ \A k \in 0..(rows - 1), n \in 0..(Len(p[1][0]) - 1), d \in Channels :
       b[4 * (k * Len(p[1][0]) + n) + d + 1] = Val(p, k, d, n)

FlatInv ==
  /\ pc \in {"scanline", "row", "flat", "loaded"}
  /\ pc = "scanline" => IsFlat(picture, bytes, j)
  /\ pc # "scanline" => IsFlat(picture, bytes, height)
  /\ pc \in {"scanline", "row"} => at = 0
  /\ pc = "row" => j = 0
  /\ pc = "flat" => /\ j \in 0..(height - 1) /\ at = 4 * (j * width + i) /\ RowsRight(j)
                    /\ \A n \in 0..(i - 1) : hdr_data[j][n] = Pixel(picture, j, n)
  /\ pc = "loaded" => at = Len(bytes) /\ RowsRight(height)

BackInv == picture # <<>> => Shape /\ (IF WritesFlat THEN FlatInv ELSE RleInv)

LEMMA BackInit == Init => BackInv
<1> SUFFICES ASSUME Init, picture # <<>>
             PROVE  Shape /\ (IF WritesFlat THEN FlatInv ELSE RleInv)
  BY DEF BackInv
<1>1. /\ bytes = <<>> /\ pc = "scanline" /\ j = 0 /\ at = 0 /\ picture \in Pictures
      /\ Len(bytes) = 0
  BY DEF Init
<1>2. Shape
  BY DEF Init, Shape, Unset
<1>3. FlatInv
  <2>1. PICK w : w = Len(picture[1][0])
    OBVIOUS
  <2>2. w \in Nat
    BY <1>1, <2>1, PictureFacts
  <2>3. 4 * (0 * w) = 0 /\ 0..(0 - 1) = {}
    BY <2>2
  <2>4. IsFlat(picture, bytes, 0)
    BY <1>1, <2>1, <2>3 DEF IsFlat
  <2> QED
    BY <1>1, <2>4 DEF FlatInv
<1>4. RleInv
  <2>1. PICK p0 : p0 = <<0, -1, 0, 0>>
    OBVIOUS
  <2>2. Frontier = p0 /\ Place = p0
    BY <1>1, <2>1 DEF Frontier, Place
  <2>3. Chain(picture, bytes, {p0}, p0)
    <3>1. /\ 0 \in 0..Len(picture) /\ -1 \in -1..3 /\ 0 \in 0..Len(picture[1][0])
          /\ 0 \in 0..Len(bytes)
      BY <1>1, PictureFacts
    <3>2. ASSUME NEW k, NEW d, NEW n, NEW a, <<k, d, n, a>> \in {p0}
          PROVE  k = 0 /\ d = -1 /\ n = 0 /\ a = 0 /\ <<k, d, n, a>> = p0
      BY <2>1, <3>2
    <3> QED
      BY <2>1, <3>1, <3>2 DEF Chain
  <2>4. \E E : Chain(picture, bytes, E, Frontier) /\ Place \in E
    BY <2>2, <2>3
  <2> QED
    BY <1>1, <2>4 DEF RleInv
<1> QED
  BY <1>2, <1>3, <1>4

LEMMA SameFile ==
  ASSUME bytes \in Seq(Byte)
  PROVE  Extends(bytes, bytes)
<1>1. Len(bytes) \in Nat
  BY LenProperties
<1> QED
  BY <1>1 DEF Extends

\* What is left to show of a step of the writer.
LEMMA WriterKeeps ==
  ASSUME RleInv, picture # <<>>, UNCHANGED <<size, reader>>, pc \in Writing,
         pc' \in Writing \union {"row"}, j' \in 0..(height - 1), pc' = "row" => j' = 0,
         \E E : Chain(picture, bytes', E, Frontier')
  PROVE  RleInv'
<1>1. /\ at' = 0 /\ picture' = picture /\ width' = width /\ height' = height
      /\ hdr_data' = hdr_data
  BY DEF RleInv, size, reader
<1>2. pc' = "row" => RowsRight(j)'
  <2>1. 0..(0 - 1) = {}
    OBVIOUS
  <2> QED
    BY <2>1 DEF RowsRight
<1>3. Place' = <<0, -1, 0, 0>>
  BY <1>1 DEF Place, Writing
<1>4. \E E : Chain(picture', bytes', E, Frontier') /\ Place' \in E
  BY <1>1, <1>3 DEF Chain
<1> QED
  BY <1>1, <1>2, <1>4 DEF RleInv, Writing

LEMMA RleWrite ==
  ASSUME SizeInv, RleInv, picture # <<>>, ~WritesFlat, Write
  PROVE  RleInv'
<1>1. pc \in Writing /\ j \in 0..(height - 1) /\ UNCHANGED <<size, reader>> /\ ~WriteFlat
  BY DEF SizeInv, WriterInv, Writing, InRle, Write, WriteFlat, WriteHeader, Search, Dump,
         StartRun, Run
<1>2. /\ picture \in Pictures /\ width = Len(picture[1][0]) /\ height = Len(picture)
      /\ width \in Nat \ {0} /\ height \in Nat \ {0}
      /\ picture' = picture /\ height' = height
  BY <1>1, OwnPicture DEF SizeInv, PictureInv, size
<1>3. bytes \in Seq(Byte) /\ Len(bytes) \in Nat /\ Extends(bytes, bytes)
  BY LenProperties, SameFile DEF SizeInv, FileInv
<1>4. PICK E : Chain(picture, bytes, E, Frontier)
  BY DEF RleInv
<1>5. pc \in InRle => c \in Channels /\ x \in 0..width
  BY DEF SizeInv, WriterInv
\* A step that adds nothing to the file.
<1>6. ASSUME pc \in InRle, pc' \in InRle, j' = j, c' = c, x' = x, bytes' = bytes
      PROVE  RleInv'
  <2>1. Frontier' = Frontier
    BY <1>6 DEF Frontier, InRle
  <2>2. Chain(picture, bytes', E, Frontier')
    BY <1>4, <1>6, <2>1
  <2>3. pc' \in Writing /\ pc' # "row" /\ j' \in 0..(height - 1)
    BY <1>1, <1>6 DEF InRle, Writing
  <2> QED
    BY <1>1, <2>2, <2>3, WriterKeeps
<1>7. CASE WriteHeader
  <2>1. pc = "scanline" /\ pc' = "search" /\ c' = 0 /\ x' = 0 /\ j' = j
    BY <1>7 DEF WriteHeader
  <2>2. Frontier = <<j, -1, 0, Len(bytes)>> /\ Frontier' = <<j, 0, 0, Len(bytes) + 4>>
    BY <1>7, <2>1, HeaderIs DEF Frontier, InRle
  <2>3. PICK E2 : E2 = E \union {<<j, 0, 0, Len(bytes) + 4>>}
    OBVIOUS
  <2>4. Extends(bytes, bytes') /\ IsHeader(picture, bytes', Len(bytes))
    BY <1>2, <1>3, <1>7, HeaderIs DEF IsHeader
  <2>5. /\ j \in 0..Len(picture) /\ 0 \in -1..3 /\ 0 \in 0..Len(picture[1][0])
        /\ Len(bytes) + 4 \in 0..Len(bytes')
    BY <1>1, <1>2, <1>3, <1>7, HeaderIs
  <2>6. Leads(picture, bytes', E2, j, -1, 0, Len(bytes))
    BY <1>1, <1>2, <2>3, <2>4 DEF Leads
  <2>7. Chain(picture, bytes', E2, <<j, 0, 0, Len(bytes) + 4>>)
    BY <1>2, <1>4, <2>2, <2>3, <2>4, <2>5, <2>6, ChainOn
  <2>8. pc' \in Writing /\ pc' # "row" /\ j' \in 0..(height - 1)
    BY <1>1, <2>1 DEF Writing
  <2> QED
    BY <1>1, <2>2, <2>7, <2>8, WriterKeeps
<1>8. CASE Search
  <2>1. pc = "search" /\ bytes' = bytes /\ pc \in InRle
    BY <1>8 DEF Search, InRle
  <2>2. Frontier = <<j, c, x, Len(bytes)>>
    BY <2>1 DEF Frontier
  <2>3. CASE x < width
    <3>1. pc' \in InRle /\ j' = j /\ c' = c /\ x' = x
      BY <1>8, <2>3 DEF Search, InRle
    <3> QED
      BY <1>6, <2>1, <3>1
  <2>4. CASE ~(x < width) /\ c < 3
    <3>1. x' = 0 /\ c' = (c + 1) % 4 /\ j' = j /\ pc' = "search"
      BY <1>8, <2>4 DEF Search
    <3>2. c' = c + 1 /\ c \in 0..2 /\ x = width
      BY <1>2, <1>5, <2>1, <2>4, <3>1 DEF Channels
    <3>3. Frontier' = <<j, c + 1, 0, Len(bytes)>>
      BY <2>1, <3>1, <3>2 DEF Frontier, InRle
    <3>4. PICK E2 : E2 = E \union {<<j, c + 1, 0, Len(bytes)>>}
      OBVIOUS
    <3>5. Leads(picture, bytes, E2, j, c, x, Len(bytes))
      BY <1>1, <1>2, <3>2, <3>4 DEF Leads
    <3>6. /\ j \in 0..Len(picture) /\ c + 1 \in -1..3 /\ 0 \in 0..Len(picture[1][0])
          /\ Len(bytes) \in 0..Len(bytes)
      BY <1>1, <1>2, <1>3, <3>2
    <3>7. Chain(picture, bytes, E2, <<j, c + 1, 0, Len(bytes)>>)
      BY <1>2, <1>3, <1>4, <2>2, <3>4, <3>5, <3>6, ChainOn
    <3>8. pc' \in Writing /\ pc' # "row" /\ j' \in 0..(height - 1)
      BY <1>1, <3>1 DEF Writing
    <3> QED
      BY <1>1, <2>1, <3>3, <3>7, <3>8, WriterKeeps
  <2>5. CASE ~(x < width) /\ ~(c < 3)
    <3>1. NextScanline
      BY <1>8, <2>5 DEF Search
    <3>2. c = 3 /\ x = width
      BY <1>2, <1>5, <2>1, <2>5 DEF Channels
    <3>3. /\ j' \in 0..(height - 1)
          /\ \/ j + 1 < height /\ j' = j + 1 /\ pc' = "scanline"
             \/ j + 1 = height /\ j' = 0 /\ pc' = "row"
      BY <1>1, <3>1, NextScanlineIs DEF SizeInv
    <3>4. Frontier' = <<j + 1, -1, 0, Len(bytes)>>
      BY <1>2, <2>1, <3>3 DEF Frontier, InRle
    <3>5. PICK E2 : E2 = E \union {<<j + 1, -1, 0, Len(bytes)>>}
      OBVIOUS
    <3>6. Leads(picture, bytes, E2, j, c, x, Len(bytes))
      BY <1>1, <1>2, <3>2, <3>5 DEF Leads
    <3>7. /\ j + 1 \in 0..Len(picture) /\ -1 \in -1..3 /\ 0 \in 0..Len(picture[1][0])
          /\ Len(bytes) \in 0..Len(bytes)
      BY <1>1, <1>2, <1>3
    <3>8. Chain(picture, bytes, E2, <<j + 1, -1, 0, Len(bytes)>>)
      BY <1>2, <1>3, <1>4, <2>2, <3>5, <3>6, <3>7, ChainOn
    <3>9. pc' \in Writing \union {"row"} /\ (pc' = "row" => j' = 0)
      BY <3>3 DEF Writing
    <3> QED
      BY <1>1, <2>1, <3>3, <3>4, <3>8, <3>9, WriterKeeps
  <2> QED
    BY <2>3, <2>4, <2>5
\* A step that adds len columns of the channel, told by what is behind the end.
<1>9. ASSUME pc \in InRle, pc' \in InRle, j' = j, c' = c, Extends(bytes, bytes'),
             NEW len \in 1..Top, x' = x + len, x + len <= width, NEW a, Len(bytes') = a,
             \/ IsDump(picture, bytes', j, c, x, Len(bytes), len) /\ a = Len(bytes) + 1 + len
             \/ IsRun(picture, bytes', j, c, x, Len(bytes), len) /\ a = Len(bytes) + 2
      PROVE  RleInv'
  <2>1. Frontier = <<j, c, x, Len(bytes)>> /\ Frontier' = <<j, c, x + len, a>>
    BY <1>9 DEF Frontier, InRle
  <2>2. PICK E2 : E2 = E \union {<<j, c, x + len, a>>}
    OBVIOUS
  <2>3. c \in Channels /\ x \in 0..width /\ x < width
    BY <1>2, <1>5, <1>9, TopFacts
  <2>4. Leads(picture, bytes', E2, j, c, x, Len(bytes))
    BY <1>1, <1>2, <1>9, <2>2, <2>3 DEF Leads
  <2>5. a \in Nat
    BY <1>9, LenProperties DEF Extends
  <2>6. /\ j \in 0..Len(picture) /\ c \in -1..3 /\ x + len \in 0..Len(picture[1][0])
        /\ a \in 0..Len(bytes')
    BY <1>1, <1>2, <1>9, <2>3, <2>5, TopFacts DEF Channels
  <2>7. Chain(picture, bytes', E2, <<j, c, x + len, a>>)
    BY <1>2, <1>4, <1>9, <2>1, <2>2, <2>4, <2>6, ChainOn
  <2>8. pc' \in Writing /\ pc' # "row" /\ j' \in 0..(height - 1)
    BY <1>1, <1>9 DEF InRle, Writing
  <2> QED
    BY <1>1, <2>1, <2>7, <2>8, WriterKeeps
<1>10. CASE Dump
  <2>1. pc \in InRle /\ pc' \in InRle /\ j' = j /\ c' = c
    BY <1>10 DEF Dump, InRle
  <2>2. PICK len \in 1..Top :
           /\ x' = x + len /\ x + len <= r /\ x + len <= width
           /\ Extends(bytes, bytes') /\ Len(bytes') = Len(bytes) + 1 + len
           /\ bytes'[Len(bytes) + 1] = len
           /\ \A m \in 0..(len - 1) :
                bytes'[Len(bytes) + 2 + m] = Val(picture, j, c, x + m)
    BY <1>10, DumpIs
  <2>3. Len(bytes) + 1 + len <= Len(bytes')
    BY <1>3, <2>2, TopFacts
  <2>4. IsDump(picture, bytes', j, c, x, Len(bytes), len)
    BY <1>2, <2>2, <2>3 DEF IsDump
  <2> QED
    BY <1>9, <2>1, <2>2, <2>4
<1>11. CASE StartRun
  BY <1>6, <1>11 DEF StartRun, InRle
<1>12. CASE Run
  <2>1. pc \in InRle /\ pc' \in InRle /\ j' = j /\ c' = c
    BY <1>12 DEF Run, InRle
  <2>2. CASE x < r
    <3>1. PICK len \in 1..(Top - 1) :
            /\ x' = x + len /\ x + len <= r /\ x + len <= width /\ pc' = "run"
            /\ Extends(bytes, bytes') /\ Len(bytes') = Len(bytes) + 2
            /\ bytes'[Len(bytes) + 1] = len + Top
            /\ \A m \in 0..(len - 1) :
                 bytes'[Len(bytes) + 2] = Val(picture, j, c, x + m)
      BY <1>12, <2>2, RunIs
    <3>2. Len(bytes) + 2 <= Len(bytes') /\ len \in 1..Top
      BY <1>3, <3>1, TopFacts
    <3>3. IsRun(picture, bytes', j, c, x, Len(bytes), len)
      BY <1>2, <3>1, <3>2 DEF IsRun
    <3> QED
      BY <1>9, <2>1, <3>1, <3>2, <3>3
  <2>3. CASE ~(x < r)
    <3>1. x' = x /\ bytes' = bytes
      BY <1>12, <2>3 DEF Run
    <3> QED
      BY <1>6, <2>1, <3>1
  <2> QED
    BY <2>2, <2>3
<1> QED
  BY <1>1, <1>7, <1>8, <1>10, <1>11, <1>12 DEF Write

-----------------------------------------------------------------------------
(* Flat scanlines, written and read.                                       *)

LEMMA NextMultiple ==
  ASSUME NEW n \in Nat, NEW w \in Nat
  PROVE  (n + 1) * w = n * w + w /\ n * w \in Nat
OBVIOUS

LEMMA MultipleBelow ==
  ASSUME NEW m \in Nat, NEW n \in Nat, m < n, NEW w \in Nat
  PROVE  m * w + w <= n * w
<1>1. PICK e \in Nat : n = m + 1 + e
  <2>1. n - m - 1 \in Nat /\ n = m + 1 + (n - m - 1)
    OBVIOUS
  <2> QED
    BY <2>1
<1>2. n * w = m * w + w + e * w
  BY <1>1
<1>3. e * w \in Nat /\ m * w \in Nat
  BY <1>1
<1> QED
  BY ONLY <1>2, <1>3, w \in Nat

LEMMA FlatOn ==
  ASSUME NEW p \in Pictures, NEW rows \in Nat, NEW b, NEW b2, NEW s, IsFlat(p, b, rows),
         Adds(b, s, 4 * Len(p[1][0]), b2),
         \A d \in Channels, n \in 0..(Len(p[1][0]) - 1) : s[4 * n + d + 1] = Val(p, rows, d, n)
  PROVE  IsFlat(p, b2, rows + 1)
<1>1. PICK w, R : w = Len(p[1][0]) /\ R = rows * w
  OBVIOUS
<1>2. w \in Nat /\ R \in Nat /\ (rows + 1) * w = R + w
  <2>1. w \in Nat
    BY <1>1, PictureFacts
  <2> QED
    BY <1>1, <2>1, NextMultiple
<1>3. /\ Len(b) = 4 * R /\ Len(b2) = Len(b) + 4 * w
      /\ \A m \in 1..Len(b) : b2[m] = b[m]
      /\ \A m \in 1..(4 * w) : b2[Len(b) + m] = s[m]
  BY <1>1 DEF IsFlat, Adds
<1>4. Len(b2) = 4 * (R + w)
  BY <1>2, <1>3
<1>5. ASSUME NEW k \in 0..rows, NEW n \in 0..(w - 1), NEW d \in Channels
      PROVE  b2[4 * (k * w + n) + d + 1] = Val(p, k, d, n)
  <2>1. PICK K : K = k * w
    OBVIOUS
  <2>2. K \in Nat /\ d \in 0..3 /\ n \in Nat /\ n <= w - 1
    BY <1>2, <2>1, NextMultiple DEF Channels
  <2>3. CASE k < rows
    <3>1. K + w <= R
      <4>1. k * w + w <= rows * w
        BY <1>2, <2>3, MultipleBelow
      <4> QED
        BY <1>1, <2>1, <4>1
    <3>2. 4 * (K + n) + d + 1 \in 1..(4 * R)
      BY ONLY <1>2, <2>2, <3>1
    <3>3. b2[4 * (K + n) + d + 1] = b[4 * (K + n) + d + 1]
      BY <1>3, <3>2
    <3>4. k \in 0..(rows - 1)
      BY <2>3
    <3>5. b[4 * (K + n) + d + 1] = Val(p, k, d, n)
      BY <1>1, <2>1, <3>4 DEF IsFlat
    <3> QED
      BY <2>1, <3>3, <3>5
  <2>4. CASE k = rows
    <3>1. K = R
      BY <1>1, <2>1, <2>4
    <3>2. PICK m : m = 4 * n + d + 1
      OBVIOUS
    <3>3. m \in 1..(4 * w) /\ 4 * (K + n) + d + 1 = 4 * R + m
      BY ONLY <1>2, <2>2, <3>1, <3>2
    <3>4. b2[Len(b) + m] = s[m]
      BY <1>3, <3>3
    <3>5. s[m] = Val(p, rows, d, n)
      BY <1>1, <3>2
    <3> QED
      BY <1>3, <2>1, <2>4, <3>3, <3>4, <3>5
  <2> QED
    BY <2>3, <2>4
<1>6. (rows + 1) - 1 = rows
  OBVIOUS
<1>7. Len(b2) = 4 * ((rows + 1) * w)
  BY <1>2, <1>4
<1> QED
  BY <1>1, <1>5, <1>6, <1>7 DEF IsFlat

LEMMA FlatWrite ==
  ASSUME SizeInv, FlatInv, picture # <<>>, WritesFlat, Write
  PROVE  FlatInv'
<1>1. WriteFlat /\ pc = "scanline"
  BY DEF FlatInv, Write, WriteFlat, WriteHeader, Search, Dump, StartRun, Run
<1>2. /\ j \in 0..(height - 1) /\ bytes \in Seq(Byte) /\ bytes' = bytes \o InBytes
      /\ UNCHANGED <<size, reader>> /\ at = 0 /\ IsFlat(picture, bytes, j)
  BY <1>1 DEF SizeInv, FileInv, WriterInv, Writing, WriteFlat, FlatInv
<1>3. /\ picture \in Pictures /\ width = Len(picture[1][0]) /\ height = Len(picture)
      /\ height \in Nat \ {0} /\ picture' = picture /\ height' = height /\ at' = at
  BY <1>2, OwnPicture DEF SizeInv, PictureInv, size, reader
<1>4. /\ InBytes \in Seq(Byte) /\ Len(InBytes) = 4 * width
      /\ \A d \in Channels, n \in 0..(width - 1) :
           InBytes[4 * n + d + 1] = Val(picture, j, d, n)
  BY <1>2, InBytesIs DEF SizeInv
<1>5. Adds(bytes, InBytes, 4 * width, bytes')
  BY <1>2, <1>4, Added
<1>6. IsFlat(picture, bytes', j + 1)
  <2>1. j \in Nat
    BY <1>2
  <2> QED
    BY <1>2, <1>3, <1>4, <1>5, <2>1, FlatOn
<1>7. \/ j + 1 < height /\ j' = j + 1 /\ pc' = "scanline"
      \/ j + 1 = height /\ j' = 0 /\ pc' = "row"
  BY <1>1, <1>2, NextScanlineIs DEF SizeInv, WriteFlat
<1>8. CASE j + 1 < height /\ j' = j + 1 /\ pc' = "scanline"
  BY <1>2, <1>3, <1>6, <1>8 DEF FlatInv
<1>9. CASE j + 1 = height /\ j' = 0 /\ pc' = "row"
  BY <1>2, <1>3, <1>6, <1>9 DEF FlatInv
<1> QED
  BY <1>7, <1>8, <1>9

\* The next pixel of a flat file is that of the picture.
LEMMA FlatPixel ==
  ASSUME SizeInv, picture # <<>>, IsFlat(picture, bytes, height), j \in 0..(height - 1),
         i \in 0..(width - 1), at = 4 * (j * width + i)
  PROVE  at + 4 <= Len(bytes) /\ getn = Pixel(picture, j, i)
<1>1. /\ picture \in Pictures /\ width = Len(picture[1][0]) /\ height = Len(picture)
      /\ width \in Nat \ {0} /\ height \in Nat \ {0}
  BY OwnPicture DEF SizeInv, PictureInv
<1>2. PICK w, K, H : w = width /\ K = j * width /\ H = height * width
  OBVIOUS
<1>3. K \in Nat /\ H \in Nat /\ K + w <= H /\ w \in Nat /\ i \in Nat /\ i <= w - 1
  BY <1>1, <1>2, MultipleBelow, NextMultiple
<1>4. Len(bytes) = 4 * H /\ at = 4 * (K + i)
  BY <1>1, <1>2 DEF IsFlat
<1>5. \A d \in 0..3 : at + d + 1 <= Len(bytes)
  BY ONLY <1>3, <1>4
<1>6. \A d \in Channels : bytes[at + d + 1] = Val(picture, j, d, i)
  BY <1>1 DEF IsFlat
<1>7. at + 4 <= Len(bytes)
  BY ONLY <1>3, <1>4
<1> QED
  BY <1>5, <1>6, <1>7 DEF getn, Pixel, Channels

LEMMA FlatLoad ==
  ASSUME SizeInv, Shape, FlatInv, picture # <<>>, WritesFlat, Load
  PROVE  FlatInv' /\ Shape'
<1>1. ReadRow \/ ReadFlat
  BY DEF FlatInv, Load, ReadCount, EndOfChannel
<1>2. UNCHANGED <<size, writer>> /\ scanline' = scanline
  BY <1>1 DEF ReadRow, ReadFlat, NotRle
<1>3. /\ width \in Nat \ {0} /\ height \in Nat \ {0} /\ i \in 0..width
      /\ picture' = picture /\ width' = width /\ height' = height /\ bytes' = bytes
  BY <1>2, OwnPicture DEF SizeInv, FileInv, size, writer
<1>4. IsFlat(picture, bytes, height) /\ IsFlat(picture', bytes', height')
  BY <1>1, <1>3 DEF FlatInv, ReadRow, ReadFlat
<1>5. CASE ReadRow
  <2>1. ReadsFlat
    BY DEF ReadsFlat, WritesFlat
  <2>2. pc = "row" /\ i' = 0 /\ pc' = "flat" /\ at' = at /\ j' = j /\ hdr_data' = hdr_data
    BY <1>5, <2>1 DEF ReadRow
  <2>3. j = 0 /\ at = 0
    BY <2>2 DEF FlatInv
  <2>4. 0 \in 0..(height - 1) /\ 0 = 4 * (0 * width + 0) /\ 0..(0 - 1) = {}
    BY <1>3
  <2>5. FlatInv'
    BY <1>3, <1>4, <2>2, <2>3, <2>4 DEF FlatInv, RowsRight
  <2> QED
    BY <1>2, <1>3, <2>2, <2>5 DEF Shape
<1>6. CASE ReadFlat
  <2>1. /\ pc = "flat" /\ j \in 0..(height - 1) /\ at = 4 * (j * width + i) /\ RowsRight(j)
        /\ \A n \in 0..(i - 1) : hdr_data[j][n] = Pixel(picture, j, n)
    BY <1>6 DEF ReadFlat, FlatInv
  <2>2. PICK K : K = j * width
    OBVIOUS
  <2>3. K \in Nat /\ j \in Nat /\ (j + 1) * width = K + width
    BY <1>3, <2>1, <2>2, NextMultiple
  <2>4. CASE i < width
    <3>1. i \in 0..(width - 1)
      BY <1>3, <2>4
    <3>2. at + 4 <= Len(bytes) /\ getn = Pixel(picture, j, i)
      BY <1>4, <2>1, <3>1, FlatPixel
    <3>3. /\ hdr_data' = [hdr_data EXCEPT ![j][i] = getn] /\ Past(4) /\ i' = i + 1
          /\ pc' = pc /\ j' = j
      BY <1>6, <2>4 DEF ReadFlat
    <3>4. at' = at + 4
      BY <3>2, <3>3, PastIs DEF SizeInv
    <3>5. at' = 4 * (j' * width + i')
      <4>1. at = 4 * (K + i)
        BY <2>1, <2>2
      <4>2. at' = 4 * (K + (i + 1))
        BY <1>3, <2>3, <3>4, <4>1
      <4> QED
        BY <2>2, <3>3, <4>2
    <3>6. /\ DOMAIN hdr_data' = 0..(height - 1)
          /\ \A k \in 0..(height - 1) : DOMAIN hdr_data'[k] = 0..(width - 1)
          /\ \A k \in 0..(height - 1), n \in 0..(width - 1) :
               hdr_data'[k][n] = IF k = j /\ n = i THEN getn ELSE hdr_data[k][n]
      BY <2>1, <3>1, <3>3 DEF Shape
    <3>7. Shape'
      BY <1>2, <1>3, <3>6 DEF Shape
    <3>8. RowsRight(j)'
      <4>1. \A k \in 0..(j - 1) : k # j /\ k \in 0..(height - 1)
        BY <1>3, <2>1
      <4> QED
        BY <1>3, <2>1, <3>3, <3>6, <4>1 DEF RowsRight
    <3>9. \A n \in 0..(i' - 1) : hdr_data'[j'][n] = Pixel(picture', j', n)
      <4>1. \A n \in 0..(i' - 1) : n \in 0..(width - 1) /\ (n = i \/ n \in 0..(i - 1))
        BY <1>3, <3>1, <3>3
      <4> QED
        BY <1>3, <2>1, <3>2, <3>3, <3>6, <4>1
    <3>10. FlatInv'
      BY <1>3, <1>4, <2>1, <3>3, <3>5, <3>8, <3>9 DEF FlatInv
    <3> QED
      BY <3>7, <3>10
  <2>5. CASE ~(i < width)
    <3>1. /\ i' = 0 /\ j' = j + 1 /\ at' = at /\ hdr_data' = hdr_data
          /\ pc' = IF j + 1 < height THEN "flat" ELSE "loaded"
      BY <1>6, <2>5 DEF ReadFlat
    <3>2. i = width
      BY <1>3, <2>5
    <3>3. Shape'
      BY <1>2, <1>3, <3>1 DEF Shape
    <3>4. RowsRight(j + 1)
      <4>1. \A k \in 0..((j + 1) - 1) : k = j \/ k \in 0..(j - 1)
        BY <2>1
      <4> QED
        BY <2>1, <3>2, <4>1 DEF RowsRight
    <3>5. at' = 4 * ((j + 1) * width + 0)
      <4>1. at = 4 * (K + width)
        BY <2>1, <2>2, <3>2
      <4>2. at = 4 * ((K + width) + 0)
        BY <1>3, <2>3, <4>1
      <4> QED
        BY <2>3, <3>1, <4>2
    <3>6. CASE j + 1 < height
      <4>1. j + 1 \in 0..(height - 1) /\ 0..(0 - 1) = {}
        BY <1>3, <2>1, <3>6
      <4>2. RowsRight(j)'
        BY <1>3, <3>1, <3>4 DEF RowsRight
      <4> QED
        BY <1>3, <1>4, <3>1, <3>3, <3>5, <3>6, <4>1, <4>2 DEF FlatInv
    <3>7. CASE ~(j + 1 < height)
      <4>1. j + 1 = height
        BY <1>3, <2>1, <3>7
      <4>2. RowsRight(height)'
        BY <1>3, <3>1, <3>4, <4>1 DEF RowsRight
      <4>3. at' = Len(bytes)
        <5>1. Len(bytes) = 4 * (height * width)
          BY <1>4 DEF IsFlat, SizeInv, PictureInv
        <5>2. height * width = K + width
          BY <2>3, <4>1
        <5>3. at' = 4 * ((K + width) + 0)
          BY <2>3, <3>5
        <5>4. (K + width) + 0 = K + width
          BY <1>3, <2>3
        <5> QED
          BY <5>1, <5>2, <5>3, <5>4
      <4> QED
        BY <1>3, <1>4, <3>1, <3>3, <3>7, <4>2, <4>3 DEF FlatInv
    <3> QED
      BY <3>6, <3>7
  <2> QED
    BY <2>4, <2>5
<1> QED
  BY <1>1, <1>5, <1>6

-----------------------------------------------------------------------------
(* Scanlines in runs, read.                                                *)

\* What the reader comes to from where it is.
LEMMA PlaceLeads ==
  ASSUME SizeInv, picture # <<>>, pc \in {"row", "count"}, j \in 0..(height - 1),
         NEW d \in -1..3, NEW n, NEW E, Chain(picture, bytes, E, Frontier),
         <<j, d, n, at>> \in E, d = -1 => pc = "row", d # -1 => pc = "count"
  PROVE  Leads(picture, bytes, E, j, d, n, at)
<1>1. Frontier = <<height, -1, 0, Len(bytes)>> /\ height \in Nat
  BY OwnPicture DEF Frontier, InRle, SizeInv
<1>2. <<j, d, n, at>> # Frontier
  <2>1. j # height
    BY <1>1
  <2> QED
    BY <1>1, <2>1
<1> QED
  BY <1>2 DEF Chain

LEMMA GetIs ==
  ASSUME NEW n, at + n <= Len(bytes)
  PROVE  get8(n) = bytes[at + n]
  BY DEF get8

LEMMA RleRow ==
  ASSUME SizeInv, Shape, RleInv, picture # <<>>, ~WritesFlat, ReadRow
  PROVE  RleInv' /\ Shape'
<1>1. pc = "row" /\ UNCHANGED <<size, writer>> /\ ~ReadsFlat
  BY DEF ReadRow, ReadsFlat, WritesFlat
<1>2. /\ picture \in Pictures /\ width = Len(picture[1][0]) /\ height = Len(picture)
      /\ width \in Nat \ {0} /\ height \in Nat \ {0}
      /\ picture' = picture /\ width' = width /\ height' = height /\ bytes' = bytes
      /\ at \in 0..Len(bytes) /\ Len(bytes) \in Nat
  BY <1>1, OwnPicture, LenProperties DEF SizeInv, PictureInv, FileInv, size, writer
<1>3. PICK E : Chain(picture, bytes, E, Frontier) /\ Place \in E
  BY DEF RleInv
<1>4. j \in 0..(height - 1) /\ RowsRight(j) /\ <<j, -1, 0, at>> \in E
  BY <1>1, <1>3 DEF RleInv, Place
<1>5. Leads(picture, bytes, E, j, -1, 0, at)
  BY <1>1, <1>3, <1>4, PlaceLeads
<1>6. IsHeader(picture, bytes, at) /\ <<j, 0, 0, at + 4>> \in E
  BY <1>5 DEF Leads, Channels
<1>7. /\ get8(1) = 2 /\ get8(2) = 2
      /\ get8(3) = width \div (2 * Top) /\ get8(4) = width % (2 * Top)
      /\ at + 4 <= Len(bytes)
  <2>1. at + 4 <= Len(bytes) /\ \A n \in {1, 2, 3, 4} : at + n <= Len(bytes)
    BY <1>2, <1>6 DEF IsHeader
  <2>2. \A n \in {1, 2, 3, 4} : get8(n) = bytes[at + n]
    BY <2>1, GetIs
  <2> QED
    BY <1>2, <1>6, <2>1, <2>2 DEF IsHeader
<1>8. get8(3) < Top /\ get8(3) * (2 * Top) + get8(4) = width
  <2>1. width \in Nat /\ width < Top * (2 * Top)
    <3>1. Top * (2 * Top) \in Nat
      BY TopFacts
    <3> QED
      BY <1>2, <3>1 DEF WritesFlat
  <2>2. width \div (2 * Top) \in 0..(Top - 1)
    BY <2>1, WidthBytes
  <2>3. width \div (2 * Top) < Top
    BY <2>2, TopFacts
  <2> QED
    BY <1>7, <2>1, <2>3, WidthBytes
<1>9. /\ Past(4) /\ pc' = "count" /\ i' = 0 /\ c' = 0 /\ j' = j
      /\ scanline' = scanline /\ hdr_data' = hdr_data
  BY <1>1, <1>7, <1>8 DEF ReadRow, IsRle
<1>10. at' = at + 4
  BY <1>7, <1>9, PastIs DEF SizeInv
<1>11. Frontier' = Frontier /\ Place' = <<j, 0, 0, at + 4>>
  BY <1>1, <1>2, <1>9, <1>10 DEF Frontier, Place, InRle
<1>12. \E E2 : Chain(picture', bytes', E2, Frontier') /\ Place' \in E2
  BY <1>2, <1>3, <1>6, <1>11
<1>13. RowsRight(j)'
  BY <1>2, <1>4, <1>9 DEF RowsRight
<1>14. ScanlineRight'
  <2>1. \A d \in Channels, n \in 0..(width - 1) : ~(d < 0 \/ (d = 0 /\ n < 0))
    BY DEF Channels
  <2> QED
    BY <1>2, <1>9, <2>1 DEF ScanlineRight
<1>15. c' \in Channels
  BY <1>9 DEF Channels
<1>16. RleInv'
  BY <1>2, <1>4, <1>9, <1>12, <1>13, <1>14, <1>15 DEF RleInv, Writing
<1>17. Shape'
  BY <1>2, <1>9 DEF Shape
<1> QED
  BY <1>16, <1>17

LEMMA FilledIs ==
  ASSUME Shape, c \in Channels, NEW count, NEW value, Filled(count, value)
  PROVE  /\ DOMAIN scanline' = Channels
         /\ \A d \in Channels : DOMAIN scanline'[d] = 0..(width - 1)
         /\ \A d \in Channels, n \in 0..(width - 1) : scanline'[d][n] =
              IF d = c /\ n \in i..(i + count - 1) THEN value[n - i] ELSE scanline[d][n]
BY DEF Shape, Filled

LEMMA RleCount ==
  ASSUME SizeInv, Shape, RleInv, picture # <<>>, ReadCount
  PROVE  RleInv' /\ Shape'
<1>1. /\ pc = "count" /\ nleft > 0 /\ UNCHANGED <<size, writer>>
      /\ j' = j /\ c' = c /\ hdr_data' = hdr_data
  BY DEF ReadCount
<1>2. /\ picture \in Pictures /\ width = Len(picture[1][0]) /\ height = Len(picture)
      /\ width \in Nat \ {0} /\ height \in Nat \ {0} /\ i \in 0..width
      /\ picture' = picture /\ width' = width /\ height' = height /\ bytes' = bytes
      /\ at \in 0..Len(bytes) /\ Len(bytes) \in Nat
  BY <1>1, OwnPicture, LenProperties DEF SizeInv, PictureInv, FileInv, size, writer
<1>3. PICK E : Chain(picture, bytes, E, Frontier) /\ Place \in E
  BY DEF RleInv
<1>4. /\ j \in 0..(height - 1) /\ RowsRight(j) /\ <<j, c, i, at>> \in E
      /\ c \in Channels /\ ScanlineRight /\ i < width /\ c \in 0..3
  BY <1>1, <1>2, <1>3 DEF RleInv, Place, nleft, Channels
<1>5. Leads(picture, bytes, E, j, c, i, at)
  <2>1. c \in -1..3 /\ c # -1
    BY <1>4
  <2> QED
    BY <1>1, <1>3, <1>4, <2>1, PlaceLeads
<1>6. \E len \in 1..Top :
          \/ IsDump(picture, bytes, j, c, i, at, len) /\ <<j, c, i + len, at + 1 + len>> \in E
          \/ IsRun(picture, bytes, j, c, i, at, len) /\ <<j, c, i + len, at + 2>> \in E
  <2>1. c # -1 /\ i # Len(picture[1][0])
    BY <1>2, <1>4
  <2> QED
    BY <1>5, <2>1 DEF Leads
\* A run or a dump of len columns has been read, and the reader is behind it.
<1>7. ASSUME NEW len \in 1..Top, i + len <= width, NEW value, Filled(len, value),
             i' = i + len, pc' = "count", <<j, c, i + len, at'>> \in E,
             \A m \in 0..(len - 1) : value[m] = Val(picture, j, c, i + m)
      PROVE  RleInv' /\ Shape'
  <2>1. /\ DOMAIN scanline' = Channels
        /\ \A d \in Channels : DOMAIN scanline'[d] = 0..(width - 1)
        /\ \A d \in Channels, n \in 0..(width - 1) : scanline'[d][n] =
             IF d = c /\ n \in i..(i + len - 1) THEN value[n - i] ELSE scanline[d][n]
    BY <1>4, <1>7, FilledIs
  <2>2. Frontier' = Frontier /\ Place' = <<j, c, i + len, at'>>
    BY <1>1, <1>2, <1>7 DEF Frontier, Place, InRle
  <2>3. \E E2 : Chain(picture', bytes', E2, Frontier') /\ Place' \in E2
    BY <1>2, <1>3, <1>7, <2>2
  <2>4. ASSUME NEW d \in Channels, NEW n \in 0..(width - 1), d < c \/ (d = c /\ n < i + len)
        PROVE  scanline'[d][n] = Val(picture, j, d, n)
    <3>1. CASE d = c /\ n \in i..(i + len - 1)
      <4>1. n - i \in 0..(len - 1) /\ i + (n - i) = n
        BY <1>2, <1>7, <3>1
      <4> QED
        BY <1>7, <2>1, <3>1, <4>1
    <3>2. CASE ~(d = c /\ n \in i..(i + len - 1))
      <4>1. d < c \/ (d = c /\ n < i)
        BY <1>2, <1>7, <2>4, <3>2, TopFacts
      <4>2. scanline[d][n] = Val(picture, j, d, n)
        BY <1>4, <4>1 DEF ScanlineRight
      <4> QED
        BY <2>1, <3>2, <4>2
    <3> QED
      BY <3>1, <3>2
  <2>5. ScanlineRight'
    BY <1>1, <1>2, <1>7, <2>4 DEF ScanlineRight
  <2>6. RowsRight(j)'
    BY <1>1, <1>2, <1>4 DEF RowsRight
  <2>7. RleInv'
    BY <1>1, <1>2, <1>4, <1>7, <2>3, <2>5, <2>6 DEF RleInv, Writing
  <2>8. Shape'
    BY <1>1, <1>2, <2>1 DEF Shape
  <2> QED
    BY <2>7, <2>8
<1>8. PICK len \in 1..Top :
          \/ IsDump(picture, bytes, j, c, i, at, len) /\ <<j, c, i + len, at + 1 + len>> \in E
          \/ IsRun(picture, bytes, j, c, i, at, len) /\ <<j, c, i + len, at + 2>> \in E
  BY <1>6
<1>9. len \in Nat /\ len <= Top /\ len >= 1
  BY TopFacts
<1>10. CASE /\ IsDump(picture, bytes, j, c, i, at, len)
            /\ <<j, c, i + len, at + 1 + len>> \in E
  <2>1. /\ i + len <= width /\ at + 1 + len <= Len(bytes) /\ bytes[at + 1] = len
        /\ \A m \in 0..(len - 1) : bytes[at + 2 + m] = Val(picture, j, c, i + m)
    BY <1>2, <1>10 DEF IsDump
  <2>2. get8(1) = len
    <3>1. at + 1 <= Len(bytes)
      BY <1>2, <1>9, <2>1
    <3> QED
      BY <2>1, <3>1, GetIs
  <2>3. PICK value : value = [n \in 0..(len - 1) |-> get8(n + 2)]
    OBVIOUS
  <2>4. ~(get8(1) > Top) /\ CountFits(len)
    BY <1>2, <1>9, <2>1, <2>2, TopFacts DEF CountFits, nleft
  <2>5. Filled(len, value) /\ Past(len + 1) /\ i' = i + len /\ pc' = "count"
    BY <1>1, <2>2, <2>3, <2>4 DEF ReadCount
  <2>6. at' = at + 1 + len
    <3>1. len + 1 \in Nat /\ at + (len + 1) <= Len(bytes) /\ at + (len + 1) = at + 1 + len
      BY <1>2, <1>9, <2>1
    <3> QED
      BY <2>5, <3>1, PastIs DEF SizeInv
  <2>7. ASSUME NEW m \in 0..(len - 1)
        PROVE  value[m] = Val(picture, j, c, i + m)
    <3>1. at + (m + 2) <= Len(bytes) /\ at + (m + 2) = at + 2 + m
      BY <1>2, <1>9, <2>1
    <3>2. get8(m + 2) = bytes[at + 2 + m]
      BY <3>1, GetIs
    <3> QED
      BY <2>1, <2>3, <3>2
  <2> QED
    BY <1>7, <1>10, <2>1, <2>5, <2>6, <2>7
<1>11. CASE /\ IsRun(picture, bytes, j, c, i, at, len)
            /\ <<j, c, i + len, at + 2>> \in E
  <2>1. /\ i + len <= width /\ at + 2 <= Len(bytes) /\ bytes[at + 1] = len + Top
        /\ \A m \in 0..(len - 1) : bytes[at + 2] = Val(picture, j, c, i + m)
    BY <1>2, <1>11 DEF IsRun
  <2>2. get8(1) = len + Top /\ get8(2) = bytes[at + 2]
    <3>1. at + 1 <= Len(bytes)
      BY <1>2, <2>1
    <3> QED
      BY <2>1, <3>1, GetIs
  <2>3. PICK value : value = [n \in 0..(len - 1) |-> get8(2)]
    OBVIOUS
  <2>4. get8(1) > Top /\ CountFits(len) /\ get8(1) - Top = len
    BY <1>2, <1>9, <2>1, <2>2, TopFacts DEF CountFits, nleft
  <2>5. Filled(len, value) /\ Past(2) /\ i' = i + len /\ pc' = "count"
    BY <1>1, <2>3, <2>4 DEF ReadCount
  <2>6. at' = at + 2
    BY <2>1, <2>5, PastIs DEF SizeInv
  <2>7. \A m \in 0..(len - 1) : value[m] = Val(picture, j, c, i + m)
    BY <2>1, <2>2, <2>3
  <2> QED
    BY <1>7, <1>11, <2>1, <2>5, <2>6, <2>7
<1> QED
  BY <1>8, <1>10, <1>11

LEMMA RleEndOfChannel ==
  ASSUME SizeInv, Shape, RleInv, picture # <<>>, EndOfChannel
  PROVE  RleInv' /\ Shape'
<1>1. /\ pc = "count" /\ nleft <= 0 /\ UNCHANGED <<size, writer, at, scanline>> /\ i' = 0
  BY DEF EndOfChannel
<1>2. /\ picture \in Pictures /\ width = Len(picture[1][0]) /\ height = Len(picture)
      /\ width \in Nat \ {0} /\ height \in Nat \ {0} /\ i \in 0..width
      /\ picture' = picture /\ width' = width /\ height' = height /\ bytes' = bytes
      /\ at \in 0..Len(bytes) /\ Len(bytes) \in Nat /\ at' = at /\ scanline' = scanline
  BY <1>1, OwnPicture, LenProperties DEF SizeInv, PictureInv, FileInv, size, writer
<1>3. PICK E : Chain(picture, bytes, E, Frontier) /\ Place \in E
  BY DEF RleInv
<1>4. /\ j \in 0..(height - 1) /\ RowsRight(j) /\ <<j, c, i, at>> \in E
      /\ c \in Channels /\ ScanlineRight /\ c \in 0..3 /\ i = width
  BY <1>1, <1>2, <1>3 DEF RleInv, Place, nleft, Channels
<1>5. Leads(picture, bytes, E, j, c, i, at)
  <2>1. c \in -1..3 /\ c # -1
    BY <1>4
  <2> QED
    BY <1>1, <1>3, <1>4, <2>1, PlaceLeads
<1>6. c # -1 /\ ~(i < Len(picture[1][0]))
  BY <1>2, <1>4
<1>7. Frontier = <<height, -1, 0, Len(bytes)>>
  BY <1>1 DEF Frontier, InRle
<1>8. CASE c < 3
  <2>1. c' = c + 1 /\ pc' = pc /\ j' = j /\ hdr_data' = hdr_data
    BY <1>8 DEF EndOfChannel
  <2>2. <<j, c + 1, 0, at>> \in E
    <3>1. c # 3
      BY <1>8
    <3> QED
      BY <1>5, <1>6, <3>1 DEF Leads
  <2>3. Frontier' = Frontier /\ Place' = <<j, c + 1, 0, at>>
    BY <1>1, <1>2, <2>1 DEF Frontier, Place, InRle
  <2>4. \E E2 : Chain(picture', bytes', E2, Frontier') /\ Place' \in E2
    BY <1>2, <1>3, <2>2, <2>3
  <2>5. ASSUME NEW d \in Channels, NEW n \in 0..(width - 1), d < c + 1 \/ (d = c + 1 /\ n < 0)
        PROVE  scanline[d][n] = Val(picture, j, d, n)
    <3>1. d < c \/ (d = c /\ n < i)
      BY <1>2, <1>4, <2>5 DEF Channels
    <3> QED
      BY <1>4, <3>1 DEF ScanlineRight
  <2>6. ScanlineRight'
    BY <1>1, <1>2, <2>1, <2>5 DEF ScanlineRight
  <2>7. c' \in Channels
    BY <1>4, <1>8, <2>1 DEF Channels
  <2>8. RowsRight(j)'
    BY <1>2, <1>4, <2>1 DEF RowsRight
  <2>9. RleInv'
    BY <1>1, <1>2, <1>4, <2>1, <2>4, <2>6, <2>7, <2>8 DEF RleInv, Writing
  <2>10. Shape'
    BY <1>2, <2>1 DEF Shape
  <2> QED
    BY <2>9, <2>10
<1>9. CASE ~(c < 3)
  <2>1. /\ c' = 0 /\ NextRow
        /\ hdr_data' = [hdr_data EXCEPT ![j] =
             [n \in DOMAIN @ |-> [k \in Channels |-> scanline[k][n]]]]
    BY <1>9 DEF EndOfChannel
  <2>2. c = 3
    BY <1>4, <1>9
  <2>3. <<j + 1, -1, 0, at>> \in E
    BY <1>5, <1>6, <2>2 DEF Leads
  <2>4. /\ DOMAIN hdr_data' = 0..(height - 1)
        /\ \A k \in 0..(height - 1) : DOMAIN hdr_data'[k] = 0..(width - 1)
        /\ \A k \in 0..(height - 1), n \in 0..(width - 1) : hdr_data'[k][n] =
             IF k = j THEN [d \in Channels |-> scanline[d][n]] ELSE hdr_data[k][n]
    BY <1>4, <2>1 DEF Shape
  <2>5. ASSUME NEW n \in 0..(width - 1)
        PROVE  [d \in Channels |-> scanline[d][n]] = Pixel(picture, j, n)
    <3>1. \A d \in Channels : d < c \/ (d = c /\ n < i)
      BY <1>2, <1>4, <2>2 DEF Channels
    <3>2. \A d \in Channels : scanline[d][n] = Val(picture, j, d, n)
      BY <1>4, <3>1 DEF ScanlineRight
    <3> QED
      BY <3>2 DEF Pixel
  <2>6. \A k \in 0..((j + 1) - 1), n \in 0..(width - 1) :
          hdr_data'[k][n] = Pixel(picture, k, n)
    <3>1. \A k \in 0..((j + 1) - 1) : k \in 0..(height - 1) /\ (k = j \/ k \in 0..(j - 1))
      BY <1>2, <1>4
    <3>2. ASSUME NEW k \in 0..((j + 1) - 1), NEW n \in 0..(width - 1)
          PROVE  hdr_data'[k][n] = Pixel(picture, k, n)
      <4>1. CASE k = j
        BY <1>4, <2>4, <2>5, <4>1
      <4>2. CASE k # j
        <5>1. k \in 0..(j - 1) /\ k \in 0..(height - 1)
          BY <3>1, <4>2
        <5> QED
          BY <1>4, <2>4, <4>2, <5>1 DEF RowsRight
      <4> QED
        BY <4>1, <4>2
    <3> QED
      BY <3>2
  <2>7. Shape'
    BY <1>2, <2>4 DEF Shape
  <2>8. j' = j + 1 /\ pc' = IF j + 1 < height THEN "row" ELSE "loaded"
    BY <2>1 DEF NextRow
  <2>9. CASE j + 1 < height
    <3>1. Frontier' = Frontier /\ Place' = <<j + 1, -1, 0, at>>
      BY <1>1, <1>2, <2>8, <2>9 DEF Frontier, Place, InRle
    <3>2. \E E2 : Chain(picture', bytes', E2, Frontier') /\ Place' \in E2
      BY <1>2, <1>3, <2>3, <3>1
    <3>3. j' \in 0..(height' - 1) /\ RowsRight(j)'
      BY <1>2, <1>4, <2>6, <2>8, <2>9 DEF RowsRight
    <3>4. RleInv'
      BY <2>8, <2>9, <3>2, <3>3 DEF RleInv, Writing
    <3> QED
      BY <2>7, <3>4
  <2>10. CASE ~(j + 1 < height)
    <3>1. j + 1 = height
      BY <1>2, <1>4, <2>10
    <3>2. <<height, -1, 0, at>> = Frontier
      <4>1. height \notin 0..(Len(picture) - 1)
        BY <1>2
      <4>2. ~Leads(picture, bytes, E, height, -1, 0, at)
        BY <4>1 DEF Leads
      <4> QED
        BY <1>3, <2>3, <3>1, <4>2 DEF Chain
    <3>3. at = Len(bytes)
      BY <1>7, <3>2
    <3>4. Frontier' = Frontier /\ Place' = <<0, -1, 0, 0>>
      BY <1>2, <1>7, <2>8, <2>10 DEF Frontier, Place, InRle
    <3>5. \E E2 : Chain(picture', bytes', E2, Frontier') /\ Place' \in E2
      BY <1>2, <1>3, <3>4 DEF Chain
    <3>6. RowsRight(height)'
      BY <1>2, <2>6, <3>1 DEF RowsRight
    <3>7. RleInv'
      BY <1>2, <2>8, <2>10, <3>3, <3>5, <3>6 DEF RleInv, Writing
    <3> QED
      BY <2>7, <3>7
  <2> QED
    BY <2>9, <2>10
<1> QED
  BY <1>8, <1>9

-----------------------------------------------------------------------------
(* Together.                                                               *)

LEMMA BackStep == SizeInv /\ BackInv /\ [Next]_vars => BackInv'
<1> SUFFICES ASSUME SizeInv, BackInv, [Next]_vars, picture' # <<>>
             PROVE  Shape' /\ IF WritesFlat' THEN FlatInv' ELSE RleInv'
  BY DEF BackInv
<1>1. UNCHANGED size
  BY DEF vars, Next, Write, Load, WriteFlat, WriteHeader, Search, Dump, StartRun, Run,
         ReadRow, ReadFlat, ReadCount, EndOfChannel
<1>2. /\ picture' = picture /\ width' = width /\ height' = height /\ picture # <<>>
      /\ (WritesFlat' <=> WritesFlat)
  BY <1>1 DEF size, WritesFlat
<1>3. Shape /\ IF WritesFlat THEN FlatInv ELSE RleInv
  BY <1>2 DEF BackInv
<1>4. CASE Write
  <2>1. UNCHANGED reader
    BY <1>4 DEF Write, WriteFlat, WriteHeader, Search, Dump, StartRun, Run
  <2>2. Shape'
    BY <1>2, <1>3, <2>1 DEF Shape, reader
  <2> QED
    BY <1>2, <1>3, <1>4, <2>2, FlatWrite, RleWrite
<1>5. CASE Load
  <2>1. CASE WritesFlat
    BY <1>2, <1>3, <1>5, <2>1, FlatLoad
  <2>2. CASE ~WritesFlat
    <3>1. ReadRow \/ ReadCount \/ EndOfChannel
      BY <1>3, <1>5, <2>2 DEF RleInv, Load, ReadFlat
    <3>2. RleInv' /\ Shape'
      BY <1>2, <1>3, <2>2, <3>1, RleRow, RleCount, RleEndOfChannel
    <3> QED
      BY <1>2, <2>2, <3>2
  <2> QED
    BY <2>1, <2>2
<1>6. CASE UNCHANGED vars
  <2>1. /\ pc' = pc /\ j' = j /\ c' = c /\ x' = x /\ bytes' = bytes /\ at' = at /\ i' = i
        /\ scanline' = scanline /\ hdr_data' = hdr_data
    BY <1>6 DEF vars, writer, reader
  <2>2. Shape'
    BY <1>2, <1>3, <2>1 DEF Shape
  <2>3. RowsRight(j)' <=> RowsRight(j)
    BY <1>2, <2>1 DEF RowsRight
  <2>4. RowsRight(height)' <=> RowsRight(height)
    BY <1>2, <2>1 DEF RowsRight
  <2>5. ScanlineRight' <=> ScanlineRight
    BY <1>2, <2>1 DEF ScanlineRight
  <2>6. Frontier' = Frontier /\ Place' = Place
    BY <1>2, <2>1 DEF Frontier, Place
  <2>7. FlatInv => FlatInv'
    BY <1>2, <2>1, <2>3, <2>4 DEF FlatInv
  <2>8. RleInv => RleInv'
    BY <1>2, <2>1, <2>3, <2>4, <2>5, <2>6 DEF RleInv
  <2> QED
    BY <1>2, <1>3, <2>2, <2>7, <2>8
<1> QED
  BY <1>4, <1>5, <1>6 DEF Next

\* A picture of any size, with runs of any length, comes back from its file to
\* the last byte: HdrRle!ReadsBack for every picture there is.
THEOREM AlwaysReadsBack == Spec => []ReadsBack
<1>1. SizeInv /\ BackInv => ReadsBack
  <2> SUFFICES ASSUME SizeInv, BackInv, picture # <<>>, pc \in {"loaded", "failed"}
               PROVE  /\ pc = "loaded" /\ at = Len(bytes)
                      /\ \A k \in 0..(height - 1), n \in 0..(width - 1) :
                           hdr_data[k][n] = [d \in Channels |-> picture[k + 1][d][n + 1]]
    BY DEF ReadsBack
  <2>1. pc = "loaded" /\ at = Len(bytes) /\ RowsRight(height)
    BY DEF BackInv, FlatInv, RleInv
  <2> QED
    BY <2>1 DEF RowsRight, Pixel, Val
<1>2. Spec => [](SizeInv /\ BackInv)
  <2>1. Init => SizeInv /\ BackInv
    BY SizeInit, BackInit
  <2>2. SizeInv /\ BackInv /\ [Next]_vars => (SizeInv /\ BackInv)'
    BY SizeStep, BackStep
  <2> QED
    BY <2>1, <2>2, PTL DEF Spec
<1> QED
  BY <1>1, <1>2, PTL

-----------------------------------------------------------------------------
(* Every step leaves less to do, but at the end of a file that was cut.    *)

\* Triples of numbers in their lexicographic ordering.
Pairs   == Nat \X Nat
Triples == Nat \X Pairs

PairLess   == LexPairOrdering(NatLess, NatLess, Nat, Nat)
TripleLess == LexPairOrdering(NatLess, PairLess, Nat, Pairs)

\* No infinite descent among them.
LEMMA TriplesAreWellFounded == IsWellFoundedOn(TripleLess, Triples)
<1>1. IsWellFoundedOn(PairLess, Pairs)
  BY NatLessIsWellFounded, WFLexPairOrdering DEF PairLess, Pairs
<1> QED
  BY <1>1, NatLessIsWellFounded, WFLexPairOrdering DEF TripleLess, Triples

\* A pair goes down when its first number does, or when that stays and the
\* second part does.
LEMMA LexDown ==
  ASSUME NEW R, NEW S, NEW a \in Nat, NEW b \in Nat, NEW u \in S, NEW v \in S,
         a < b \/ (a = b /\ <<u, v>> \in R)
  PROVE  <<<<a, u>>, <<b, v>>>> \in LexPairOrdering(NatLess, R, Nat, S)
<1>1. PICK ss : ss = <<<<a, u>>, <<b, v>>>>
  OBVIOUS
<1>2. ss \in (Nat \X S) \X (Nat \X S)
  BY <1>1
<1>3. ss[1][1] = a /\ ss[2][1] = b /\ ss[1][2] = u /\ ss[2][2] = v
  BY <1>1
<1>4. a < b => <<a, b>> \in NatLess
  BY DEF NatLess
<1> QED
  BY <1>1, <1>2, <1>3, <1>4 DEF LexPairOrdering

\* The scanlines still to be written, to be read, and to be read flat.
ScanlinesLeft ==
  IF pc \in Writing THEN 3 * height + 3 - j
  ELSE IF pc \in {"row", "count"} THEN 2 * height + 2 - j
  ELSE IF pc = "flat" THEN height + 1 - j ELSE 0

\* Of a scanline, the header and the channels.
ChannelsLeft ==
  IF pc \in {"scanline", "row"} THEN 5
  ELSE IF pc \in InRle \union {"count"} THEN 4 - c ELSE 0

ColumnsLeft == IF pc \in InRle THEN width - x ELSE width - i

\* Where the writer is between two steps that move x.
Turn ==
  IF pc = "run" /\ x = r THEN 4
  ELSE IF pc = "search" /\ x < width THEN 3
  ELSE IF pc = "dump" THEN 2
  ELSE IF pc = "run" THEN 1 ELSE 0

\* What is left to do.  There are at most five of ChannelsLeft, and four of
\* Turn, so that what stands before them counts more.
Triple(s, k, n, t, u) == <<6 * s + k, <<5 * n + t, u>>>>
Left == Triple(ScanlinesLeft, ChannelsLeft, ColumnsLeft, Turn, Len(bytes) - at)

LeftDescends == <<Left', Left>> \in TripleLess

\* Of five such numbers the first that changes is less.
Lower(s1, k1, n1, t1, u1, s, k, n, t, u) ==
  \/ s1 < s
  \/ s1 = s /\ k1 < k
  \/ s1 = s /\ k1 = k /\ n1 < n
  \/ s1 = s /\ k1 = k /\ n1 = n /\ t1 < t
  \/ s1 = s /\ k1 = k /\ n1 = n /\ t1 = t /\ u1 < u

LEMMA TripleDown ==
  ASSUME NEW s1 \in Nat, NEW k1 \in 0..5, NEW n1 \in Nat, NEW t1 \in 0..4, NEW u1 \in Nat,
         NEW s \in Nat, NEW k \in 0..5, NEW n \in Nat, NEW t \in 0..4, NEW u \in Nat,
         Lower(s1, k1, n1, t1, u1, s, k, n, t, u)
  PROVE  <<Triple(s1, k1, n1, t1, u1), Triple(s, k, n, t, u)>> \in TripleLess
<1> DEFINE a1 == 6 * s1 + k1
           a  == 6 * s + k
           b1 == 5 * n1 + t1
           b  == 5 * n + t
           p1 == <<b1, u1>>
           p  == <<b, u>>
<1>1. a1 \in Nat /\ a \in Nat /\ b1 \in Nat /\ b \in Nat
  OBVIOUS
<1>2. a1 < a \/ (a1 = a /\ (b1 < b \/ (b1 = b /\ u1 < u)))
  BY DEF Lower
<1> HIDE DEF a1, a, b1, b
<1>3. u1 < u => <<u1, u>> \in NatLess
  BY DEF NatLess
<1>4. b1 < b \/ (b1 = b /\ u1 < u) => <<p1, p>> \in PairLess
  BY <1>1, <1>3, LexDown DEF PairLess
<1>5. p1 \in Pairs /\ p \in Pairs
  BY <1>1 DEF Pairs
<1> HIDE DEF p1, p
<1>6. <<<<a1, p1>>, <<a, p>>>> \in TripleLess
  BY <1>1, <1>2, <1>4, <1>5, LexDown DEF TripleLess
<1> QED
  BY <1>6 DEF Triple, a1, a, b1, b, p1, p

\* What SizeInv leaves open: where the reader is, and that the writer dumps up to
\* a run or to the end.
TurnInv ==
  /\ pc \in {"row", "count", "flat"} => j \in 0..height
  /\ pc = "count" => c \in Channels
  /\ pc = "dump" => r = width \/ r + 2 < width

LEMMA TurnInit == Init => TurnInv
<1> SUFFICES ASSUME Init PROVE TurnInv
  OBVIOUS
<1>1. height \in Nat
  BY SizeInit DEF SizeInv, FileInv
<1> QED
  BY <1>1 DEF Init, TurnInv

\* The five numbers.
LeftOK ==
  /\ ScanlinesLeft \in Nat /\ ChannelsLeft \in 0..5 /\ ColumnsLeft \in Nat
  /\ Turn \in 0..4 /\ Len(bytes) - at \in Nat

LEMMA LeftTyped == SizeInv /\ TurnInv => LeftOK
<1> SUFFICES ASSUME SizeInv, TurnInv PROVE LeftOK
  OBVIOUS
<1>1. /\ width \in Nat /\ height \in Nat /\ i \in 0..width /\ at \in 0..Len(bytes)
      /\ Len(bytes) \in Nat
  BY LenProperties DEF SizeInv, FileInv
<1>2. ScanlinesLeft \in Nat
  BY <1>1 DEF SizeInv, WriterInv, TurnInv, ScanlinesLeft
<1>3. ChannelsLeft \in 0..5
  BY DEF SizeInv, WriterInv, TurnInv, ChannelsLeft, Channels
<1>4. ColumnsLeft \in Nat
  BY <1>1 DEF SizeInv, WriterInv, ColumnsLeft
<1>5. Turn \in 0..4
  BY DEF Turn
<1> QED
  BY <1>1, <1>2, <1>3, <1>4, <1>5 DEF LeftOK

\* The reader waits for a count, and the file has ended.
AtEnd == pc = "count" /\ nleft > 0 /\ at = Len(bytes)

Forward ==
  Lower(ScanlinesLeft', ChannelsLeft', ColumnsLeft', Turn', (Len(bytes) - at)',
        ScanlinesLeft, ChannelsLeft, ColumnsLeft, Turn, Len(bytes) - at)

\* The writer always goes on.
LEMMA WriteForward ==
  ASSUME SizeInv, TurnInv, Write
  PROVE  TurnInv' /\ Forward
<1>1. /\ pc \in Writing /\ picture # <<>> /\ j \in 0..(height - 1) /\ UNCHANGED <<size, reader>>
      /\ pc \in InRle => c \in Channels /\ x \in 0..width
      /\ pc \in {"dump", "run"} => r \in x..width
  BY DEF SizeInv, WriterInv, Writing, InRle, Write, WriteFlat, WriteHeader, Search, Dump,
         StartRun, Run
<1>2. /\ width \in Nat \ {0} /\ height \in Nat \ {0} /\ width' = width /\ height' = height
  BY <1>1, OwnPicture DEF SizeInv, size
\* The last scanline is followed by the first of the reader.
<1>3. ASSUME NextScanline
      PROVE  TurnInv' /\ ScanlinesLeft' < ScanlinesLeft
  <2>1. \/ j + 1 < height /\ j' = j + 1 /\ pc' = "scanline"
        \/ j + 1 = height /\ j' = 0 /\ pc' = "row"
    BY <1>1, <1>3, NextScanlineIs DEF SizeInv
  <2>2. TurnInv'
    BY <1>2, <2>1 DEF TurnInv
  <2>3. ScanlinesLeft = 3 * height + 3 - j
    BY <1>1 DEF ScanlinesLeft
  <2>4. ScanlinesLeft' = 3 * height + 3 - (j + 1) \/ ScanlinesLeft' = 2 * height + 2
    BY <1>1, <1>2, <2>1 DEF ScanlinesLeft, Writing
  <2> QED
    BY <1>1, <1>2, <2>1, <2>2, <2>3, <2>4
\* Within a scanline, and within a channel.
<1>4. ASSUME pc' \in InRle, j' = j
      PROVE  ScanlinesLeft' = ScanlinesLeft
  BY <1>1, <1>2, <1>4 DEF ScanlinesLeft, Writing, InRle
<1>5. ASSUME pc \in InRle, pc' \in InRle, j' = j, c' = c
      PROVE  /\ ScanlinesLeft' = ScanlinesLeft /\ ChannelsLeft' = ChannelsLeft
             /\ ColumnsLeft = width - x /\ ColumnsLeft' = width - x'
  BY <1>2, <1>4, <1>5 DEF ChannelsLeft, ColumnsLeft, InRle
<1>6. CASE WriteFlat
  BY <1>3, <1>6 DEF WriteFlat, Forward, Lower
<1>7. CASE WriteHeader
  <2>1. pc = "scanline" /\ pc' = "search" /\ c' = 0 /\ j' = j
    BY <1>7 DEF WriteHeader
  <2>2. ScanlinesLeft' = ScanlinesLeft /\ ChannelsLeft = 5 /\ ChannelsLeft' = 4
    BY <1>4, <2>1 DEF ChannelsLeft, InRle
  <2> QED
    BY <2>1, <2>2 DEF TurnInv, Forward, Lower
<1>8. CASE Search
  <2>1. pc = "search" /\ c \in 0..3 /\ x \in 0..width
    BY <1>1, <1>8 DEF Search, InRle, Channels
  <2>2. CASE x < width
    <3>1. r' = FirstRun /\ pc' = "dump" /\ j' = j /\ c' = c /\ x' = x
      BY <1>8, <2>2 DEF Search
    <3>2. TurnInv'
      BY <1>2, <2>1, <3>1, FirstRunIs DEF TurnInv
    <3>3. Turn = 3 /\ Turn' = 2
      BY <2>1, <2>2, <3>1 DEF Turn
    <3> QED
      BY <1>5, <2>1, <3>1, <3>2, <3>3 DEF InRle, Forward, Lower
  <2>3. CASE ~(x < width)
    <3>1. CASE c < 3
      <4>1. pc' = "search" /\ j' = j /\ c' = (c + 1) % 4
        BY <1>8, <2>1, <2>3, <3>1 DEF Search
      <4>2. c' = c + 1
        BY <2>1, <3>1, <4>1
      <4>3. ScanlinesLeft' = ScanlinesLeft /\ ChannelsLeft = 4 - c /\ ChannelsLeft' = 4 - (c + 1)
        BY <1>4, <2>1, <4>1, <4>2 DEF ChannelsLeft, InRle
      <4> QED
        BY <2>1, <4>1, <4>3 DEF TurnInv, Forward, Lower
    <3>2. CASE ~(c < 3)
      BY <1>3, <1>8, <2>3, <3>2 DEF Search, Forward, Lower
    <3> QED
      BY <3>1, <3>2
  <2> QED
    BY <2>2, <2>3
<1>9. CASE Dump
  <2>1. pc = "dump" /\ pc' = "dump" /\ j' = j /\ c' = c /\ r' = r /\ x \in 0..width
    BY <1>1, <1>9 DEF Dump, InRle
  <2>2. PICK len \in 1..Top : x' = x + len /\ x + len <= width
    BY <1>9, DumpIs
  <2>3. width - x' < width - x
    BY <1>2, <2>1, <2>2, TopFacts
  <2>4. TurnInv'
    BY <1>2, <2>1 DEF TurnInv
  <2> QED
    BY <1>5, <2>1, <2>3, <2>4 DEF InRle, Forward, Lower
<1>10. CASE StartRun
  <2>1. /\ pc = "dump" /\ x = r /\ j' = j /\ c' = c /\ x' = x /\ x \in 0..width
        /\ r = width \/ r + 2 < width
    BY <1>1, <1>10 DEF StartRun, InRle, TurnInv
  <2>2. CASE r + 2 < width
    <3>1. pc' = "run" /\ r' = EndOfRun
      BY <1>10, <2>2 DEF StartRun
    <3>2. x' < r'
      BY <1>2, <2>1, <2>2, <3>1, EndOfRunIs
    <3>3. Turn = 2 /\ Turn' = 1
      <4>1. x' # r'
        BY <1>2, <2>1, <3>1, <3>2, EndOfRunIs
      <4> QED
        BY <2>1, <3>1, <4>1 DEF Turn
    <3> QED
      BY <1>5, <2>1, <3>1, <3>3 DEF InRle, TurnInv, Forward, Lower
  <2>3. CASE ~(r + 2 < width)
    <3>1. pc' = "search" /\ x' = width
      BY <1>10, <2>1, <2>3 DEF StartRun
    <3>2. Turn = 2 /\ Turn' = 0
      BY <1>2, <2>1, <3>1 DEF Turn
    <3> QED
      BY <1>5, <2>1, <3>1, <3>2 DEF InRle, TurnInv, Forward, Lower
  <2> QED
    BY <2>2, <2>3
<1>11. CASE Run
  <2>1. pc = "run" /\ j' = j /\ c' = c /\ r' = r /\ x \in 0..width /\ r \in x..width
    BY <1>1, <1>11 DEF Run, InRle
  <2>2. CASE x < r
    <3>1. PICK len \in 1..(Top - 1) : x' = x + len /\ x + len <= width /\ pc' = "run"
      BY <1>11, <2>2, RunIs
    <3>2. width - x' < width - x
      BY <1>2, <2>1, <3>1, TopFacts
    <3> QED
      BY <1>5, <2>1, <3>1, <3>2 DEF InRle, TurnInv, Forward, Lower
  <2>3. CASE ~(x < r)
    <3>1. pc' = "search" /\ x' = x /\ x = r
      BY <1>2, <1>11, <2>1, <2>3 DEF Run
    <3>2. Turn = 4 /\ Turn' \in 0..3
      BY <2>1, <3>1 DEF Turn
    <3> QED
      BY <1>5, <2>1, <3>1, <3>2 DEF InRle, TurnInv, Forward, Lower
  <2> QED
    BY <2>2, <2>3
<1> QED
  BY <1>6, <1>7, <1>8, <1>9, <1>10, <1>11 DEF Write

\* So does the reader, if it is not at the end of the file: a count of zero leads
\* nowhere, but it is a byte of the file that has been read.
LEMMA LoadForward ==
  ASSUME SizeInv, TurnInv, Load
  PROVE  TurnInv' /\ (Forward \/ AtEnd)
<1>1. /\ width \in Nat /\ height \in Nat /\ i \in 0..width /\ at \in 0..Len(bytes)
      /\ Len(bytes) \in Nat /\ UNCHANGED <<size, writer>>
      /\ width' = width /\ height' = height /\ bytes' = bytes
  BY LenProperties DEF SizeInv, FileInv, size, writer, Load, ReadRow, ReadFlat, ReadCount,
     EndOfChannel
<1>2. CASE ReadRow
  <2>1. pc = "row" /\ j \in 0..height
    BY <1>2 DEF ReadRow, TurnInv
  <2>2. ScanlinesLeft = 2 * height + 2 - j /\ ChannelsLeft = 5
    BY <2>1 DEF ScanlinesLeft, ChannelsLeft, Writing
  <2>3. \/ pc' = "flat" /\ j' \in {0, j}
        \/ pc' = "count" /\ j' = j /\ c' = 0
        \/ pc' = "failed"
    BY <1>2 DEF ReadRow, NotRle
  <2>4. CASE pc' = "flat" /\ j' \in {0, j}
    <3>1. ScanlinesLeft' = height + 1 - j'
      BY <1>1, <2>4 DEF ScanlinesLeft, Writing
    <3>2. j' \in 0..height
      BY <1>1, <2>1, <2>4
    <3>3. PICK m : m = j'
      OBVIOUS
    <3>4. height + 1 - m < 2 * height + 2 - j
      <4>1. m \in Nat /\ height \in Nat /\ j \in 0..height
        BY <1>1, <2>1, <3>2, <3>3
      <4>2. PICK h, k : h = height /\ k = j
        OBVIOUS
      <4>3. h + 1 - m < 2 * h + 2 - k
        BY <4>1, <4>2
      <4> QED
        BY <4>2, <4>3
    <3>5. ScanlinesLeft' < ScanlinesLeft
      BY <2>2, <3>1, <3>3, <3>4
    <3> QED
      BY <1>1, <2>4, <3>2, <3>5 DEF TurnInv, Forward, Lower
  <2>5. CASE pc' = "count" /\ j' = j /\ c' = 0
    <3>1. ScanlinesLeft' = ScanlinesLeft /\ ChannelsLeft' = 4
      BY <1>1, <2>2, <2>5 DEF ScanlinesLeft, ChannelsLeft, Writing, InRle
    <3>2. TurnInv'
      BY <1>1, <2>1, <2>5 DEF TurnInv, Channels
    <3> QED
      BY <2>2, <3>1, <3>2 DEF Forward, Lower
  <2>6. CASE pc' = "failed"
    <3>1. ScanlinesLeft' = 0
      BY <2>6 DEF ScanlinesLeft, Writing
    <3> QED
      BY <1>1, <2>1, <2>2, <2>6, <3>1 DEF TurnInv, Forward, Lower
  <2> QED
    BY <2>3, <2>4, <2>5, <2>6
<1>3. CASE ReadFlat
  <2>1. pc = "flat" /\ j \in 0..height
    BY <1>3 DEF ReadFlat, TurnInv
  <2>2. ScanlinesLeft = height + 1 - j /\ ChannelsLeft = 0 /\ ColumnsLeft = width - i
    BY <2>1 DEF ScanlinesLeft, ChannelsLeft, ColumnsLeft, Writing, InRle
  <2>3. CASE i < width
    <3>1. pc' = "flat" /\ j' = j /\ i' = i + 1
      BY <1>3, <2>1, <2>3 DEF ReadFlat
    <3>2. ScanlinesLeft' = ScanlinesLeft /\ ChannelsLeft' = 0 /\ ColumnsLeft' = width - (i + 1)
      BY <1>1, <2>2, <3>1 DEF ScanlinesLeft, ChannelsLeft, ColumnsLeft, Writing, InRle
    <3> QED
      BY <1>1, <2>1, <2>2, <3>1, <3>2 DEF TurnInv, Forward, Lower
  <2>4. CASE ~(i < width)
    <3>1. j' = j + 1 /\ (pc' = "loaded" \/ (pc' = "flat" /\ j + 1 < height))
      BY <1>3, <2>4 DEF ReadFlat
    <3>2. ScanlinesLeft' = 0 \/ ScanlinesLeft' = height + 1 - (j + 1)
      BY <1>1, <3>1 DEF ScanlinesLeft, Writing
    <3> QED
      BY <1>1, <2>1, <2>2, <3>1, <3>2 DEF TurnInv, Forward, Lower
  <2> QED
    BY <2>3, <2>4
<1>4. pc = "count" => /\ c \in 0..3 /\ j \in 0..height
                      /\ ScanlinesLeft = 2 * height + 2 - j /\ ChannelsLeft = 4 - c
                      /\ ColumnsLeft = width - i /\ Turn = 0
  BY DEF TurnInv, ScanlinesLeft, ChannelsLeft, ColumnsLeft, Turn, Writing, InRle, Channels
<1>5. CASE ReadCount
  <2>1. pc = "count" /\ nleft > 0 /\ j' = j /\ c' = c
    BY <1>5 DEF ReadCount
  <2>2. PICK count : count = IF get8(1) > Top THEN get8(1) - Top ELSE get8(1)
    OBVIOUS
  <2>3. get8(1) \in 0..(2 * Top - 1) /\ count \in Nat
    BY <2>2, GetIsByte, TopFacts DEF SizeInv
  <2>4. CASE ~CountFits(count)
    <3>1. pc' = "failed"
      BY <1>5, <2>2, <2>4 DEF ReadCount
    <3>2. ScanlinesLeft' = 0
      BY <3>1 DEF ScanlinesLeft, Writing
    <3> QED
      BY <1>1, <1>4, <2>1, <3>1, <3>2 DEF TurnInv, Forward, Lower
  <2>5. CASE CountFits(count)
    <3>1. pc' = "count" /\ i' = i + count
      BY <1>5, <2>1, <2>2, <2>5 DEF ReadCount
    <3>2. /\ ScanlinesLeft' = ScanlinesLeft /\ ChannelsLeft' = ChannelsLeft
          /\ ColumnsLeft' = width - (i + count) /\ Turn' = 0
      BY <1>1, <1>4, <2>1, <3>1
         DEF ScanlinesLeft, ChannelsLeft, ColumnsLeft, Turn, Writing, InRle
    <3>3. TurnInv'
      BY <1>1, <1>4, <2>1, <3>1 DEF TurnInv, Channels
    <3>4. CASE count > 0
      <4>1. ColumnsLeft' < ColumnsLeft
        BY <1>1, <1>4, <2>1, <2>3, <3>2, <3>4
      <4> QED
        BY <3>2, <3>3, <4>1 DEF Forward, Lower
    <3>5. CASE count = 0
      <4>1. Past(1)
        <5>1. ~(get8(1) > Top) /\ get8(1) = 0 /\ 0 + 1 = 1
          BY <2>2, <2>3, <3>5, TopFacts
        <5> QED
          BY <1>5, <2>2, <2>5, <3>5, <5>1 DEF ReadCount
      <4>2. CASE at = Len(bytes)
        BY <2>1, <3>3, <4>2 DEF AtEnd
      <4>3. CASE at # Len(bytes)
        <5>1. at + 1 <= Len(bytes) /\ at' = at + 1
          BY <1>1, <4>1, <4>3, PastIs DEF SizeInv
        <5>2. (Len(bytes) - at)' < Len(bytes) - at
          BY <1>1, <5>1
        <5>3. ColumnsLeft' = ColumnsLeft /\ Turn' = Turn
          BY <1>1, <1>4, <2>1, <3>2, <3>5
        <5> QED
          BY <3>2, <3>3, <5>2, <5>3 DEF Forward, Lower
      <4> QED
        BY <4>2, <4>3
    <3> QED
      BY <2>3, <3>4, <3>5
  <2> QED
    BY <2>4, <2>5
<1>6. CASE EndOfChannel
  <2>1. pc = "count"
    BY <1>6 DEF EndOfChannel
  <2>2. CASE c < 3
    <3>1. pc' = "count" /\ j' = j /\ c' = c + 1
      BY <1>6, <2>1, <2>2 DEF EndOfChannel
    <3>2. ScanlinesLeft' = ScanlinesLeft /\ ChannelsLeft' = 4 - (c + 1)
      BY <1>1, <1>4, <2>1, <3>1 DEF ScanlinesLeft, ChannelsLeft, Writing, InRle
    <3> QED
      BY <1>1, <1>4, <2>1, <2>2, <3>1, <3>2 DEF TurnInv, Channels, Forward, Lower
  <2>3. CASE ~(c < 3)
    <3>1. j' = j + 1 /\ (pc' = "loaded" \/ (pc' = "row" /\ j + 1 < height))
      BY <1>6, <2>3 DEF EndOfChannel, NextRow
    <3>2. ScanlinesLeft' = 0 \/ ScanlinesLeft' = 2 * height + 2 - (j + 1)
      BY <1>1, <3>1 DEF ScanlinesLeft, Writing
    <3> QED
      BY <1>1, <1>4, <2>1, <3>1, <3>2 DEF TurnInv, Forward, Lower
  <2> QED
    BY <2>2, <2>3
<1> QED
  BY <1>2, <1>3, <1>5, <1>6 DEF Load

LEMMA TurnStep == SizeInv /\ TurnInv /\ [Next]_vars => TurnInv'
<1>1. ASSUME TurnInv, UNCHANGED vars PROVE TurnInv'
  BY <1>1 DEF vars, size, writer, TurnInv
<1> QED
  BY <1>1, WriteForward, LoadForward DEF Next

\* Left goes down with the numbers.
LEMMA ForwardIsLess ==
  ASSUME LeftOK, LeftOK', Forward
  PROVE  LeftDescends
<1>1. PICK s, k, n, t, u :
        s = ScanlinesLeft /\ k = ChannelsLeft /\ n = ColumnsLeft /\ t = Turn
        /\ u = Len(bytes) - at
  OBVIOUS
<1>2. PICK s1, k1, n1, t1, u1 :
        s1 = ScanlinesLeft' /\ k1 = ChannelsLeft' /\ n1 = ColumnsLeft' /\ t1 = Turn'
        /\ u1 = (Len(bytes) - at)'
  OBVIOUS
<1>3. s \in Nat /\ k \in 0..5 /\ n \in Nat /\ t \in 0..4 /\ u \in Nat
  BY <1>1 DEF LeftOK
<1>4. s1 \in Nat /\ k1 \in 0..5 /\ n1 \in Nat /\ t1 \in 0..4 /\ u1 \in Nat
  BY <1>2 DEF LeftOK
<1>5. Lower(s1, k1, n1, t1, u1, s, k, n, t, u)
  BY <1>1, <1>2 DEF Forward
<1>6. <<Triple(s1, k1, n1, t1, u1), Triple(s, k, n, t, u)>> \in TripleLess
  BY ONLY <1>3, <1>4, <1>5, TripleDown
<1>7. Left = Triple(s, k, n, t, u)
  BY <1>1 DEF Left
<1>8. Left' = Triple(s1, k1, n1, t1, u1)
  BY <1>2 DEF Left
<1> QED
  BY <1>6, <1>7, <1>8 DEF LeftDescends

\* Where a count of a written picture is read, the file goes on.
LEMMA WrittenGoesOn ==
  ASSUME SizeInv, BackInv, picture # <<>>
  PROVE  ~AtEnd
<1> SUFFICES ASSUME AtEnd PROVE FALSE
  OBVIOUS
<1>1. pc = "count" /\ i < width /\ at = Len(bytes) /\ Len(bytes) \in Nat
  BY LenProperties DEF AtEnd, nleft, SizeInv, FileInv
<1>2. RleInv
  BY <1>1 DEF BackInv, FlatInv
<1>3. PICK E : Chain(picture, bytes, E, Frontier) /\ Place \in E
  BY <1>2 DEF RleInv
<1>4. <<j, c, i, at>> \in E /\ c \in 0..3 /\ j \in 0..(height - 1)
  BY <1>1, <1>2, <1>3 DEF RleInv, Place, Channels
<1>5. Leads(picture, bytes, E, j, c, i, at)
  BY <1>1, <1>3, <1>4, PlaceLeads
<1>6. width = Len(picture[1][0]) /\ width \in Nat
  BY DEF SizeInv, PictureInv, FileInv
<1>7. \E len \in 1..Top : IsDump(picture, bytes, j, c, i, at, len)
                          \/ IsRun(picture, bytes, j, c, i, at, len)
  <2>1. c # -1 /\ i # Len(picture[1][0])
    BY <1>1, <1>4, <1>6
  <2> QED
    BY <1>5, <2>1 DEF Leads
<1>8. PICK len \in 1..Top : at + 1 + len <= Len(bytes) \/ at + 2 <= Len(bytes)
  BY <1>7 DEF IsDump, IsRun
<1> QED
  BY <1>1, <1>8, TopFacts

\* Every step of the writer and of the reader leaves less to do, in an ordering
\* that has no infinite descent, whatever is written and whatever the file says.
\* Only where a file ends before a scanline is complete the loop over its counts
\* stands still, and no file that was written is such a file.
THEOREM RunsOut ==
  /\ IsWellFoundedOn(TripleLess, Triples)
  /\ Spec => [][LeftDescends \/ AtEnd]_vars
  /\ Spec => [](picture # <<>> => ~AtEnd)
<1>1. Spec => [](SizeInv /\ BackInv /\ TurnInv)
  <2>1. Init => SizeInv /\ BackInv /\ TurnInv
    BY SizeInit, BackInit, TurnInit
  <2>2. SizeInv /\ BackInv /\ TurnInv /\ [Next]_vars => (SizeInv /\ BackInv /\ TurnInv)'
    BY SizeStep, BackStep, TurnStep
  <2> QED
    BY <2>1, <2>2, PTL DEF Spec
<1>2. SizeInv /\ TurnInv /\ LeftOK /\ LeftOK' /\ [Next]_vars => [LeftDescends \/ AtEnd]_vars
  <2> SUFFICES ASSUME SizeInv, TurnInv, LeftOK, LeftOK', Next PROVE LeftDescends \/ AtEnd
    OBVIOUS
  <2>1. Forward \/ AtEnd
    BY WriteForward, LoadForward DEF Next
  <2> QED
    BY <2>1, ForwardIsLess
<1>3. Spec => [][LeftDescends \/ AtEnd]_vars
  BY <1>1, <1>2, LeftTyped, PTL DEF Spec
<1>4. SizeInv /\ BackInv => (picture # <<>> => ~AtEnd)
  BY WrittenGoesOn
<1>5. Spec => [](picture # <<>> => ~AtEnd)
  BY <1>1, <1>4, PTL
<1> QED
  BY <1>3, <1>5, TriplesAreWellFounded

===============================================================================
