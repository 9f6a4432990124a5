--------------------------- MODULE DatatypesProofs ---------------------------
(***************************************************************************)
(* Proofs about Datatypes, for directories of any length and plugins with  *)
(* any formats.                                                            *)
(***************************************************************************)
EXTENDS Datatypes, SequenceTheorems, TLAPS

\* Every plugin up to the m-th name could be loaded, and none was the one.
PassedUpTo(m) ==
  \A k \in InDirectory : k <= m => listing[k] \in Loads /\ ~Encodes(k)

\* Windows has listed a plugin, after others that do not know the format.
AtPlugin ==
  /\ Windows /\ listing # NONE
  /\ next \in InDirectory /\ file = listing[next] /\ PassedUpTo(next - 1)

Listed ==
  listing # NONE =>
    /\ listing \in Seq(Range(listing)) /\ Len(listing) >= Skipped
    /\ \A k \in InDirectory : k > Skipped

Quiet == written = {} /\ ~said

\* What is known where.
Progress ==
  /\ pc \notin {"end"} => Quiet
  /\ pc = "read" => ~Windows \/ (listing # NONE /\ PassedUpTo(next))
  /\ pc \in {"load", "match", "write"} => AtPlugin
  /\ pc \in {"match", "write"} => file \in Loads /\ file \in loaded
  /\ pc = "match" =>
       i \in Nat \ {0} /\ \A j \in 1..Len(Formats[file]) : j < i => Formats[file][j] # format
  /\ pc = "write" => Encodes(next)
  /\ pc = "close" => ~Windows \/ \A k \in InDirectory : ~Encodes(k)
  /\ pc = "end" =>
       \/ said /\ written = {} /\ (~Windows \/ \A k \in InDirectory : ~Encodes(k))
       \/ ~said /\ AtPlugin /\ Encodes(next) /\ written = {listing[next]}
  /\ LaterPluginsAreHarmless

Inv == TypeOK /\ Listed /\ Progress

-----------------------------------------------------------------------------
LEMMA Prefixed ==
  ASSUME NEW S, NEW d \in Seq(S), NEW u \in S, NEW v \in S
  PROVE  /\ <<u, v>> \o d \in Seq(Range(<<u, v>> \o d))
         /\ Len(<<u, v>> \o d) \in Nat /\ Len(<<u, v>> \o d) >= 2
         /\ (<<u, v>> \o d)[1] = u /\ (<<u, v>> \o d)[2] = v
<1> DEFINE t == <<u, v>> \o d
<1>1. <<u, v>> \in Seq(S) /\ Len(<<u, v>>) = 2 /\ <<u, v>>[1] = u /\ <<u, v>>[2] = v
  OBVIOUS
<1>2. Len(d) \in Nat
  OBVIOUS
<1>3. t \in Seq(S) /\ Len(t) = 2 + Len(d)
  BY <1>1, ConcatProperties
<1>4. \A k \in 1..(2 + Len(d)) : t[k] = IF k <= 2 THEN <<u, v>>[k] ELSE d[k - 2]
  BY <1>1, ConcatProperties
<1>5. t[1] = u /\ t[2] = v
  BY <1>1, <1>2, <1>4
<1>6. t \in Seq(Range(t))
  <2> HIDE DEF t
  <2>1. DOMAIN t = 1..Len(t) /\ Len(t) \in Nat
    BY <1>3
  <2>2. \A k \in 1..Len(t) : t[k] \in Range(t)
    BY <2>1 DEF Range
  <2> QED
    BY <1>3, <2>1, <2>2
<1> QED
  BY <1>2, <1>3, <1>5, <1>6

LEMMA DotsAreFirst ==
  ASSUME NEW d \in Listings
  PROVE  /\ Dots \o d \in Seq(Range(Dots \o d))
         /\ Len(Dots \o d) \in Nat /\ Len(Dots \o d) >= 2
         /\ (Dots \o d)[1] = "." /\ (Dots \o d)[2] = ".."
<1> DEFINE S == Range(d) \union {".", ".."}
<1>1. d \in Seq(S) /\ "." \in S /\ ".." \in S
  <2>1. d \in Seq(Range(d))
    BY ListsAssumption
  <2> QED
    BY <2>1
<1> HIDE DEF S
<1> QED
  BY <1>1, Prefixed DEF Dots

LEMMA InvInit == Init => Inv
<1> SUFFICES ASSUME Init PROVE Inv
  OBVIOUS
<1>1. Listed
  <2> SUFFICES ASSUME listing # NONE
               PROVE  /\ listing \in Seq(Range(listing)) /\ Len(listing) >= Skipped
                      /\ \A k \in InDirectory : k > Skipped
    BY DEF Listed
  <2>1. PICK d \in Listings : listing = Dots \o d
    BY DEF Init
  <2>2. /\ listing \in Seq(Range(listing)) /\ listing[1] = "." /\ listing[2] = ".."
        /\ Len(listing) \in Nat /\ Len(listing) >= 2
    BY <2>1, DotsAreFirst
  <2>3. ASSUME NEW k \in InDirectory PROVE k > 2
    <3>1. k \in 1..Len(listing) /\ listing[k] \in Plugins
      BY <2>2 DEF InDirectory
    <3> QED
      BY <3>1, <2>2, PluginsAssumption
  <2> QED
    BY <2>2, <2>3 DEF Skipped
<1>2. TypeOK
  <2>1. listing # NONE => Len(listing) \in Nat
    BY <1>1 DEF Listed
  <2>2. next \in 0..(IF listing = NONE THEN 0 ELSE Len(listing))
    BY <2>1 DEF Init
  <2> QED
    BY <2>2 DEF Init, TypeOK
<1>3. Progress
  BY DEF Init, Progress, Quiet, LaterPluginsAreHarmless
<1> QED
  BY <1>1, <1>2, <1>3 DEF Inv

-----------------------------------------------------------------------------
(* What Windows has listed, by its number.                                 *)
LEMMA Numbers ==
  ASSUME Inv
  PROVE  /\ listing # NONE =>
              /\ Len(listing) \in Nat /\ Len(listing) >= 2
              /\ DOMAIN listing = 1..Len(listing)
              /\ \A k \in InDirectory : k \in 1..Len(listing) /\ k > 2
         /\ next \in Nat /\ Windows \in BOOLEAN
<1>1. Listed /\ next \in Nat
  <2>1. next \in 0..(IF listing = NONE THEN 0 ELSE Len(listing))
    BY DEF Inv, TypeOK
  <2> QED
    BY <2>1 DEF Inv
<1>2. Windows \in BOOLEAN
  BY PluginsAssumption
<1> QED
  BY <1>1, <1>2 DEF Listed, InDirectory, Skipped

(* The directory and the request stay, and what is said of them.           *)
LEMMA SameDirectory ==
  ASSUME Inv, UNCHANGED <<format, listing>>
  PROVE  /\ Listed' /\ InDirectory' = InDirectory
         /\ \A k : Encodes(k)' = Encodes(k)
<1>1. Listed
  BY DEF Inv
<1> QED
  BY <1>1 DEF Listed, InDirectory, Encodes

LEMMA OpenDirStep ==
  ASSUME Inv, openDir
  PROVE  Inv'
<1>1. Listed' /\ InDirectory' = InDirectory /\ \A k : Encodes(k)' = Encodes(k)
  BY SameDirectory DEF openDir
<1>2. Quiet'
  BY DEF Inv, Progress, openDir, Quiet
<1>3. TypeOK'
  <2>1. next' \in 0..(IF listing = NONE THEN 0 ELSE Len(listing))
    BY Numbers DEF openDir, Inv, TypeOK, Skipped
  <2>2. pc' \in {"failed", "read"} /\ handle' \in {"none", "open", "closed"}
    BY DEF openDir, Inv, TypeOK
  <2> QED
    BY <2>1, <2>2 DEF openDir, Inv, TypeOK
<1>4. Progress'
  <2>1. pc' \in {"failed", "read"}
    BY DEF openDir
  <2>2. ASSUME pc' = "read", Windows
        PROVE  listing # NONE /\ PassedUpTo(next)'
    <3>1. listing # NONE /\ next' = 2
      BY <2>2 DEF openDir, Skipped
    <3>2. \A k \in InDirectory : ~(k <= 2)
      BY <3>1, Numbers
    <3> QED
      BY <3>1, <3>2, <1>1 DEF PassedUpTo
  <2>3. listing' = listing
    BY DEF openDir
  <2> QED
    BY <2>1, <2>2, <2>3, <1>2 DEF Progress, LaterPluginsAreHarmless
<1> QED
  BY <1>1, <1>3, <1>4 DEF Inv

LEMMA ReadNextFileStep ==
  ASSUME Inv, readNextFile
  PROVE  Inv'
<1>1. Listed' /\ InDirectory' = InDirectory /\ \A k : Encodes(k)' = Encodes(k)
  BY SameDirectory DEF readNextFile
<1>2. Quiet' /\ listing' = listing /\ pc = "read"
  BY DEF Inv, Progress, readNextFile, Quiet
<1>3. ~Windows \/ (listing # NONE /\ PassedUpTo(next))
  BY <1>2 DEF Inv, Progress
<1>4. CASE AtEnd
  <2>1. pc' \in {"close", "undefined"} /\ (~Windows => pc' = "close")
    BY <1>4 DEF readNextFile
  <2>2. ASSUME Windows, NEW k \in InDirectory PROVE ~Encodes(k)
    <3>1. k <= next
      BY <1>3, <1>4, <2>2, Numbers DEF AtEnd
    <3> QED
      BY <3>1, <1>3, <2>2 DEF PassedUpTo
  <2>3. TypeOK'
    <3>1. file' = NONE /\ next' = next
      BY <1>4 DEF readNextFile
    <3> QED
      BY <3>1, <2>1 DEF readNextFile, Inv, TypeOK
  <2>4. Progress'
    BY <2>1, <2>2, <1>1, <1>2 DEF Progress, LaterPluginsAreHarmless
  <2> QED
    BY <2>3, <2>4, <1>1 DEF Inv
<1>5. CASE ~AtEnd
  <2>1. /\ Windows /\ next' = next + 1 /\ file' = listing[next + 1]
        /\ pc' = IF file' \in Plugins THEN "load" ELSE "read"
    BY <1>5 DEF readNextFile, AtEnd
  <2>2. listing # NONE /\ PassedUpTo(next) /\ next + 1 \in 1..Len(listing)
    BY <2>1, <1>3, <1>5, Numbers DEF AtEnd
  <2>3. TypeOK'
    <3>1. file' \in Range(listing)
      BY <2>1, <2>2, Numbers DEF Range
    <3>2. next' \in 0..Len(listing)
      BY <2>1, <2>2, Numbers
    <3> QED
      BY <3>1, <3>2, <2>1, <2>2 DEF readNextFile, Inv, TypeOK
  <2>4. CASE file' \in Plugins
    <3>1. next' \in InDirectory
      BY <2>1, <2>2, <2>4, Numbers DEF InDirectory
    <3>2. next' - 1 = next
      BY <2>1, Numbers
    <3>3. AtPlugin'
      BY <2>1, <2>2, <3>1, <3>2, <1>1, <1>2 DEF AtPlugin, PassedUpTo
    <3>4. pc' = "load"
      BY <2>1, <2>4
    <3>5. LaterPluginsAreHarmless'
      BY <3>4 DEF LaterPluginsAreHarmless
    <3>6. Progress'
      BY <3>3, <3>4, <3>5, <1>2 DEF Progress
    <3> QED
      BY <3>6, <2>3, <1>1 DEF Inv
  <2>5. CASE file' \notin Plugins
    <3>1. ASSUME NEW k \in InDirectory, k <= next' PROVE k <= next
      <4>1. k # next + 1
        BY <2>1, <2>5 DEF InDirectory
      <4> QED
        BY <4>1, <3>1, <2>1, <2>2, Numbers
    <3>2. PassedUpTo(next)'
      BY <3>1, <2>2, <1>1, <1>2 DEF PassedUpTo
    <3>3. pc' = "read"
      BY <2>1, <2>5
    <3>4. LaterPluginsAreHarmless'
      BY <3>3 DEF LaterPluginsAreHarmless
    <3>5. Progress'
      BY <3>2, <3>3, <3>4, <2>2, <1>2 DEF Progress
    <3> QED
      BY <3>5, <2>3, <1>1 DEF Inv
  <2> QED
    BY <2>4, <2>5
<1> QED
  BY <1>4, <1>5

LEMMA LoadDatatypeStep ==
  ASSUME Inv, loadDatatype
  PROVE  Inv'
<1>1. Listed' /\ InDirectory' = InDirectory /\ \A k : Encodes(k)' = Encodes(k)
  BY SameDirectory DEF loadDatatype
<1>2. Quiet' /\ listing' = listing /\ next' = next /\ pc = "load" /\ file' = file
  BY DEF Inv, Progress, loadDatatype, Quiet
<1>3. AtPlugin /\ AtPlugin'
  BY <1>1, <1>2 DEF Inv, Progress, AtPlugin, PassedUpTo
<1>4. TypeOK'
  BY DEF loadDatatype, Inv, TypeOK
<1>5. CASE file \in Loads
  <2>1. pc' = "match" /\ i' = 1
    BY <1>5 DEF loadDatatype
  <2>5. file' \in loaded'
    BY <1>2, <1>5 DEF loadDatatype
  <2>2. \A j \in 1..Len(Formats[file]) : ~(j < 1)
    <3>1. Len(Formats[file]) \in Nat
      BY <1>5, ListsAssumption
    <3> QED
      BY <3>1
  <2>3. LaterPluginsAreHarmless'
    BY <2>1 DEF LaterPluginsAreHarmless
  <2>4. Progress'
    BY <2>1, <2>2, <2>3, <2>5, <1>2, <1>3, <1>5 DEF Progress
  <2> QED
    BY <2>4, <1>1, <1>4 DEF Inv
<1>6. CASE file \notin Loads
  <2>1. pc' = "undefined"
    BY <1>6 DEF loadDatatype
  <2>2. ASSUME NEW k \in InDirectory, Encodes(k)
        PROVE  next < k /\ next \in InDirectory /\ listing[next] \notin Loads
    <3>1. ~(k <= next - 1)
      BY <2>2, <1>3 DEF AtPlugin, PassedUpTo
    <3>2. k # next
      BY <2>2, <1>3, <1>6 DEF AtPlugin, Encodes
    <3>3. listing # NONE /\ next \in InDirectory /\ listing[next] \notin Loads
      BY <1>3, <1>6 DEF AtPlugin
    <3> QED
      BY <3>1, <3>2, <3>3, Numbers
  <2>3. LaterPluginsAreHarmless'
    BY <2>2, <1>1, <1>2 DEF LaterPluginsAreHarmless
  <2>4. Progress'
    BY <2>1, <2>3, <1>2 DEF Progress
  <2> QED
    BY <2>4, <1>1, <1>4 DEF Inv
<1> QED
  BY <1>5, <1>6

LEMMA MatchFormatStep ==
  ASSUME Inv, MatchFormat
  PROVE  Inv'
<1>1. Listed' /\ InDirectory' = InDirectory /\ \A k : Encodes(k)' = Encodes(k)
  BY SameDirectory DEF MatchFormat
<1>2. /\ Quiet' /\ listing' = listing /\ next' = next /\ file' = file /\ format' = format
      /\ pc = "match"
  BY DEF Inv, Progress, MatchFormat, Quiet
<1>3. AtPlugin /\ AtPlugin' /\ file \in Loads /\ file' \in loaded'
  BY <1>1, <1>2 DEF Inv, Progress, AtPlugin, PassedUpTo, MatchFormat
<1>4. /\ i \in Nat \ {0}
      /\ \A j \in 1..Len(Formats[file]) : j < i => Formats[file][j] # format
  BY <1>2 DEF Inv, Progress
<1>5. /\ Len(Formats[file]) \in Nat /\ DOMAIN Formats[file] = 1..Len(Formats[file])
  BY <1>3, ListsAssumption
<1>6. TypeOK'
  BY DEF MatchFormat, Inv, TypeOK
<1>7. CASE i > Len(Formats[file])
  <2>1. pc' = "read"
    BY <1>7 DEF MatchFormat
  <2>2. ~Encodes(next)
    <3>1. \A j \in 1..Len(Formats[file]) : Formats[file][j] # format
      BY <1>4, <1>5, <1>7
    <3>2. format \notin Range(Formats[file])
      BY <3>1, <1>5 DEF Range
    <3> QED
      BY <3>2, <1>3 DEF AtPlugin, Encodes
  <2>3. ASSUME NEW k \in InDirectory, k <= next PROVE listing[k] \in Loads /\ ~Encodes(k)
    <3>1. k = next \/ k <= next - 1
      BY <2>3, <1>3, Numbers DEF AtPlugin
    <3> QED
      BY <3>1, <2>2, <1>3 DEF AtPlugin, PassedUpTo
  <2>4. PassedUpTo(next)' /\ listing # NONE
    BY <2>3, <1>1, <1>2, <1>3 DEF PassedUpTo, AtPlugin
  <2>5. LaterPluginsAreHarmless'
    BY <2>1 DEF LaterPluginsAreHarmless
  <2>6. Progress'
    BY <2>1, <2>4, <2>5, <1>2 DEF Progress
  <2> QED
    BY <2>6, <1>1, <1>6 DEF Inv
<1>8. CASE i <= Len(Formats[file]) /\ Formats[file][i] = format
  <2>1. pc' = "write"
    BY <1>8, <1>4, <1>5 DEF MatchFormat
  <2>2. Encodes(next)'
    <3>1. format \in Range(Formats[file])
      BY <1>8, <1>4, <1>5 DEF Range
    <3> QED
      BY <3>1, <1>1, <1>2, <1>3 DEF Encodes, AtPlugin
  <2>3. LaterPluginsAreHarmless'
    BY <2>1 DEF LaterPluginsAreHarmless
  <2>4. Progress'
    BY <2>1, <2>2, <2>3, <1>2, <1>3 DEF Progress
  <2> QED
    BY <2>4, <1>1, <1>6 DEF Inv
<1>9. CASE i <= Len(Formats[file]) /\ Formats[file][i] # format
  <2>1. pc' = "match" /\ i' = i + 1
    BY <1>9, <1>2, <1>4, <1>5 DEF MatchFormat
  <2>2. \A j \in 1..Len(Formats[file]) : j < i + 1 => Formats[file][j] # format
    BY <1>4, <1>5, <1>9
  <2>3. LaterPluginsAreHarmless'
    BY <2>1 DEF LaterPluginsAreHarmless
  <2>4. i + 1 \in Nat \ {0}
    BY <1>4
  <2>5. Progress'
    BY <2>1, <2>2, <2>3, <2>4, <1>2, <1>3 DEF Progress
  <2> QED
    BY <2>5, <1>1, <1>6 DEF Inv
<1> QED
  BY <1>4, <1>5, <1>7, <1>8, <1>9

LEMMA WriteKStep ==
  ASSUME Inv, WriteK
  PROVE  Inv'
<1>1. Listed' /\ InDirectory' = InDirectory /\ \A k : Encodes(k)' = Encodes(k)
  BY SameDirectory DEF WriteK
<1>2. /\ Quiet /\ said' = said /\ listing' = listing /\ next' = next /\ file' = file
      /\ opens' = opens /\ pc = "write"
  BY DEF Inv, Progress, WriteK, Quiet
<1>3. AtPlugin /\ AtPlugin' /\ Encodes(next) /\ Encodes(next)'
  BY <1>1, <1>2 DEF Inv, Progress, AtPlugin, PassedUpTo
<1>4. file = listing[next] /\ file \in Loads
  BY <1>2, <1>3 DEF AtPlugin, Encodes
<1>5. CASE opens
  <2>1. pc' = "end" /\ written' = {file}
    BY <1>5, <1>2 DEF WriteK, AfterWrite, Quiet
  <2>2. TypeOK'
    <3>1. file \in loaded
      BY <1>2 DEF Inv, Progress, TypeOK
    <3> QED
      BY <3>1, <2>1 DEF WriteK, Inv, TypeOK
  <2>3. LaterPluginsAreHarmless'
    BY <2>1 DEF LaterPluginsAreHarmless
  <2>4. Progress'
    BY <2>1, <2>3, <1>2, <1>3, <1>4 DEF Progress, Quiet
  <2> QED
    BY <2>2, <2>4, <1>1 DEF Inv
<1>6. CASE ~opens
  <2>1. pc' = "undefined" /\ Quiet'
    BY <1>6, <1>2 DEF WriteK, Quiet
  <2>2. LaterPluginsAreHarmless'
    BY <1>6, <1>2 DEF LaterPluginsAreHarmless
  <2>3. Progress'
    BY <2>1, <2>2 DEF Progress
  <2>4. TypeOK'
    BY <1>6 DEF WriteK, Inv, TypeOK
  <2> QED
    BY <2>3, <2>4, <1>1 DEF Inv
<1> QED
  BY <1>5, <1>6

LEMMA CloseDirStep ==
  ASSUME Inv, closeDir
  PROVE  Inv'
<1>1. Listed' /\ InDirectory' = InDirectory /\ \A k : Encodes(k)' = Encodes(k)
  BY SameDirectory DEF closeDir
<1>2. pc = "close" /\ pc' = "end" /\ said' /\ written' = {}
  BY DEF closeDir, Inv, Progress, Quiet
<1>3. ~Windows \/ \A k \in InDirectory : ~Encodes(k)
  BY <1>2 DEF Inv, Progress
<1>4. LaterPluginsAreHarmless'
  BY <1>2 DEF LaterPluginsAreHarmless
<1>5. Progress'
  BY <1>1, <1>2, <1>3, <1>4 DEF Progress
<1>6. TypeOK'
  BY <1>2 DEF closeDir, Inv, TypeOK
<1> QED
  BY <1>1, <1>5, <1>6 DEF Inv

LEMMA InvStep == Inv /\ [Next]_vars => Inv'
<1> SUFFICES ASSUME Inv, [Next]_vars PROVE Inv'
  OBVIOUS
<1>1. CASE UNCHANGED vars
  <2>1. Listed' /\ InDirectory' = InDirectory /\ \A k : Encodes(k)' = Encodes(k)
    BY <1>1, SameDirectory DEF vars
  <2>2. TypeOK'
    BY <1>1 DEF Inv, TypeOK, vars
  <2>3. LaterPluginsAreHarmless' = LaterPluginsAreHarmless /\ Quiet' = Quiet
    BY <1>1, <2>1 DEF LaterPluginsAreHarmless, Quiet, vars
  <2>4. AtPlugin' = AtPlugin /\ PassedUpTo(next)' = PassedUpTo(next)
    BY <1>1, <2>1 DEF AtPlugin, PassedUpTo, vars
  <2>5. Progress'
    BY <1>1, <2>1, <2>3, <2>4 DEF Inv, Progress, vars
  <2> QED
    BY <2>1, <2>2, <2>5 DEF Inv
<1> QED
  BY <1>1, OpenDirStep, ReadNextFileStep, LoadDatatypeStep, MatchFormatStep, WriteKStep,
     CloseDirStep DEF Next

LEMMA InvHolds == Spec => []Inv
  BY InvInit, InvStep, PTL DEF Spec

-----------------------------------------------------------------------------
(* The variables of the search for a plugin keep their types: no name is   *)
(* asked of the directory behind its last, and what is called was loaded.  *)
THEOREM TypeCorrect == Spec => []TypeOK
<1>1. Inv => TypeOK
  BY DEF Inv
<1> QED
  BY <1>1, InvHolds, PTL

(* Whatever the plugins are and however the directory is ordered: the data *)
(* of the first that knows the format is written, and of no other.         *)
THEOREM FirstPluginAlwaysWins == Spec => []FirstPluginWins
<1>1. Inv => FirstPluginWins
  <2> SUFFICES ASSUME Inv, written # {}
               PROVE  \E k \in InDirectory :
                        /\ written = {listing[k]} /\ Encodes(k)
                        /\ \A j \in InDirectory : Encodes(j) => k <= j
    BY DEF FirstPluginWins
  <2>1. AtPlugin /\ Encodes(next) /\ written = {listing[next]}
    BY DEF Inv, Progress, Quiet
  <2>2. \A j \in InDirectory : Encodes(j) => next <= j
    <3>1. \A j \in InDirectory : Encodes(j) => ~(j <= next - 1)
      BY <2>1 DEF AtPlugin, PassedUpTo
    <3> QED
      BY <3>1, <2>1, Numbers DEF AtPlugin
  <2> QED
    BY <2>1, <2>2 DEF AtPlugin
<1> QED
  BY <1>1, InvHolds, PTL

(* The message that a format is not supported is given if and only if no   *)
(* plugin of the directory knows it, and nothing was written then.         *)
THEOREM WhatIsSaidIsTrue == Spec => []SaidIsTrue
<1>1. Inv => SaidIsTrue
  <2> SUFFICES ASSUME Inv, pc = "end" PROVE SaidIsTrue
    BY DEF SaidIsTrue
  <2>1. CASE said /\ written = {} /\ (~Windows \/ \A k \in InDirectory : ~Encodes(k))
    BY <2>1 DEF SaidIsTrue
  <2>2. CASE ~said /\ AtPlugin /\ Encodes(next) /\ written = {listing[next]}
    BY <2>2 DEF SaidIsTrue, AtPlugin
  <2> QED
    BY <2>1, <2>2 DEF Inv, Progress
<1> QED
  BY <1>1, InvHolds, PTL

(* A library that cannot be loaded ends the search in undefined behaviour  *)
(* only where no library that is wanted was listed before it.              *)
THEOREM LaterPluginsAreAlwaysHarmless == Spec => []LaterPluginsAreHarmless
<1>1. Inv => LaterPluginsAreHarmless
  BY DEF Inv, Progress
<1> QED
  BY <1>1, InvHolds, PTL
=============================================================================
