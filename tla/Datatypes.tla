------------------------------ MODULE Datatypes ------------------------------
(***************************************************************************)
(* The last branch of main: a format that kraffiti does not know is looked *)
(* for in the plugins of the directory Datatypes beside the executable     *)
(* (Sources/dir.cpp, Sources/datatype.cpp).                                *)
(*                                                                         *)
(* What the directory holds is chosen at the start, in the order Windows   *)
(* lists it.  Of a name it is kept whether it begins with "kraffiti-"; of  *)
(* the library of that name whether the loader finds and accepts it, and   *)
(* the formats it says it can encode.  Where there is no Windows there are *)
(* no files.                                                               *)
(***************************************************************************)
EXTENDS Integers, Sequences, SequencesExt

CONSTANTS
  Windows,    \* is _WIN32 defined?
  Listings,   \* the directories there may be, each the sequence of its names
  Plugins,    \* the names that begin with "kraffiti-"
  Loads,      \* those of them LoadLibrary accepts
  Formats,    \* [Loads -> Seq of formats], what formats() gives, split at '|'
  Wanted,     \* the formats that may be asked for
  NONE

ASSUME PluginsAssumption ==
  /\ Windows \in BOOLEAN /\ Loads \subseteq Plugins /\ "." \notin Plugins
  /\ ".." \notin Plugins /\ NONE \notin Plugins

ASSUME ListsAssumption ==
  /\ \A d \in Listings : d \in Seq(Range(d))
  /\ \A p \in Loads : Formats[p] \in Seq(Range(Formats[p]))

\* FindFirstFile and FindNextFile list every directory but a root with these
\* two first.
Dots == <<".", "..">>

VARIABLES
  pc,         \* "open", "read", "load", "match", "write", "close", "end", "failed",
              \* "undefined"
  format,
  listing,    \* what the directory holds, or NONE if there is none
  handle,     \* "none", "open", "closed"
  next,       \* how many names were listed
  file,       \* file.name while file.valid, or NONE
  loaded,     \* the libraries in memory
  i,          \* which of the formats is compared
  opens,      \* can the output file be opened?
  written,    \* the plugins whose data was written
  said        \* the message that the format is not supported

vars == <<pc, format, listing, handle, next, file, loaded, i, opens, written, said>>

Init ==
  /\ pc = "open" /\ format \in Wanted /\ opens \in BOOLEAN
  /\ listing \in { Dots \o d : d \in Listings } \union {NONE}
  /\ handle = "none" /\ next = 0 /\ file = NONE /\ loaded = {} /\ i = 0
  /\ written = {} /\ said = FALSE

\* The first of the two names is FindFirstFile's, and lost.
MutSkipped == 1 + 2
Skipped == 2

openDir ==
  /\ pc = "open"
  /\ IF Windows /\ listing = NONE
     THEN pc' = "failed" /\ UNCHANGED <<handle, next>>
     ELSE /\ pc' = "read"
          /\ handle' = IF Windows THEN "open" ELSE "none"
          /\ next' = IF Windows THEN Skipped ELSE 0
  /\ UNCHANGED <<format, listing, file, loaded, i, opens, written, said>>

AtEnd == ~Windows \/ next >= Len(listing)

\* At the end the name is copied from data that nobody has written.  It is not
\* looked at then; without a zero in reach the copy leaves file.name.
readNextFile ==
  /\ pc = "read"
  /\ IF AtEnd
     THEN /\ file' = NONE /\ UNCHANGED next
          /\ pc' \in IF Windows THEN {"close", "undefined"} ELSE {"close"}
     ELSE /\ next' = next + 1 /\ file' = listing[next + 1]
          /\ pc' = IF file' \in Plugins THEN "load" ELSE "read"
  /\ UNCHANGED <<format, listing, handle, loaded, i, opens, written, said>>

\* loadDatatype and the call of formats(): GetProcAddress of no library is
\* null, and nobody looks.
loadDatatype ==
  /\ pc = "load"
  /\ IF file \in Loads THEN pc' = "match" /\ loaded' = loaded \union {file}
     ELSE pc' = "undefined" /\ UNCHANGED loaded
  /\ i' = 1
  /\ UNCHANGED <<format, listing, handle, next, file, opens, written, said>>

\* One turn of the loop over formats; after it the next file is read.
MatchFormat ==
  /\ pc = "match"
  /\ IF i > Len(Formats[file]) THEN pc' = "read" /\ UNCHANGED i
     ELSE IF Formats[file][i] = format THEN pc' = "write" /\ UNCHANGED i
     ELSE i' = i + 1 /\ UNCHANGED pc
  /\ UNCHANGED <<format, listing, handle, next, file, loaded, opens, written, said>>

\* The loops are left by break.
MutAfterWrite == "read"
\* goto end
AfterWrite == "end"

\* encode, LZ4_compress_default and writeK.
WriteK ==
  /\ pc = "write"
  /\ IF opens THEN pc' = AfterWrite /\ written' = written \union {file}
     ELSE pc' = "undefined" /\ UNCHANGED written
  /\ UNCHANGED <<format, listing, handle, next, file, loaded, i, opens, said>>

closeDir ==
  /\ pc = "close" /\ pc' = "end"
  /\ handle' = IF Windows THEN "closed" ELSE handle
  /\ said' = TRUE
  /\ UNCHANGED <<format, listing, next, file, loaded, i, opens, written>>

Next == openDir \/ readNextFile \/ loadDatatype \/ MatchFormat \/ WriteK \/ closeDir

Spec == Init /\ [][Next]_vars

-----------------------------------------------------------------------------
(* Properties.                                                             *)

\* Every variable has its type.
TypeOK ==
  /\ pc \in {"open", "read", "load", "match", "write", "close", "end", "failed", "undefined"}
  /\ handle \in {"none", "open", "closed"} /\ next \in 0..(IF listing = NONE THEN 0 ELSE Len(listing))
  /\ file = NONE \/ file \in Range(listing)
  /\ loaded \subseteq Loads /\ written \subseteq loaded
  /\ opens \in BOOLEAN /\ said \in BOOLEAN

InDirectory == { k \in DOMAIN listing : listing[k] \in Plugins }
Encodes(k) == listing[k] \in Loads /\ format \in Range(Formats[listing[k]])

\* The data in the output file is that of the first plugin of the directory
\* that knows the format, and of no other.
FirstPluginWins ==
  written # {} => \E k \in InDirectory :
    written = {listing[k]} /\ Encodes(k) /\ \A j \in InDirectory : Encodes(j) => k <= j

\* "Format %s not supported." is said when no plugin of the directory knows
\* the format, and then only; all of them were asked.
SaidIsTrue ==
  pc = "end" =>
    /\ said <=> (~Windows \/ \A k \in InDirectory : ~Encodes(k))
    /\ said <=> (written = {})

\* A library that cannot be loaded does no harm when the one that is wanted is
\* listed before it.
LaterPluginsAreHarmless ==
  pc = "undefined" /\ opens => \A k \in InDirectory :
    Encodes(k) => \E j \in InDirectory : j < k /\ listing[j] \notin Loads
=============================================================================
