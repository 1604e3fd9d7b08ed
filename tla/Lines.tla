------------------------------- MODULE Lines -------------------------------
(***************************************************************************)
(* How readfile() splits a file into lines, and how the array of pointers  *)
(* that readfile() and devs() return grows: both double it when it is full *)
(* and clear the new part with memset(), whose count is in bytes while     *)
(* their sizes are in pointers.  Every caller walks the array to its first *)
(* NULL.                                                                   *)
(***************************************************************************)
EXTENDS Integers, Sequences

CONSTANTS
  Chunk,     \* the pointers of the first allocation, 1 << 10
  Ptr,       \* sizeof (char *)
  MaxInput,  \* bound: characters of the file, entries of the directory
  FileState  \* what may be the matter with the file

ASSUME LinesAssumption ==
  /\ Chunk \in Nat /\ Ptr \in 1..Chunk /\ MaxInput \in Nat
  /\ FileState \subseteq {"missing", "unreadable", "readable"}

VARIABLES
  caller,  \* "readfile" or "devs"
  input,   \* the characters of the file; the entries of the directory
  from,    \* begin: where the current line starts
  upto,    \* end: where the scan is
  items,   \* what the strings pointed to hold, in order
  cells,   \* the array: is each pointer to an item, NULL, or never written?
  stage,
  status   \* the value returned

linesVars == <<caller, input, from, upto, items, cells, stage, status>>

Alphabet(c) == IF c = "readfile" THEN {"char", "newline"} ELSE {"shown", "hidden"}

LinesInit ==
  /\ caller \in {"readfile", "devs"}
  /\ input \in UNION {[1..n -> Alphabet(caller)] : n \in 0..MaxInput}
  /\ from = 1 /\ upto = 1 /\ items = <<>> /\ cells = <<>>
  /\ stage = "open" /\ status = 0
-----------------------------------------------------------------------------
(* The array enlarged to n pointers, the first bytes of the rest cleared.  *)
Enlarged(n, bytes) ==
  [i \in 1..n |-> IF i <= Len(cells) THEN cells[i]
                  ELSE IF i <= Len(cells) + bytes \div Ptr THEN "null" ELSE "junk"]

(* All three ways out with a list that holds nothing but its end.          *)
LinesNothing ==
  /\ stage = "open" /\ caller = "readfile"
  /\ \/ "missing" \in FileState /\ status' = 0
     \/ "unreadable" \in FileState /\ status' = -1
     \/ "readable" \in FileState /\ input = <<>> /\ status' = 1
  /\ cells' = <<"null">> /\ stage' = "done"
  /\ UNCHANGED <<caller, input, from, upto, items>>

(* Mutant of ReadWhole: the last line is not ended. *)
ReadWholeUnended ==
  /\ stage = "open" /\ caller = "readfile"
  /\ "readable" \in FileState /\ input # <<>>
  /\ cells' = Enlarged(Chunk, Chunk) /\ stage' = "scan"
  /\ UNCHANGED <<caller, input, from, upto, items, status>>

(* The whole file, to which a newline is added if its last line has none.  *)
ReadWhole ==
  /\ stage = "open" /\ caller = "readfile"
  /\ "readable" \in FileState /\ input # <<>>
  /\ input' = IF input[Len(input)] = "newline" THEN input ELSE Append(input, "newline")
  /\ cells' = Enlarged(Chunk, Chunk) /\ stage' = "scan"
  /\ UNCHANGED <<caller, from, upto, items, status>>

OpenDirectory ==
  /\ stage = "open" /\ caller = "devs"
  /\ cells' = Enlarged(Chunk, Chunk * Ptr) /\ stage' = "scan"
  /\ UNCHANGED <<caller, input, from, upto, items, status>>

(* What memset(&split[count], 0, no - count) leaves of the doubled array.  *)
Roomy ==
  IF Len(items) = Len(cells) THEN Enlarged(2 * Len(cells), 2 * Len(cells) - Len(items)) ELSE cells

(* readfile() looks for room when it has a line, devs() at every entry.    *)
Ends == input[upto] \in {"newline", "shown"}

StoreItem ==
  /\ stage = "scan" /\ upto <= Len(input) /\ Ends
  /\ cells' = [Roomy EXCEPT ![Len(items) + 1] = "item"]
  /\ items' = Append(items, SubSeq(input, from, upto - 1))
  /\ upto' = upto + 1 /\ from' = upto + 1
  /\ UNCHANGED <<caller, input, stage, status>>

PassChar ==
  /\ stage = "scan" /\ upto <= Len(input) /\ ~Ends /\ caller = "readfile"
  /\ upto' = upto + 1
  /\ UNCHANGED <<caller, input, from, items, cells, stage, status>>

(* --count; continue: an entry that is no link, vanished, or is local.     *)
PassEntry ==
  /\ stage = "scan" /\ upto <= Len(input) /\ ~Ends /\ caller = "devs"
  /\ cells' = Roomy
  /\ upto' = upto + 1 /\ from' = upto + 1
  /\ UNCHANGED <<caller, input, items, stage, status>>

(* Mutant of EndList: a full array gets no NULL. *)
EndListFull ==
  /\ stage = "scan" /\ upto > Len(input)
  /\ stage' = "done" /\ status' = 1
  /\ UNCHANGED <<caller, input, from, upto, items, cells>>

(* A NULL at last if all of the array is used.                             *)
EndList ==
  /\ stage = "scan" /\ upto > Len(input)
  /\ cells' = IF Len(items) = Len(cells) THEN Append(cells, "null") ELSE cells
  /\ stage' = "done" /\ status' = 1
  /\ UNCHANGED <<caller, input, from, upto, items>>

LinesNext ==
  \/ LinesNothing \/ ReadWhole \/ OpenDirectory
  \/ StoreItem \/ PassChar \/ PassEntry \/ EndList

LinesSpec == LinesInit /\ [][LinesNext]_linesVars
-----------------------------------------------------------------------------
(* Where memset() stopped: after the first allocation, or the last one.    *)
Known ==
  IF Len(cells) = Chunk THEN IF caller = "devs" THEN Chunk ELSE Chunk \div Ptr
  ELSE Len(cells) \div 2 + (Len(cells) \div 2) \div Ptr

(* The sizes the array has one after the other.                            *)
Doubled[k \in Nat] == IF k = 0 THEN Chunk ELSE 2 * Doubled[k - 1]

(* A walk to the first NULL sees every item and nothing else, ...          *)
Walkable ==
  /\ Len(items) < Len(cells) /\ cells[Len(items) + 1] = "null"
  /\ \A i \in 1..Len(items) : cells[i] = "item"

(* ... if the items fill the array exactly, so that a NULL of its own was  *)
(* appended, or end before the last memset() did, and for no other number  *)
(* of items: with real sizes, readfile() writes no NULL behind 128 to 1023 *)
(* lines or 1152 to 2047, devs() behind 1152 to 2047 links.                *)
ListEnds ==
  stage = "done" /\ status = 1 /\ items # <<>>
    => (Walkable <=> \/ Len(items) < Known
                     \/ \E k \in 0..Len(items) : Len(items) = Doubled[k])

(* The text of the first n lines.                                          *)
Text(n) ==
  LET text[i \in 0..n] ==
        IF i = 0 THEN <<>> ELSE text[i - 1] \o Append(items[i], "newline")
  IN  text[n]

(* The lines are the file: put together again they give all of it, empty   *)
(* lines and a last one without a newline included.                        *)
SplitWhole ==
  caller = "readfile" /\ stage = "done" /\ status = 1 => Text(Len(items)) = input
=============================================================================
