----------------------------- MODULE Executable -----------------------------
(***************************************************************************)
(* What an upload has to pass before a bot or a submission is stored:      *)
(* read_bot_executable limits its size, and validate_bot_executable walks  *)
(* through the ELF program headers and the dynamic tables they name, to    *)
(* turn down what is not a statically linked x86-64 executable             *)
(* (api/main.py).  The sizes and offsets a file states may be any number.  *)
(***************************************************************************)
EXTENDS Naturals

CONSTANTS
  Files,      (* what may be uploaded                                       *)
  MaxBytes,   (* get_max_bot_executable_bytes                               *)
  ElfHeader,  (* size of the ELF header: 64                                 *)
  Header,     (* size of a program header: 56                               *)
  Item        (* size of an item of a dynamic table: 16                     *)

ASSUME SizesAssumption ==
  {MaxBytes, ElfHeader, Header, Item} \subseteq Nat \ {0}

(* A file is its size, its ELF header - identified: a 64-bit little-endian *)
(* ELF; kind: what e_type says - and its program headers: segment[n] has a *)
(* type and, for PT_DYNAMIC, the place of a table and the tags of its      *)
(* items.  What lies beyond the end of the file is never looked at.        *)
ASSUME FilesAssumption ==
  \A f \in Files :
    /\ {f.size, f.offset, f.entrySize, f.count} \subseteq Nat
    /\ \A n \in 0..(f.count - 1) :
         {f.segment[n].offset, f.segment[n].size} \subseteq Nat

VARIABLES
  file,     (* what is uploaded                                             *)
  step,     (* "header", "segments", "table", "answered"                    *)
  index,    (* the program header under inspection                          *)
  item,     (* the item of its dynamic table                                *)
  dynamic,  (* dynamically_linked                                           *)
  verdict   (* the error's code, or "accepted"                              *)

validationVars == <<file, step, index, item, dynamic, verdict>>

ValidationInit ==
  /\ file \in Files
  /\ step = "header" /\ index = 0 /\ item = 0
  /\ dynamic = FALSE
  /\ verdict = "none"

Answer(v) ==
  /\ step' = "answered" /\ verdict' = v
  /\ UNCHANGED <<file, index, item, dynamic>>

(* read_bot_executable asks for one byte more than the limit and fails if  *)
(* it is there, whatever the sizes of the chunks.                          *)
UploadError(f) ==
  CASE f.size > MaxBytes -> "submission_too_large"
    [] f.size = 0 -> "invalid_executable"
    [] OTHER -> "none"

HeaderError(f) ==
  CASE UploadError(f) # "none" -> UploadError(f)
    [] f.size < ElfHeader \/ ~ f.magic -> "invalid_executable"
    [] ~ f.identified \/ f.machine # "x86-64" -> "unsupported_architecture"
    [] f.kind = "other" \/ f.entrySize < Header -> "invalid_executable"
    [] f.count = 0 \/ f.offset > f.size -> "invalid_executable"
    [] OTHER -> "none"

HeaderFits(f, n) == f.offset + n * f.entrySize + Header <= f.size
TableFits(f, s) == s.offset + s.size <= f.size
ItemFits(f, s, k) == s.offset + k * Item + Item <= f.size

CheckHeader ==
  /\ step = "header"
  /\ \/ HeaderError(file) # "none" /\ Answer(HeaderError(file))
     \/ /\ HeaderError(file) = "none" /\ step' = "segments"
        /\ UNCHANGED <<file, index, item, dynamic, verdict>>

Segment == file.segment[index]
AtHeader == step = "segments" /\ index < file.count
AtItem == step = "table" /\ item * Item < Segment.size

(* A header, a table or an item of it exceeds the file.                    *)
Truncated ==
  /\ \/ AtHeader /\ ~ HeaderFits(file, index)
     \/ AtHeader /\ Segment.type = "dynamic" /\ ~ TableFits(file, Segment)
     \/ AtItem /\ ~ ItemFits(file, Segment, item)
  /\ Answer("invalid_executable")

NextSegment ==
  /\ step' = "segments" /\ index' = index + 1 /\ item' = 0
  /\ UNCHANGED <<file, verdict>>

CheckSegment ==
  /\ AtHeader /\ HeaderFits(file, index) /\ Segment.type # "dynamic"
  /\ dynamic' = (dynamic \/ Segment.type = "interp")
  /\ NextSegment

EnterTable ==
  /\ AtHeader /\ HeaderFits(file, index) /\ Segment.type = "dynamic"
  /\ TableFits(file, Segment)
  /\ step' = "table"
  /\ UNCHANGED <<file, index, item, dynamic, verdict>>

(* Each item decides anew what the flag says.                              *)
CheckItemForgetting ==
  /\ AtItem /\ ItemFits(file, Segment, item) /\ Segment.tag[item] # "null"
  /\ dynamic' = (Segment.tag[item] = "needed")
  /\ item' = item + 1
  /\ UNCHANGED <<file, step, index, verdict>>

CheckItem ==
  /\ AtItem /\ ItemFits(file, Segment, item) /\ Segment.tag[item] # "null"
  /\ dynamic' = (dynamic \/ Segment.tag[item] = "needed")
  /\ item' = item + 1
  /\ UNCHANGED <<file, step, index, verdict>>

(* DT_NULL, or the end of the table.                                       *)
LeaveTable ==
  /\ step = "table"
  /\ AtItem => ItemFits(file, Segment, item) /\ Segment.tag[item] = "null"
  /\ NextSegment
  /\ UNCHANGED dynamic

Decide ==
  /\ step = "segments" /\ index = file.count
  /\ Answer(IF dynamic THEN "dynamic_executable" ELSE "accepted")

Validate ==
  \/ CheckHeader \/ Truncated \/ CheckSegment \/ EnterTable
  \/ CheckItem \/ LeaveTable \/ Decide

ValidationSpec == ValidationInit /\ [][Validate]_validationVars

-----------------------------------------------------------------------------
(* Properties.                                                             *)

(* A table counts up to its first DT_NULL; no item starts past the file.   *)
Counts(s, k) == k * Item < s.size /\ \A l \in 0..(k - 1) : s.tag[l] # "null"
Counted(f, s) == {k \in 0..f.size : Counts(s, k)}

WellFormed(f, n) ==
  /\ HeaderFits(f, n)
  /\ f.segment[n].type = "dynamic" =>
       /\ TableFits(f, f.segment[n])
       /\ \A k \in Counted(f, f.segment[n]) : ItemFits(f, f.segment[n], k)

(* It asks for an interpreter or for a library.                            *)
Loads(f, n) ==
  \/ f.segment[n].type = "interp"
  \/ /\ f.segment[n].type = "dynamic"
     /\ \E k \in Counted(f, f.segment[n]) : f.segment[n].tag[k] = "needed"

Executes(f) ==
  HeaderError(f) = "none" /\ \A n \in 0..(f.count - 1) : WellFormed(f, n)
NeedsLoader(f) == \E n \in 0..(f.count - 1) : Loads(f, n)

(* An upload is accepted exactly if it is a well formed executable that    *)
(* loads nothing when it starts, and called dynamic only if that is all    *)
(* that is wrong with it: one flag and two loops with early exits miss     *)
(* nothing in any header or table, and blame nothing that does not count.  *)
AcceptedIsStatic ==
  step = "answered" =>
    /\ verdict = "accepted" <=> Executes(file) /\ ~ NeedsLoader(file)
    /\ verdict = "dynamic_executable" <=> Executes(file) /\ NeedsLoader(file)
=============================================================================
