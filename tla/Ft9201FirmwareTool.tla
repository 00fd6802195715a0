------------------------- MODULE Ft9201FirmwareTool -------------------------
(***************************************************************************)
(* ft9201-extract-firmware.py as a program: its arguments, the download of *)
(* the vendor driver from the update catalog, the extraction, and the file *)
(* that it writes.  Pages, programs and disks may fail at each step.  A    *)
(* local variable is empty where the code has not set it or left it.       *)
(***************************************************************************)
EXTENDS Ft9201Extractor

CONSTANTS
  UpdateId,
  MaxRows,       \* bound: the result rows of the catalog page
  MAX_DIALOGS,   \* the update IDs that are tried: five in the code
  Attempts       \* the programs that read a cabinet, in their order

ASSUME ToolAssumption == MAX_DIALOGS \in Nat \ {0} /\ MaxRows \in Nat

VARIABLES
  step,        \* of main and download_driver_cab
  update_ids, tried,
  page,        \* the entries of the page (as a set)
  has_cabinet, \* the entries whose dialog gives a .cab address
  attempt,     \* the next program that reads the cabinet
  output,      \* "old", "torn" or "image": the file of -o
  status       \* "running", or the exit status

tool  == <<step, update_ids, tried, page, has_cabinet, attempt, output, status>>
tvars == <<vars, tool>>

dialogs == <<update_ids, tried, page, has_cabinet>>
Locals  == <<dialogs, attempt>>

LeaveDialogs == update_ids' = <<>> /\ tried' = 0 /\ page' = {} /\ has_cabinet' = {}

Exit(code) == step' = "exit" /\ status' = code

(* CaptureError, or an OSError that nobody catches. *)
Fails(at) ==
  /\ step = at
  /\ Exit(1)
  /\ LeaveDialogs /\ attempt' = 1
  /\ UNCHANGED <<vars, output>>

-----------------------------------------------------------------------------
(* A source and no --download, or --download and no source. *)
main ==
  /\ step = "arguments"
  /\ \/ step' = "search" /\ UNCHANGED status
     \/ step' = "extract" /\ UNCHANGED status
     \/ Exit(1)
  /\ UNCHANGED <<vars, Locals, output>>

(* Mutant: the rows of one entry are so many entries. *)
catalog_update_ids_all(rows) == rows

catalog_update_ids(rows) ==
  LET ids[n \in 0..Len(rows)] ==
        IF n = 0 THEN <<>>
        ELSE IF Contains(ids[n - 1], rows[n]) THEN ids[n - 1]
        ELSE Append(ids[n - 1], rows[n])
  IN  ids[Len(rows)]

Search ==
  /\ step = "search"
  /\ \E n \in 1..MaxRows : \E rows \in [1..n -> UpdateId] :
       /\ update_ids' = catalog_update_ids(rows)
       /\ page' = {rows[k] : k \in 1..n}
  /\ has_cabinet' \in SUBSET page'
  /\ tried' = 0
  /\ step' = "dialog"
  /\ UNCHANGED <<vars, attempt, output, status>>

Candidates == SubSeq(update_ids, 1,
                     IF Len(update_ids) < MAX_DIALOGS THEN Len(update_ids) ELSE MAX_DIALOGS)

DialogHasNone ==
  /\ step = "dialog"
  /\ tried < Len(Candidates)
  /\ Candidates[tried + 1] \notin has_cabinet
  /\ tried' = tried + 1
  /\ UNCHANGED <<vars, step, update_ids, page, has_cabinet, attempt, output, status>>

DialogHasAddress ==
  /\ step = "dialog"
  /\ tried < Len(Candidates)
  /\ Candidates[tried + 1] \in has_cabinet
  /\ step' = "cabinet"
  /\ LeaveDialogs
  /\ UNCHANGED <<vars, attempt, output, status>>

NoAddress == tried = Len(Candidates) /\ Fails("dialog")

DialogFails == tried < Len(Candidates) /\ Fails("dialog")

Download ==
  /\ step = "cabinet"
  /\ step' = "unpack"
  /\ UNCHANGED <<vars, Locals, output, status>>

(* The exit status of the program is not looked at, only the file. *)
Unpack ==
  /\ step = "unpack"
  /\ attempt <= Len(Attempts)
  /\ \/ step' = "extract" /\ attempt' = 1
     \/ step' = "unpack" /\ attempt' = attempt + 1
  /\ UNCHANGED <<vars, dialogs, output, status>>

NoProgramUnpacks ==
  /\ attempt > Len(Attempts)
  /\ Fails("unpack")

extract ==
  /\ step = "extract"
  /\ Next
  /\ UNCHANGED tool

ExtractFails == result.status = "error" /\ Fails("extract")

(* The file is opened, which empties it, and then written. *)
Write ==
  /\ step = "extract"
  /\ result.status = "image"
  /\ \/ output' = "image" /\ Exit(0)
     \/ output' = "torn" /\ Exit(1)
     \/ output' = "old" /\ Exit(1)
  /\ UNCHANGED <<vars, Locals>>

-----------------------------------------------------------------------------
ToolInit ==
  /\ Init
  /\ step = "arguments" /\ status = "running" /\ output = "old"
  /\ update_ids = <<>> /\ tried = 0 /\ page = {} /\ has_cabinet = {} /\ attempt = 1

ToolNext ==
  \/ main
  \/ Search \/ DialogHasNone \/ DialogHasAddress \/ NoAddress
  \/ Download \/ Unpack \/ NoProgramUnpacks
  \/ Fails("search") \/ DialogFails \/ Fails("cabinet")
  \/ extract \/ ExtractFails \/ Write

ToolSpec == ToolInit /\ [][ToolNext]_tvars

-----------------------------------------------------------------------------
Asked == {Candidates[n] : n \in DOMAIN Candidates}

(* The page has several rows for one entry, and five entries are tried.    *)
(* The download ends without an address only after it asked for as many    *)
(* different entries, or for all that the page has, and none has one       *)
(* (_catalog_update_ids, download_driver_cab).                             *)
GivesUpOnlyWithoutACabinet ==
  [][ NoAddress => /\ Asked \cap has_cabinet = {}
                   /\ Asked = page \/ Cardinality(Asked) >= MAX_DIALOGS ]_tvars
=============================================================================
