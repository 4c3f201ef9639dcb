------------------------------ MODULE Printing ------------------------------
(***************************************************************************)
(* do_print: the partitions of a disk as a table for people (table.c), as  *)
(* records for programs and as JSON (jsonwrt.c).                           *)
(*                                                                         *)
(* Only what a reader of the output depends on is kept: the cells of a     *)
(* row, the characters of a name, and what the JSON writer has open.       *)
(***************************************************************************)
EXTENDS UserInput, SequencesExt

CONSTANTS
    OutputModes,    \* "HUMAN", "MACHINE", "JSON"
    Features,       \* the labels: PED_DISK_TYPE_EXTENDED, PED_DISK_TYPE_PARTITION_NAME
    Lists,          \* the lists of partitions that are printed
    Flags           \* how many flags a partition may have

VARIABLES
    output_mode, \* opt_output_mode
    free_arg,   \* print free
    feature,    \* what the label supports
    list,       \* what is printed: free, metadata and named partitions
    row,        \* the one that is printed next, 0 when nothing is
    out,        \* the rows or records printed
    json        \* the writer: its indent, and what is open for a reader

printvars == <<output_mode, free_arg, feature, list, row, out, json>>

---------------------------------------------------------------------------
(* partition_print_flags, ped_partition_type_get_name and the rest are     *)
(* one cell each.                                                          *)
Cell == <<"x">>
Cells(n) == [i \in 1 .. n |-> Cell]

(* Mutant: a backslash stands for itself. *)
Mut__escape_machine_string(str) ==
    FlattenSeq([i \in DOMAIN str |-> IF str[i] = ":" THEN <<"\\", str[i]>> ELSE <<str[i]>>])

_escape_machine_string(str) ==
    FlattenSeq([i \in DOMAIN str |->
        IF str[i] \in {":", "\\"} THEN <<"\\", str[i]>> ELSE <<str[i]>>])

(* Number, start and end, and the size unless the unit is chs *)
Place == IF unit = "chs" THEN Cells(3) ELSE Cells(4)

Optional(feat, cell) == IF feat \in feature THEN <<cell>> ELSE <<>>

Caption ==
    Place \o Optional("extended", Cell) \o <<Cell>> \o Optional("name", Cell) \o <<Cell>>

HumanRow(k) ==
    IF k.type = "free"
    THEN Place \o Optional("extended", <<>>) \o <<Cell>> \o Optional("name", <<>>) \o <<<<>>>>
    ELSE Place \o Optional("extended", Cell) \o <<Cell>> \o Optional("name", k.name) \o <<Cell>>

MachineRecord(k) ==
    LET colon(cell) == cell \o <<":">>
        place == FlattenSeq([i \in DOMAIN Place |-> colon(Place[i])])
    IN IF k.type = "free" THEN place \o Cell
       ELSE place \o colon(Cell)
                  \o colon(IF "name" \in feature THEN _escape_machine_string(k.name) ELSE <<>>)
                  \o Cell

---------------------------------------------------------------------------
(* jsonwrt.c.  The indent counts what is open; open is what a reader has   *)
(* seen open.  At indent 1 the writer closes the whole document, whatever  *)
(* it was asked to close.                                                  *)

ul_jsonwrt_open(w, type) ==
    [w EXCEPT !.indent = @ + 1, !.open = Append(@, type)]

ul_jsonwrt_close(w, type) ==
    LET closed == IF w.indent = 1 THEN "object" ELSE type
    IN IF w.indent = 0 THEN [w EXCEPT !.assert = FALSE]
       ELSE [w EXCEPT !.indent = @ - 1, !.open = Front(@),
                      !.matched = @ /\ Last(w.open) = closed]

(* Values leave nothing open. *)
partition_print_flags_json(w, flags) ==
    IF flags = 0 THEN w ELSE ul_jsonwrt_close(ul_jsonwrt_open(w, "array"), "array")

JsonPartition(w, k, flags) ==
    LET object == ul_jsonwrt_open(w, "object")
    IN ul_jsonwrt_close(
            IF k.type = "free" THEN object ELSE partition_print_flags_json(object, flags), "object")

JsonEnd(w) == ul_jsonwrt_close(ul_jsonwrt_close(w, "object"), "object")

---------------------------------------------------------------------------
NoJson == [indent |-> 0, open |-> <<>>, assert |-> TRUE, matched |-> TRUE]

PrintInit ==
    /\ output_mode = "HUMAN" /\ free_arg = FALSE /\ feature = {} /\ list = <<>>
    /\ row = 0 /\ out = <<>> /\ json = NoJson

(* The caption, or the array of the partitions *)
PrintBegin ==
    /\ row = 0
    /\ output_mode' \in OutputModes /\ free_arg' \in BOOLEAN /\ feature' \in Features /\ list' \in Lists
    /\ row' = 1
    /\ out' = IF output_mode' = "HUMAN" THEN <<Caption'>> ELSE <<>>
    /\ json' = IF output_mode' = "JSON" THEN ul_jsonwrt_open(json, "array") ELSE json

Shown(k) == k.type # "metadata" /\ (free_arg \/ k.type # "free")

PrintPartition ==
    /\ row \in DOMAIN list
    /\ row' = row + 1
    /\ \E k \in {list[row]}, flags \in Flags :
        CASE ~Shown(k) -> UNCHANGED <<out, json>>
          [] Shown(k) /\ output_mode = "HUMAN" -> out' = Append(out, HumanRow(k)) /\ UNCHANGED json
          [] Shown(k) /\ output_mode = "MACHINE" ->
                out' = Append(out, MachineRecord(k)) /\ UNCHANGED json
          [] OTHER -> json' = JsonPartition(json, k, flags) /\ UNCHANGED out
    /\ UNCHANGED <<output_mode, free_arg, feature, list>>

(* nopt: the object of the disk and the document are closed as well. *)
PrintEnd ==
    /\ row = Len(list) + 1
    /\ row' = row + 1
    /\ json' = IF output_mode = "JSON" THEN JsonEnd(ul_jsonwrt_close(json, "array")) ELSE json
    /\ UNCHANGED <<output_mode, free_arg, feature, list, out>>

(* A failed assertion ends the program. *)
PrintAgain ==
    /\ row > Len(list) + 1 /\ json.assert
    /\ output_mode' = "HUMAN" /\ free_arg' = FALSE /\ feature' = {} /\ list' = <<>>
    /\ row' = 0 /\ out' = <<>> /\ json' = NoJson

Aborted == ~json.assert /\ UNCHANGED <<input_vars, printvars>>

(* The user prints the table or types a partition. *)
UiInit == InputInit /\ PrintInit
UiNext ==
    \/ stage = "start" /\ UNCHANGED input_vars /\ (PrintBegin \/ PrintPartition \/ PrintEnd \/ PrintAgain)
    \/ row = 0 /\ InputNext /\ UNCHANGED printvars
    \/ Aborted

UiSpec == UiInit /\ [][UiNext]_<<input_vars, printvars>>

---------------------------------------------------------------------------
(* The fields a program finds in a record: it splits at each colon that no *)
(* backslash escapes and drops the backslashes.                            *)
RECURSIVE Fields(_, _, _)
Fields(str, field, done) ==
    CASE str = <<>> -> Append(done, field)
      [] str # <<>> /\ Head(str) = ":" -> Fields(Tail(str), <<>>, Append(done, field))
      [] str # <<>> /\ Head(str) = "\\" ->
            Fields(SubSeq(str, 3, Len(str)), Append(field, str[2]), done)
      [] OTHER -> Fields(Tail(str), Append(field, Head(str)), done)

Printed == SelectSeq(list, Shown)

(* Every row has a cell for each column of the caption: table_render_row   *)
(* takes as many cells from a row as the table has columns.                *)
RowsMatchCaption ==
    output_mode = "HUMAN" => \A i \in DOMAIN out : Len(out[i]) = Len(out[1])

(* A program that reads the records finds the name of each partition as it *)
(* is on the disk, whatever characters are in it.                          *)
MachineReadable ==
    output_mode = "MACHINE" /\ "name" \in feature =>
        \A i \in DOMAIN out : Printed[i].type # "free" =>
            \E fields \in {Fields(out[i], <<>>, <<>>)} :
                Len(fields) = Len(Place) + 3 /\ fields[Len(Place) + 2] = Printed[i].name

(* Until do_print is at its end, what the JSON writer closes is what a     *)
(* reader has open.                                                        *)
JsonMatched == row <= Len(list) + 1 => json.matched /\ json.assert

(* Whatever the partitions, names and flags are, what print shows can be   *)
(* read back: the listing in the format it was asked for, as a table, as   *)
(* records or as JSON, and the boundaries when the user types them again.  *)
ListingReadable == RowsMatchCaption /\ MachineReadable /\ JsonMatched /\ Retyped
=============================================================================
