------------------------------ MODULE Session ------------------------------
(***************************************************************************)
(* A run of the program: the commands of parted.c one after another, what  *)
(* the user is asked while they run, and what they do to the table in      *)
(* memory, *diskp, and to the one on the medium.                           *)
(*                                                                         *)
(* A table is its label, the size of each partition by number (0: there is *)
(* none) and the numbers that carry a flag.  A label on a device may be    *)
(* one that cannot be read.  Where a new partition is put is decided in    *)
(* DiskOps; here only whether it could be put as asked.                    *)
(***************************************************************************)
EXTENDS CommandLine, Functions, FiniteSetsExt

CONSTANTS
    Devices,        \* the devices there are
    Nums, Sizes,    \* partition numbers and sizes
    Numeral,        \* text |-> the number it writes
    LabelTypes,     \* what ped_disk_type_get knows
    Busy,           \* the partition numbers in use on every device
    Outcomes,       \* what ped_disk_commit may do
    Placements,     \* how ped_disk_add_partition may place a partition
    Modes,          \* the ways to start the program
    Arguments,      \* what may be on its command line
    Media           \* what may be on the devices at first

ASSUME SessionAssumption ==
    /\ Outcomes \subseteq {"ok", "write failed", "os failed"}
    /\ Placements \subseteq {"exact", "elsewhere", "unaligned", "refused"}
    /\ Nums \subseteq Nat \ {0} /\ Sizes \subseteq Nat \ {0} /\ Sizes # {}
    /\ Range(Numeral) = Nums \cup Sizes
    /\ Media \subseteq
         [Devices -> [label : LabelTypes \cup {None}, odd : BOOLEAN, bad : BOOLEAN,
                      size : [Nums -> Nat],
                      attr : SUBSET ((Nums \cup {0}) \X {"boot", "name", "type"})]]
    /\ \A m \in Media, d \in Devices :      \* without a label there are no partitions
         m[d].label = None => \A n \in Nums : m[d].size[n] = 0

VARIABLES
    dev,        \* the device in use
    disk,       \* *diskp: None or the table in memory
    local,      \* the command's own PedDisk: do_mklabel and do_rescue have one
    medium,     \* what is on each device
    cmd, at,    \* the command that runs and the step it is at
    arg,        \* what it was told so far
    status,     \* the exit status, None while the program runs
    said,       \* history: the options chosen by typing since the command began
    failed,     \* history: a command has returned 0
    freed,      \* the PedDevice of *diskp has been freed
    ignored     \* history: do_resizepart went on although nothing was written

sesvars == <<dev, disk, local, medium, cmd, at, arg, status, said, failed, freed, ignored>>
vars == <<cmdvars, sesvars>>

---------------------------------------------------------------------------
(* Tables *)

(* odd: the label does not use the whole device; bad: it is recognised and *)
(* cannot be read; attr: flags, names, types                               *)
ped_disk_new_fresh(label) ==
    [label |-> label, odd |-> FALSE, bad |-> FALSE, size |-> [n \in Nums |-> 0], attr |-> {}]
Parts(table) == {n \in Nums : table.size[n] > 0}
IsNum(text, S) == text \in DOMAIN Numeral /\ Numeral[text] \in S
Text(n) == CHOOSE text \in DOMAIN Numeral : Numeral[text] = n

---------------------------------------------------------------------------
(* The commands, each a sequence of steps.  A step reads a word, throws an *)
(* exception that is a question, or works on the tables.                   *)

Steps ==
    [mklabel     |-> <<"fetch", "probe", "leave", "label", "disk busy", "loss", "fresh",
                       "commit">>,
     mkpart      |-> <<"open", "end", "fetch", "place", "elsewhere", "unaligned", "commit">>,
     rm          |-> <<"open", "num", "busy", "delete", "commit">>,
     resizepart  |-> <<"open", "num", "save", "busy", "restore", "end", "geom", "shrink",
                       "commit">>,
     set         |-> <<"open", "num", "flag", "state", "assign", "commit">>,
     toggle      |-> <<"open", "num", "flag", "assign", "commit">>,
     disk_set    |-> <<"open", "flag", "state", "assign", "commit">>,
     disk_toggle |-> <<"open", "flag", "assign", "commit">>,
     name        |-> <<"open", "num", "text", "assign", "commit">>,
     type        |-> <<"open", "num", "text", "assign", "commit">>,
     align_check |-> <<"open", "min or opt", "num", "aligned">>,
     print       |-> <<"what", "open", "which", "num">>,
     select      |-> <<"device", "switch">>,
     rescue      |-> <<"drop", "probe", "end", "find", "found", "commit">>,
     unit        |-> <<"unit">>,
     help        |-> <<>>,
     resize      |-> <<"removed">>,
     quit        |-> <<"exit">>]

Commands == DOMAIN Steps
NonInteractive == Commands \ {"quit"}
Step == Steps[cmd][at]
AtStep(step) == pc = "run" /\ status = None /\ at <= Len(Steps[cmd]) /\ Step = step
Asked == got # Nothing
Answered(options) == got \notin {Nothing, None} /\ got.text \in options
Typed == IF got # None /\ got.line > 0 THEN {got.text} ELSE {}
Peek(texts) == words # <<>> /\ Head(words).text \in texts

Continue == at' = at + 1 /\ got' = Nothing
Keep == UNCHANGED <<mode, words, lines, eof, ctrl_c, fetch, req, pc>>

(* Mutant: the commands that are left are run although one failed. *)
Mut2_Fails(table) ==
    /\ failed' = TRUE
    /\ got' = Nothing /\ cmd' = None /\ at' = 1
    /\ local' = None
    /\ pc' = "loop" /\ disk' = None
    /\ words' = IF mode.argv THEN words ELSE <<>>
    /\ UNCHANGED <<mode, lines, eof, ctrl_c, req, dev, arg, said, freed, status>>

(* The method returned 0: what interactive_mode and non_interactive_mode do. *)
Fails(table) ==
    /\ failed' = TRUE
    /\ got' = Nothing /\ cmd' = None /\ at' = 1
    /\ local' = None
    /\ IF mode.argv
       THEN pc' = "end" /\ status' = "failure" /\ disk' = table /\ UNCHANGED words
       ELSE pc' = "loop" /\ disk' = None /\ words' = <<>> /\ UNCHANGED status
    /\ UNCHANGED <<mode, lines, eof, ctrl_c, req, dev, arg, said, freed>>

Fail == Fails(disk) /\ UNCHANGED <<fetch, medium, ignored>>

SkipTo(step) ==
    /\ at' = step /\ got' = Nothing /\ Keep
    /\ UNCHANGED <<dev, disk, local, medium, cmd, arg, status, said, failed, freed, ignored>>

(* The method returned 1. *)
Done ==
    /\ pc = "run" /\ status = None /\ at > Len(Steps[cmd])
    /\ pc' = "loop" /\ cmd' = None /\ at' = 1 /\ local' = None /\ got' = Nothing
    /\ UNCHANGED <<mode, words, lines, eof, ctrl_c, fetch, req, dev, disk, medium,
                   arg, status, said, failed, freed, ignored>>

---------------------------------------------------------------------------
(* The loops *)

Start(name) ==
    /\ cmd' = name /\ at' = 1 /\ said' = {} /\ arg' = <<>> /\ pc' = "run" /\ got' = Nothing
    /\ UNCHANGED <<status, failed>>

interactive_mode ==
    /\ pc = "loop" /\ ~mode.argv
    /\ CASE words = <<>> /\ ctrl_c ->
                /\ status' = "success" /\ pc' = "end"
                /\ UNCHANGED <<cmd, at, said, arg, got, failed, words>>
         [] words = <<>> /\ ~ctrl_c ->
                pc' = "line" /\ UNCHANGED <<cmd, at, said, arg, got, status, failed, words>>
         [] OTHER ->
                \E name \in {str_list_match(Commands, Head(words).text)} :
                    /\ words' = Tail(words)
                    /\ \/ name # None /\ Start(name)
                       \/ name = None /\ UNCHANGED <<cmd, at, said, arg, got, pc, status, failed>>
    /\ UNCHANGED <<mode, lines, eof, ctrl_c, fetch, req, dev, disk, local, medium, freed, ignored>>

(* A word that is no command ends in help_msg, which exits with success. *)
non_interactive_mode ==
    /\ pc = "loop" /\ mode.argv
    /\ IF words = <<>>
       THEN /\ status' = "success" /\ pc' = "end"
            /\ UNCHANGED <<cmd, at, said, arg, got, failed, words>>
       ELSE \E name \in {str_list_match(Commands, Head(words).text)} :
                /\ words' = Tail(words)
                /\ \/ name \in NonInteractive /\ Start(name)
                   \/ /\ name \notin NonInteractive
                      /\ status' = IF name = None THEN "success" ELSE "failure"
                      /\ pc' = "end" /\ failed' = TRUE
                      /\ UNCHANGED <<cmd, at, said, arg, got>>
    /\ UNCHANGED <<mode, lines, eof, ctrl_c, fetch, req, dev, disk, local, medium, freed, ignored>>

---------------------------------------------------------------------------
(* Reading arguments *)

(* A word is read at this step; taken(text) says which texts are taken and *)
(* the rest makes the command fail.                                        *)
Reads(step, def, poss, taken(_)) ==
    /\ AtStep(step)
    /\ \/ /\ ~Asked
          /\ command_line_get_word([def |-> def, poss |-> poss, asked |-> 0, question |-> FALSE])
          /\ UNCHANGED sesvars
       \/ /\ Asked /\ got # None /\ taken(got.text)
          /\ arg' = Append(arg, got.text)
          /\ Continue /\ Keep
          /\ UNCHANGED <<dev, disk, local, medium, cmd, status, said, failed, freed, ignored>>
       \/ Asked /\ ~(got # None /\ taken(got.text)) /\ Fail

Every(text) == TRUE

(* The partition the command is about; 0 is the disk itself. *)
Target == IF cmd \in {"disk_set", "disk_toggle"} THEN 0 ELSE Numeral[arg[1]]
Attribute == <<Target, IF cmd \in {"name", "type"} THEN cmd ELSE "boot">>
Toggled == Attribute \notin disk.attr

command_line_get_disk_type == Reads("label", None, LabelTypes, Every)

command_line_get_partition ==
    LET exists(text) == IsNum(text, Parts(disk)) IN Reads("num", None, AnyWord, exists)

(* The end of a partition that is resized is the default. *)
command_line_get_sector ==
    LET sector(text) == IsNum(text, Sizes)
        default == IF cmd = "resizepart" THEN Text(disk.size[Target]) ELSE None
    IN Reads("end", default, AnyWord, sector)

command_line_get_part_flag == Reads("flag", None, {"boot"}, Every)

command_line_get_state ==
    Reads("state", IF Toggled THEN "on" ELSE "off", {"on", "off"}, Every)

command_line_get_text == Reads("text", None, AnyWord, Every)
command_line_get_align_type == Reads("min or opt", "opt", {"min", "opt"}, Every)
command_line_get_unit == Reads("unit", "s", {"s", "MB"}, Every)

command_line_get_device ==
    LET there(text) == text \in Devices IN Reads("device", dev, AnyWord, there)

---------------------------------------------------------------------------
(* Questions *)

(* When the question applies it is thrown, and the command goes on with    *)
(* one of the answers in yes.                                              *)
Question(step, applies, options, yes) ==
    /\ AtStep(step)
    /\ \/ /\ ~applies
          /\ Continue /\ Keep
          /\ UNCHANGED <<dev, disk, local, medium, cmd, arg, status, said, failed, freed, ignored>>
       \/ /\ applies /\ ~Asked
          /\ ped_exception_throw(options)
          /\ UNCHANGED sesvars
       \/ /\ applies /\ Asked /\ Answered(yes)
          /\ said' = said \cup Typed
          /\ Continue /\ Keep
          /\ UNCHANGED <<dev, disk, local, medium, cmd, arg, status, failed, freed, ignored>>
       \/ applies /\ Asked /\ ~Answered(yes) /\ Fail

_disk_warn_busy ==
    Question("disk busy", local # None /\ Busy \cap Parts(local) # {},
             {"ignore", "cancel"}, {"ignore"})

_disk_warn_loss == Question("loss", local # None /\ ~mode.script, {"yes", "no"}, {"yes"})

_partition_warn_busy == Question("busy", Target \in Busy, {"yes", "no"}, {"yes"})

(* do_resizepart has set the new size already: local is the table it had. *)
WarnShrink ==
    Question("shrink", disk.size[Target] < local.size[Target], {"yes", "no"}, {"yes"})

---------------------------------------------------------------------------
(* Opening the table *)

Advance == Continue /\ Keep /\ UNCHANGED <<dev, cmd, arg, status, said, failed>>

(* ped_disk_new finds no label, or cannot read the one it finds: there is  *)
(* no table.                                                               *)
NoTable == medium[dev].label = None \/ medium[dev].bad

(* Or it reads the table, after a question when the label does not use the *)
(* whole device.  The answer fix is written back.                          *)
ped_disk_new(into(_)) ==
    /\ ~NoTable
    /\ \/ /\ medium[dev].odd /\ ~Asked
          /\ ped_exception_throw({"fix", "ignore"})
          /\ UNCHANGED sesvars
       \/ /\ ~medium[dev].odd \/ Asked
          /\ \E table \in {[medium[dev] EXCEPT !.odd =
                                @ /\ ~Answered({"fix"})]} :
                into(table) /\ medium' = [medium EXCEPT ![dev] = table]
          /\ Advance

(* Every command but mklabel, select and rescue works on *diskp.  print    *)
(* makes do without, except in a script.                                   *)
OpenDisk ==
    LET into(table) == disk' = table /\ ignored' = FALSE /\ freed' = FALSE /\ UNCHANGED local
    IN /\ AtStep("open")
       /\ \/ disk # None /\ Advance /\ UNCHANGED <<disk, local, medium, freed, ignored>>
          \/ disk = None /\ ped_disk_new(into)
          \/ /\ disk = None /\ NoTable
             /\ \/ (cmd # "print" \/ mode.script) /\ Fail
                \/ cmd = "print" /\ ~mode.script /\ SkipTo(Len(Steps[cmd]) + 1)

(* do_mklabel looks for the old table behind ped_exception_fetch_all, and  *)
(* does without one; do_rescue reads it for itself and needs one.          *)
FetchAll ==
    /\ AtStep("fetch")
    /\ fetch' = IF cmd = "mklabel" /\ disk # None THEN fetch ELSE fetch + 1
    /\ Continue
    /\ UNCHANGED <<mode, words, lines, eof, ctrl_c, req, pc, dev, disk, local, medium, cmd, arg,
                   status, said, failed, freed, ignored>>

ProbeDisk ==
    LET into(table) == local' = table /\ UNCHANGED <<disk, freed, ignored>>
    IN /\ AtStep("probe")
       /\ \/ /\ cmd = "mklabel" /\ (disk # None \/ NoTable)
             /\ local' = disk
             /\ Advance /\ UNCHANGED <<disk, medium, freed, ignored>>
          \/ (cmd = "rescue" \/ disk = None) /\ ped_disk_new(into)
          \/ cmd = "rescue" /\ NoTable /\ Fail

(* Mutant: exceptions are fetched on when no table was found. *)
Mut_LeaveAll ==
    /\ AtStep("leave")
    /\ fetch' = IF disk # None \/ local = None THEN fetch ELSE fetch - 1
    /\ Continue
    /\ UNCHANGED <<mode, words, lines, eof, ctrl_c, req, pc, dev, disk, local, medium, cmd, arg,
                   status, said, failed, freed, ignored>>

LeaveAll ==
    /\ AtStep("leave")
    /\ fetch' = IF disk # None THEN fetch ELSE fetch - 1
    /\ Continue
    /\ UNCHANGED <<mode, words, lines, eof, ctrl_c, req, pc, dev, disk, local, medium, cmd, arg,
                   status, said, failed, freed, ignored>>

---------------------------------------------------------------------------
(* Work on the tables *)

WorkStep(step) == AtStep(step) /\ Advance

FreshLabel ==
    /\ WorkStep("fresh")
    /\ local' = ped_disk_new_fresh(arg[1])
    /\ UNCHANGED <<disk, medium, freed, ignored>>

DeletePartition ==
    /\ WorkStep("delete")
    /\ disk' = [disk EXCEPT !.size[Target] = 0, !.attr = {a \in @ : a[1] # Target}]
    /\ UNCHANGED <<local, medium, freed, ignored>>

SetGeom ==
    /\ WorkStep("geom")
    /\ local' = disk
    /\ disk' = [disk EXCEPT !.size[Target] = Numeral[arg[2]]]
    /\ UNCHANGED <<medium, freed, ignored>>

Assign(names, on) ==
    /\ cmd \in names
    /\ WorkStep("assign")
    /\ disk' = [disk EXCEPT !.attr = IF on THEN @ \cup {Attribute} ELSE @ \ {Attribute}]
    /\ UNCHANGED <<local, medium, freed, ignored>>

do_set == Assign({"set"}, arg[Len(arg)] = "on")
do_disk_set == Assign({"disk_set"}, arg[Len(arg)] = "on")
do_toggle == Assign({"toggle", "disk_toggle"}, Toggled)
do_name == Assign({"name"}, TRUE)
do_type == Assign({"type"}, TRUE)

(* Or libparted refuses: no fresh label, a partition that is not deleted,  *)
(* not moved, without that flag, name or type, or a device that does not   *)
(* open.  The table is as it was.                                          *)
Refused ==
    \E step \in {"fresh", "delete", "geom", "assign", "switch"} : AtStep(step) /\ Fail

(* do_resizepart keeps the end the user typed while it asks about a busy   *)
(* partition, and appends it to whatever came with the answer.             *)
SaveEnd ==
    /\ AtStep("save")
    /\ \E saved \in {IF Target \in Busy /\ words # <<>> THEN <<Head(words)>> ELSE <<>>} :
        local' = saved /\ words' = SubSeq(words, Len(saved) + 1, Len(words))
    /\ Continue
    /\ UNCHANGED <<mode, lines, eof, ctrl_c, fetch, req, pc, dev, disk, medium, cmd, arg, status,
                   said, failed, freed, ignored>>

RestoreEnd ==
    /\ AtStep("restore")
    /\ words' = words \o local
    /\ local' = None
    /\ Continue
    /\ UNCHANGED <<mode, lines, eof, ctrl_c, fetch, req, pc, dev, disk, medium, cmd, arg, status,
                   said, failed, freed, ignored>>

(* do_mkpart adds the partition with its constraints behind                *)
(* ped_exception_fetch_all and, when that is refused, with none at all.    *)
Free == Nums \ Parts(disk)

PlacePartition ==
    /\ AtStep("place")
    /\ fetch' = fetch - 1
    /\ \/ /\ Free # {}
          /\ \E placed \in Placements \ {"refused"}, n \in {Min(Free)} :
                /\ local' = [how |-> placed, num |-> n]
                /\ disk' = [disk EXCEPT !.size[n] = Numeral[arg[1]]]
          /\ Continue
          /\ UNCHANGED <<words, pc, cmd, status, failed>>
       \/ /\ Free = {} \/ "refused" \in Placements
          /\ Fails(disk)
    /\ UNCHANGED <<mode, lines, eof, ctrl_c, req, dev, medium, arg, said, freed, ignored>>

Unplaced == [disk EXCEPT !.size[local.num] = 0]

(* "The closest location we can manage is": in a script that is an error.  *)
(* A location that is not aligned may be ignored, in a script always.      *)
AskLocation(step, options, yes) ==
    /\ AtStep(step)
    /\ \/ local.how # step /\ SkipTo(at + 1)
       \/ local.how = step /\ ~Asked /\ ped_exception_throw(options) /\ UNCHANGED sesvars
       \/ local.how = step /\ Asked /\ yes /\ SkipTo(at + 1)
       \/ /\ local.how = step /\ Asked /\ ~yes
          /\ Fails(Unplaced) /\ UNCHANGED <<fetch, medium, ignored>>

AskElsewhere ==
    AskLocation("elsewhere", IF mode.script THEN {"cancel"} ELSE {"yes", "no"},
                Answered({"yes"}))

AskUnaligned ==
    AskLocation("unaligned", IF mode.script THEN {"ok"} ELSE {"ignore", "cancel"},
                ~Answered({"cancel"}))

---------------------------------------------------------------------------
(* ped_disk_commit *)

Stored(outcome) == outcome # "write failed"

(* do_resizepart does not look at the result. *)
CommitDisk ==
    /\ AtStep("commit") /\ cmd \notin {"mklabel", "rescue"}
    /\ \E outcome \in Outcomes :
        /\ medium' = IF Stored(outcome) THEN [medium EXCEPT ![dev] = disk] ELSE medium
        /\ \/ /\ outcome = "ok" \/ cmd = "resizepart"
              /\ ignored' = ~Stored(outcome)
              /\ Advance /\ UNCHANGED <<disk, local, freed>>
           \/ /\ outcome # "ok" /\ cmd # "resizepart"
              /\ Fails(IF cmd = "mkpart" THEN Unplaced ELSE disk)
              /\ UNCHANGED <<fetch, ignored>>

CommitLabel ==
    /\ AtStep("commit") /\ cmd = "mklabel"
    /\ \E outcome \in Outcomes :
        /\ medium' = IF Stored(outcome) THEN [medium EXCEPT ![dev] = local] ELSE medium
        /\ \/ /\ outcome = "ok"
              /\ disk' = local /\ ignored' = FALSE /\ freed' = FALSE
              /\ Advance /\ UNCHANGED local
           \/ /\ outcome # "ok"
              /\ Fails(None) /\ UNCHANGED <<fetch, ignored>>

---------------------------------------------------------------------------
(* do_rescue: arg holds the end and then the numbers tried. *)

DropDisk ==
    /\ WorkStep("drop")
    /\ disk' = None /\ freed' = FALSE
    /\ UNCHANGED <<local, medium, ignored>>

Tried == {n \in Nums : \E i \in 2 .. Len(arg) : arg[i] = n}

(* _rescue_pass puts a partition where a file system is found. *)
FindFileSystem ==
    /\ AtStep("find")
    /\ \/ /\ \E n \in (Nums \ Parts(local)) \ Tried :
             /\ local' = [local EXCEPT !.size[n] = Min(Sizes)]
             /\ arg' = Append(arg, n)
          /\ Continue /\ Keep
          /\ UNCHANGED <<dev, disk, medium, cmd, status, said, failed, freed, ignored>>
       \/ SkipTo(Len(Steps[cmd]) + 1)

NotAdded == [local EXCEPT !.size[arg[Len(arg)]] = 0]

NextCandidate ==
    /\ local' = NotAdded /\ at' = 4 /\ got' = Nothing /\ Keep
    /\ UNCHANGED <<dev, disk, cmd, arg, status, failed, freed, ignored>>

(* Whatever is neither no nor cancel adds it. *)
_rescue_add_partition ==
    /\ AtStep("found")
    /\ \/ ~Asked /\ ped_exception_throw({"yes", "no", "cancel"}) /\ UNCHANGED sesvars
       \/ /\ Asked /\ ~Answered({"no", "cancel"})
          /\ said' = said \cup Typed
          /\ Continue /\ Keep
          /\ UNCHANGED <<dev, disk, local, medium, cmd, arg, status, failed, freed, ignored>>
       \/ Answered({"no"}) /\ NextCandidate /\ UNCHANGED <<medium, said>>
       \/ Answered({"cancel"}) /\ Fail

(* A partition whose commit failed is taken out again and the search goes on. *)
CommitRescued ==
    /\ AtStep("commit") /\ cmd = "rescue"
    /\ \E outcome \in Outcomes :
        /\ medium' = IF Stored(outcome) THEN [medium EXCEPT ![dev] = local] ELSE medium
        /\ \/ outcome = "ok" /\ Advance /\ UNCHANGED <<disk, local, freed, ignored>>
           \/ outcome # "ok" /\ NextCandidate /\ UNCHANGED said

---------------------------------------------------------------------------
(* The other commands *)

(* print devices frees every device and gets the one in use anew. *)
PrintDevices ==
    /\ AtStep("what")
    /\ \/ /\ Peek({"devices"})
          /\ words' = Tail(words)
          /\ freed' = (disk # None)
          /\ at' = Len(Steps[cmd]) + 1 /\ got' = Nothing
          /\ UNCHANGED <<mode, lines, eof, ctrl_c, fetch, req, pc, dev, disk, local, medium,
                         cmd, arg, status, said, failed, ignored>>
       \/ ~Peek({"devices"}) /\ SkipTo(at + 1)

PrintWhich ==
    /\ AtStep("which")
    /\ SkipTo(IF Peek(DOMAIN Numeral)
              THEN at + 1 ELSE Len(Steps[cmd]) + 1)

(* Commands on a table whose device is gone use freed memory: the program  *)
(* may go on as if nothing had happened, or end.                           *)
UseAfterFree ==
    /\ freed /\ disk # None /\ pc = "run" /\ cmd \notin {"print", "help", "unit"}
    /\ pc' = "end" /\ status' = "crashed"
    /\ UNCHANGED <<mode, words, lines, eof, ctrl_c, fetch, req, got, dev, disk, local, medium,
                   cmd, at, arg, said, failed, freed, ignored>>

SwitchDevice ==
    /\ AtStep("switch")
    /\ dev' = arg[1]
    /\ disk' = None /\ freed' = FALSE
    /\ Continue /\ Keep
    /\ UNCHANGED <<local, medium, cmd, arg, status, said, failed, ignored>>

(* In a script a partition that is not aligned is a failure. *)
AlignCheck == AtStep("aligned") /\ (SkipTo(at + 1) \/ (mode.script /\ Fail))

do_resize == AtStep("removed") /\ Fail

do_quit ==
    /\ AtStep("exit")
    /\ pc' = "end" /\ status' = "success"
    /\ UNCHANGED <<mode, words, lines, eof, ctrl_c, fetch, req, got, dev, disk, local, medium,
                   cmd, at, arg, said, failed, freed, ignored>>

---------------------------------------------------------------------------
Init ==
    /\ mode \in Modes
    /\ \E argv \in (IF mode.argv THEN Arguments ELSE {<<>>}) :
        words = command_line_push_line(argv, 0)
    /\ lines = 0 /\ eof = FALSE /\ ctrl_c = FALSE /\ fetch = 0
    /\ req = None /\ got = Nothing /\ pc = "loop"
    /\ medium \in Media /\ dev \in Devices /\ disk = None /\ local = None
    /\ cmd = None /\ at = 1 /\ arg = <<>> /\ status = None
    /\ said = {} /\ failed = FALSE /\ freed = FALSE /\ ignored = FALSE

do_args ==
    \/ command_line_get_disk_type \/ command_line_get_partition \/ command_line_get_sector
    \/ command_line_get_part_flag \/ command_line_get_state \/ command_line_get_text
    \/ command_line_get_align_type \/ command_line_get_unit \/ command_line_get_device

do_questions ==
    \/ _disk_warn_busy \/ _disk_warn_loss \/ _partition_warn_busy \/ WarnShrink
    \/ AskElsewhere \/ AskUnaligned \/ _rescue_add_partition

do_work ==
    \/ FetchAll \/ ProbeDisk \/ LeaveAll \/ OpenDisk \/ FreshLabel \/ DeletePartition
    \/ SetGeom \/ do_set \/ do_disk_set \/ do_toggle \/ do_name \/ do_type \/ Refused
    \/ SaveEnd \/ RestoreEnd \/ PlacePartition
    \/ CommitDisk \/ CommitLabel \/ DropDisk \/ FindFileSystem \/ CommitRescued
    \/ PrintDevices \/ PrintWhich \/ UseAfterFree \/ SwitchDevice \/ AlignCheck
    \/ do_resize \/ do_quit \/ Done

Prompts == (GetWord_Take \/ GetWord_Prompt \/ PromptWords_Eof) /\ UNCHANGED sesvars
Program == interactive_mode \/ non_interactive_mode \/ do_args \/ do_questions \/ do_work \/ Prompts
User ==
    /\ CloseInput \/ \E line \in Lines : PromptWords_Line(line)
    /\ UNCHANGED sesvars
Ended == pc = "end" /\ UNCHANGED vars

Next == Program \/ User \/ Ended

(* The program runs as long as it can; nobody makes the user type. *)
Spec == Init /\ [][Next]_vars /\ WF_vars(Program)

---------------------------------------------------------------------------
(* Between two commands the table in memory is the one on the device in    *)
(* use, whatever command failed at whatever step: but for do_resizepart,   *)
(* which goes on when its commit did not write.                            *)
CacheCoherent ==
    pc = "loop" /\ disk # None /\ ~ignored => disk = medium[dev]

(* Between two commands nobody swallows exceptions: each                   *)
(* ped_exception_fetch_all has had its ped_exception_leave_all.            *)
FetchBalanced == pc = "loop" => fetch = 0

(* A command leaves the session as it must find it, however it ended.      *)
CommandsLeaveClean == CacheCoherent /\ FetchBalanced

(* A question is answered with a word typed after it was asked, never with *)
(* one that was typed ahead for the command.                               *)
AnswersFresh ==
    pc = "word" /\ req.question /\ words # <<>> => Head(words).line > req.asked

Loses(n) == medium[dev].size[n] > medium'[dev].size[n]

(* A user at a terminal confirms what cannot be undone before it reaches   *)
(* the medium: another label, a smaller partition, and the removal of one  *)
(* that is in use; nobody removes that without being asked.  When          *)
(* do_resizepart ignored that its commit wrote nothing, the next commit    *)
(* writes what the user confirmed then.  A label that cannot be read is    *)
(* the exception: do_mklabel finds no table, says nothing of it, and       *)
(* replaces it with no question, busy partitions and all, in a script and  *)
(* at a terminal.                                                          *)
LossConfirmed ==
    \A n \in Nums : Loses(n) /\ cmd # "rescue" /\ ~(ignored /\ disk # None) =>
        \/ cmd = "rm" /\ n \notin Busy
        \/ cmd = "mklabel" /\ medium[dev].bad
        \/ cmd = "mklabel" /\ mode.script /\ Busy \cap Parts(medium[dev]) = {}
        \/ "yes" \in said

(* With commands on its command line the program stops at the first that   *)
(* fails: nothing is written after it.                                     *)
FailureStops == failed /\ mode.argv => UNCHANGED medium

(* Nothing reaches the medium without a word when it loses something, or   *)
(* after a failure.                                                        *)
WritesJustified == [][LossConfirmed /\ FailureStops]_vars

(* Once its input has ended the program ends, wherever it was reading. *)
EofEnds == eof ~> pc = "end"
=============================================================================
