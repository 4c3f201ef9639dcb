--------------------------- MODULE SessionProofs ---------------------------
(***************************************************************************)
(* What holds of every run of the program, whatever its devices, its       *)
(* input, what the commits do and how the user answers:                    *)
(*   - a question is answered with a word typed after it (FreshAnswers);   *)
(*   - between two commands the table in memory is the one on the device,  *)
(*     and nobody swallows exceptions (CommandsClean);                     *)
(*   - what is lost on a device was confirmed, and nothing is written      *)
(*     after a failure (Justified).                                        *)
(*                                                                         *)
(* The invariant comes in layers, each proved on top of the ones before:   *)
(* where the program is (Control), what waits for the user (Asking), who   *)
(* fetches exceptions (Fetched), what a command was answered (Answers),    *)
(* what it holds (Tables), how the table in memory differs from the one on *)
(* the device (Coherent), and what was asked before it is lost (Loss).     *)
(***************************************************************************)
EXTENDS Session, FiniteSetTheorems, WellFoundedInduction, TLAPS

---------------------------------------------------------------------------
(* Where the program is *)

(* Which command is at which of its steps: the table of the commands, read  *)
(* from the steps.                                                          *)
LEMMA StepAt ==
    ASSUME cmd \in Commands, at \in Nat \ {0}, NEW step, AtStep(step)
    PROVE
    /\ step = "fetch" =>
          \/ cmd = "mklabel" /\ at = 1
          \/ cmd = "mkpart" /\ at = 3
    /\ step = "probe" => cmd \in {"mklabel", "rescue"} /\ at = 2
    /\ step = "leave" => cmd = "mklabel" /\ at = 3
    /\ step = "label" => cmd = "mklabel" /\ at = 4
    /\ step = "disk busy" => cmd = "mklabel" /\ at = 5
    /\ step = "loss" => cmd = "mklabel" /\ at = 6
    /\ step = "fresh" => cmd = "mklabel" /\ at = 7
    /\ step = "commit" =>
          \/ cmd = "disk_toggle" /\ at = 4
          \/ cmd \in {"rm", "toggle", "disk_set", "name", "type"} /\ at = 5
          \/ cmd \in {"set", "rescue"} /\ at = 6
          \/ cmd = "mkpart" /\ at = 7
          \/ cmd = "mklabel" /\ at = 8
          \/ cmd = "resizepart" /\ at = 9
    /\ step = "open" =>
          \/ cmd \in {"mkpart", "rm", "resizepart", "set", "toggle", "disk_set",
               "disk_toggle", "name", "type", "align_check"} /\ at = 1
          \/ cmd = "print" /\ at = 2
    /\ step = "end" =>
          \/ cmd = "mkpart" /\ at = 2
          \/ cmd = "rescue" /\ at = 3
          \/ cmd = "resizepart" /\ at = 6
    /\ step = "place" => cmd = "mkpart" /\ at = 4
    /\ step = "elsewhere" => cmd = "mkpart" /\ at = 5
    /\ step = "unaligned" => cmd = "mkpart" /\ at = 6
    /\ step = "num" =>
          \/ cmd \in {"rm", "resizepart", "set", "toggle", "name", "type"} /\ at =
               2
          \/ cmd = "align_check" /\ at = 3
          \/ cmd = "print" /\ at = 4
    /\ step = "busy" =>
          \/ cmd = "rm" /\ at = 3
          \/ cmd = "resizepart" /\ at = 4
    /\ step = "delete" => cmd = "rm" /\ at = 4
    /\ step = "save" => cmd = "resizepart" /\ at = 3
    /\ step = "restore" => cmd = "resizepart" /\ at = 5
    /\ step = "geom" => cmd = "resizepart" /\ at = 7
    /\ step = "shrink" => cmd = "resizepart" /\ at = 8
    /\ step = "flag" =>
          \/ cmd \in {"disk_set", "disk_toggle"} /\ at = 2
          \/ cmd \in {"set", "toggle"} /\ at = 3
    /\ step = "state" =>
          \/ cmd = "disk_set" /\ at = 3
          \/ cmd = "set" /\ at = 4
    /\ step = "assign" =>
          \/ cmd = "disk_toggle" /\ at = 3
          \/ cmd \in {"toggle", "disk_set", "name", "type"} /\ at = 4
          \/ cmd = "set" /\ at = 5
    /\ step = "text" => cmd \in {"name", "type"} /\ at = 3
    /\ step = "min or opt" => cmd = "align_check" /\ at = 2
    /\ step = "aligned" => cmd = "align_check" /\ at = 4
    /\ step = "what" => cmd = "print" /\ at = 1
    /\ step = "which" => cmd = "print" /\ at = 3
    /\ step = "device" => cmd = "select" /\ at = 1
    /\ step = "switch" => cmd = "select" /\ at = 2
    /\ step = "drop" => cmd = "rescue" /\ at = 1
    /\ step = "find" => cmd = "rescue" /\ at = 4
    /\ step = "found" => cmd = "rescue" /\ at = 5
    /\ step = "unit" => cmd = "unit" /\ at = 1
    /\ step = "removed" => cmd = "resize" /\ at = 1
    /\ step = "exit" => cmd = "quit" /\ at = 1
<1>1. PICK s : s = Steps[cmd]
  OBVIOUS
<1>2. at \in 1 .. Len(s)
  BY <1>1 DEF AtStep
<1>3. step = s[at]
  BY <1>1 DEF AtStep, Step
<1>4. CASE cmd = "mklabel"
  <2>1. s = <<"fetch", "probe", "leave", "label", "disk busy", "loss", "fresh",
               "commit">>
    BY <1>1, <1>4 DEF Steps
  <2>2. Len(s) = 8
    BY <2>1
  <2>3. s[1] = "fetch" /\ s[2] = "probe" /\ s[3] = "leave" /\ s[4] = "label"
        /\ s[5] = "disk busy" /\ s[6] = "loss" /\ s[7] = "fresh"
        /\ s[8] = "commit" 
    BY <2>1
  <2>4. at \in {1, 2, 3, 4, 5, 6, 7, 8}
    BY <1>2, <2>2
  <2>5. QED
    BY <1>3, <1>4, <2>3, <2>4
<1>5. CASE cmd = "mkpart"
  <2>1. s = <<"open", "end", "fetch", "place", "elsewhere", "unaligned", "commit">>
    BY <1>1, <1>5 DEF Steps
  <2>2. Len(s) = 7
    BY <2>1
  <2>3. s[1] = "open" /\ s[2] = "end" /\ s[3] = "fetch" /\ s[4] = "place"
        /\ s[5] = "elsewhere" /\ s[6] = "unaligned" /\ s[7] = "commit" 
    BY <2>1
  <2>4. at \in {1, 2, 3, 4, 5, 6, 7}
    BY <1>2, <2>2
  <2>5. QED
    BY <1>3, <1>5, <2>3, <2>4
<1>6. CASE cmd = "rm"
  <2>1. s = <<"open", "num", "busy", "delete", "commit">>
    BY <1>1, <1>6 DEF Steps
  <2>2. Len(s) = 5
    BY <2>1
  <2>3. s[1] = "open" /\ s[2] = "num" /\ s[3] = "busy" /\ s[4] = "delete"
        /\ s[5] = "commit" 
    BY <2>1
  <2>4. at \in {1, 2, 3, 4, 5}
    BY <1>2, <2>2
  <2>5. QED
    BY <1>3, <1>6, <2>3, <2>4
<1>7. CASE cmd = "resizepart"
  <2>1. s = <<"open", "num", "save", "busy", "restore", "end", "geom", "shrink",
               "commit">>
    BY <1>1, <1>7 DEF Steps
  <2>2. Len(s) = 9
    BY <2>1
  <2>3. s[1] = "open" /\ s[2] = "num" /\ s[3] = "save" /\ s[4] = "busy"
        /\ s[5] = "restore" /\ s[6] = "end" /\ s[7] = "geom" /\ s[8] = "shrink"
        /\ s[9] = "commit" 
    BY <2>1
  <2>4. at \in {1, 2, 3, 4, 5, 6, 7, 8, 9}
    BY <1>2, <2>2
  <2>5. QED
    BY <1>3, <1>7, <2>3, <2>4
<1>8. CASE cmd = "set"
  <2>1. s = <<"open", "num", "flag", "state", "assign", "commit">>
    BY <1>1, <1>8 DEF Steps
  <2>2. Len(s) = 6
    BY <2>1
  <2>3. s[1] = "open" /\ s[2] = "num" /\ s[3] = "flag" /\ s[4] = "state"
        /\ s[5] = "assign" /\ s[6] = "commit" 
    BY <2>1
  <2>4. at \in {1, 2, 3, 4, 5, 6}
    BY <1>2, <2>2
  <2>5. QED
    BY <1>3, <1>8, <2>3, <2>4
<1>9. CASE cmd = "toggle"
  <2>1. s = <<"open", "num", "flag", "assign", "commit">>
    BY <1>1, <1>9 DEF Steps
  <2>2. Len(s) = 5
    BY <2>1
  <2>3. s[1] = "open" /\ s[2] = "num" /\ s[3] = "flag" /\ s[4] = "assign"
        /\ s[5] = "commit" 
    BY <2>1
  <2>4. at \in {1, 2, 3, 4, 5}
    BY <1>2, <2>2
  <2>5. QED
    BY <1>3, <1>9, <2>3, <2>4
<1>10. CASE cmd = "disk_set"
  <2>1. s = <<"open", "flag", "state", "assign", "commit">>
    BY <1>1, <1>10 DEF Steps
  <2>2. Len(s) = 5
    BY <2>1
  <2>3. s[1] = "open" /\ s[2] = "flag" /\ s[3] = "state" /\ s[4] = "assign"
        /\ s[5] = "commit" 
    BY <2>1
  <2>4. at \in {1, 2, 3, 4, 5}
    BY <1>2, <2>2
  <2>5. QED
    BY <1>3, <1>10, <2>3, <2>4
<1>11. CASE cmd = "disk_toggle"
  <2>1. s = <<"open", "flag", "assign", "commit">>
    BY <1>1, <1>11 DEF Steps
  <2>2. Len(s) = 4
    BY <2>1
  <2>3. s[1] = "open" /\ s[2] = "flag" /\ s[3] = "assign" /\ s[4] = "commit" 
    BY <2>1
  <2>4. at \in {1, 2, 3, 4}
    BY <1>2, <2>2
  <2>5. QED
    BY <1>3, <1>11, <2>3, <2>4
<1>12. CASE cmd = "name"
  <2>1. s = <<"open", "num", "text", "assign", "commit">>
    BY <1>1, <1>12 DEF Steps
  <2>2. Len(s) = 5
    BY <2>1
  <2>3. s[1] = "open" /\ s[2] = "num" /\ s[3] = "text" /\ s[4] = "assign"
        /\ s[5] = "commit" 
    BY <2>1
  <2>4. at \in {1, 2, 3, 4, 5}
    BY <1>2, <2>2
  <2>5. QED
    BY <1>3, <1>12, <2>3, <2>4
<1>13. CASE cmd = "type"
  <2>1. s = <<"open", "num", "text", "assign", "commit">>
    BY <1>1, <1>13 DEF Steps
  <2>2. Len(s) = 5
    BY <2>1
  <2>3. s[1] = "open" /\ s[2] = "num" /\ s[3] = "text" /\ s[4] = "assign"
        /\ s[5] = "commit" 
    BY <2>1
  <2>4. at \in {1, 2, 3, 4, 5}
    BY <1>2, <2>2
  <2>5. QED
    BY <1>3, <1>13, <2>3, <2>4
<1>14. CASE cmd = "align_check"
  <2>1. s = <<"open", "min or opt", "num", "aligned">>
    BY <1>1, <1>14 DEF Steps
  <2>2. Len(s) = 4
    BY <2>1
  <2>3. s[1] = "open" /\ s[2] = "min or opt" /\ s[3] = "num" /\ s[4] = "aligned" 
    BY <2>1
  <2>4. at \in {1, 2, 3, 4}
    BY <1>2, <2>2
  <2>5. QED
    BY <1>3, <1>14, <2>3, <2>4
<1>15. CASE cmd = "print"
  <2>1. s = <<"what", "open", "which", "num">>
    BY <1>1, <1>15 DEF Steps
  <2>2. Len(s) = 4
    BY <2>1
  <2>3. s[1] = "what" /\ s[2] = "open" /\ s[3] = "which" /\ s[4] = "num" 
    BY <2>1
  <2>4. at \in {1, 2, 3, 4}
    BY <1>2, <2>2
  <2>5. QED
    BY <1>3, <1>15, <2>3, <2>4
<1>16. CASE cmd = "select"
  <2>1. s = <<"device", "switch">>
    BY <1>1, <1>16 DEF Steps
  <2>2. Len(s) = 2
    BY <2>1
  <2>3. s[1] = "device" /\ s[2] = "switch" 
    BY <2>1
  <2>4. at \in {1, 2}
    BY <1>2, <2>2
  <2>5. QED
    BY <1>3, <1>16, <2>3, <2>4
<1>17. CASE cmd = "rescue"
  <2>1. s = <<"drop", "probe", "end", "find", "found", "commit">>
    BY <1>1, <1>17 DEF Steps
  <2>2. Len(s) = 6
    BY <2>1
  <2>3. s[1] = "drop" /\ s[2] = "probe" /\ s[3] = "end" /\ s[4] = "find"
        /\ s[5] = "found" /\ s[6] = "commit" 
    BY <2>1
  <2>4. at \in {1, 2, 3, 4, 5, 6}
    BY <1>2, <2>2
  <2>5. QED
    BY <1>3, <1>17, <2>3, <2>4
<1>18. CASE cmd = "unit"
  <2>1. s = <<"unit">>
    BY <1>1, <1>18 DEF Steps
  <2>2. Len(s) = 1
    BY <2>1
  <2>3. s[1] = "unit" 
    BY <2>1
  <2>4. at \in {1}
    BY <1>2, <2>2
  <2>5. QED
    BY <1>3, <1>18, <2>3, <2>4
<1>19. CASE cmd = "help"
  <2>1. s = <<>>
    BY <1>1, <1>19 DEF Steps
  <2>2. Len(s) = 0
    BY <2>1
  <2>3. FALSE
    BY <1>2, <2>2
  <2>4. QED
    BY <2>3
<1>20. CASE cmd = "resize"
  <2>1. s = <<"removed">>
    BY <1>1, <1>20 DEF Steps
  <2>2. Len(s) = 1
    BY <2>1
  <2>3. s[1] = "removed" 
    BY <2>1
  <2>4. at \in {1}
    BY <1>2, <2>2
  <2>5. QED
    BY <1>3, <1>20, <2>3, <2>4
<1>21. CASE cmd = "quit"
  <2>1. s = <<"exit">>
    BY <1>1, <1>21 DEF Steps
  <2>2. Len(s) = 1
    BY <2>1
  <2>3. s[1] = "exit" 
    BY <2>1
  <2>4. at \in {1}
    BY <1>2, <2>2
  <2>5. QED
    BY <1>3, <1>21, <2>3, <2>4
<1>22. QED
  BY <1>4, <1>5, <1>6, <1>7, <1>8, <1>9, <1>10, <1>11, <1>12, <1>13, <1>14, <1>15,
     <1>16, <1>17, <1>18, <1>19, <1>20, <1>21 DEF Commands, Steps

(* A command waits for a word; nobody's command runs.                       *)
Waiting == pc = "word" \/ (pc = "line" /\ req # None)
Idle == pc = "loop" \/ (pc = "line" /\ req = None)

(* Where the program is: what a command that runs or waits has set up, and  *)
(* what the loop has reset. With commands on its command line a program     *)
(* that failed has ended.                                                   *)
Control ==
    /\ pc \in {"loop", "run", "word", "line", "end"}
    /\ lines \in Nat
    /\ at \in Nat \ {0}
    /\ pc \in {"loop", "run"} => req = None
    /\ pc = "word" => req # None
    /\ Idle => at = 1
    /\ pc = "run" \/ Waiting => cmd \in Commands
    /\ failed /\ mode.argv => pc = "end"

(* The constant None is none of the records the program works with. (TLC    *)
(* has a model value for it.)                                               *)
NoneIsNoRecord ==
    /\ \A def, poss, asked, question :
         None # [def |-> def, poss |-> poss, asked |-> asked, question |-> question]
    /\ \A label, odd, bad, size, attr :
         None # [label |-> label, odd |-> odd, bad |-> bad, size |-> size, attr |-> attr]

(* What a word is good for when the step takes it.                          *)
Good(step, text) ==
    /\ step = "num" => IsNum(text, Parts(disk))
    /\ step = "end" => IsNum(text, Sizes)
    /\ step = "device" => text \in Devices

(* The steps that read a word.                                              *)
ReadSteps == {"label", "num", "end", "flag", "state", "text", "min or opt", "unit", "device"}

(* A step that reads a word, whatever words it offers: it asks, takes one   *)
(* that is good for it, or fails.                                           *)
Reading(step) ==
    /\ step \in ReadSteps /\ AtStep(step)
    /\ \/ /\ \E def, poss :
              command_line_get_word([def |-> def, poss |-> poss, asked |-> 0, question |-> FALSE])
          /\ UNCHANGED sesvars
       \/ /\ Asked /\ got # None /\ Good(step, got.text)
          /\ arg' = Append(arg, got.text)
          /\ Continue /\ Keep
          /\ UNCHANGED <<dev, disk, local, medium, cmd, status, said, failed, freed, ignored>>
       \/ Fail

(* Every command_line_get_* is such a step.                                 *)
LEMMA ArgsRead == ASSUME do_args PROVE \E step : Reading(step)
<1>1. CASE command_line_get_disk_type
  <2>1. Reading("label")
    BY <1>1 DEF command_line_get_disk_type, Reads, Reading, ReadSteps, Good
  <2>2. QED
    BY <2>1
<1>2. CASE command_line_get_partition
  <2>1. Reading("num")
    BY <1>2 DEF command_line_get_partition, Reads, Reading, ReadSteps, Good
  <2>2. QED
    BY <2>1
<1>3. CASE command_line_get_sector
  <2>1. Reading("end")
    BY <1>3 DEF command_line_get_sector, Reads, Reading, ReadSteps, Good
  <2>2. QED
    BY <2>1
<1>4. CASE command_line_get_part_flag
  <2>1. Reading("flag")
    BY <1>4 DEF command_line_get_part_flag, Reads, Reading, ReadSteps, Good
  <2>2. QED
    BY <2>1
<1>5. CASE command_line_get_state
  <2>1. Reading("state")
    BY <1>5 DEF command_line_get_state, Reads, Reading, ReadSteps, Good
  <2>2. QED
    BY <2>1
<1>6. CASE command_line_get_text
  <2>1. Reading("text")
    BY <1>6 DEF command_line_get_text, Reads, Reading, ReadSteps, Good
  <2>2. QED
    BY <2>1
<1>7. CASE command_line_get_align_type
  <2>1. Reading("min or opt")
    BY <1>7 DEF command_line_get_align_type, Reads, Reading, ReadSteps, Good
  <2>2. QED
    BY <2>1
<1>8. CASE command_line_get_unit
  <2>1. Reading("unit")
    BY <1>8 DEF command_line_get_unit, Reads, Reading, ReadSteps, Good
  <2>2. QED
    BY <2>1
<1>9. CASE command_line_get_device
  <2>1. Reading("device")
    BY <1>9 DEF command_line_get_device, Reads, Reading, ReadSteps, Good
  <2>2. QED
    BY <2>1
<1>10. QED
  BY <1>1, <1>2, <1>3, <1>4, <1>5, <1>6, <1>7, <1>8, <1>9 DEF do_args

(* A command that returns 0 leaves the loop or ends the program.            *)
LEMMA FailControl == ASSUME Control, pc = "run", NEW table, Fails(table) PROVE Control'
  BY DEF Control, Fails, Waiting, Idle

(* Who asks for a word waits for it.                                        *)
LEMMA WordControl ==
    ASSUME NoneIsNoRecord, Control, pc = "run", NEW def, NEW poss, NEW asked, NEW question,
           req' = [def |-> def, poss |-> poss, asked |-> asked, question |-> question],
           pc' = "word", UNCHANGED <<mode, lines, sesvars>>
    PROVE  Control'
<1>1. req' # None
  BY DEF NoneIsNoRecord
<1>2. QED
  BY <1>1 DEF Control, Waiting, Idle, sesvars

(* An exception is answered at once or becomes a question.                  *)
LEMMA ThrowControl ==
    ASSUME NoneIsNoRecord, Control, pc = "run", NEW options, ped_exception_throw(options),
           UNCHANGED sesvars
    PROVE  Control'
<1>1. CASE UNCHANGED <<mode, words, lines, eof, ctrl_c, fetch, req, pc>>
  BY <1>1 DEF Control, Waiting, Idle, sesvars
<1>2. CASE command_line_get_ex_opt(options)
  BY <1>2, WordControl DEF command_line_get_ex_opt
<1>3. QED
  BY <1>1, <1>2 DEF ped_exception_throw

(* A command goes from step to step.                                        *)
LEMMA GoControl ==
    ASSUME Control, pc = "run", at' \in Nat \ {0},
           UNCHANGED <<mode, lines, req, pc, cmd, failed>>
    PROVE  Control'
  BY DEF Control, Waiting, Idle

(* The next step is a number.                                               *)
LEMMA NextAt == ASSUME Control PROVE at + 1 \in Nat \ {0}
  BY DEF Control

(* How many steps the commands have.                                        *)
LEMMA Lengths ==
    /\ Len(Steps["mklabel"]) = 8 /\ Len(Steps["mkpart"]) = 7 /\ Len(Steps["rm"]) = 5
    /\ Len(Steps["resizepart"]) = 9 /\ Len(Steps["print"]) = 4 /\ Len(Steps["rescue"]) = 6
    /\ Len(Steps["set"]) = 6 /\ Len(Steps["toggle"]) = 5 /\ Len(Steps["disk_set"]) = 5
    /\ Len(Steps["disk_toggle"]) = 4 /\ Len(Steps["name"]) = 5 /\ Len(Steps["type"]) = 5
<1>1. Len(Steps["mklabel"]) = 8
  BY DEF Steps
<1>2. Len(Steps["mkpart"]) = 7
  BY DEF Steps
<1>3. Len(Steps["rm"]) = 5
  BY DEF Steps
<1>4. Len(Steps["resizepart"]) = 9
  BY DEF Steps
<1>5. Len(Steps["print"]) = 4
  BY DEF Steps
<1>6. Len(Steps["rescue"]) = 6
  BY DEF Steps
<1>7. Len(Steps["set"]) = 6
  BY DEF Steps
<1>8. Len(Steps["toggle"]) = 5
  BY DEF Steps
<1>9. Len(Steps["disk_set"]) = 5
  BY DEF Steps
<1>10. Len(Steps["disk_toggle"]) = 4
  BY DEF Steps
<1>11. Len(Steps["name"]) = 5
  BY DEF Steps
<1>12. Len(Steps["type"]) = 5
  BY DEF Steps
<1>13. QED
  BY <1>1, <1>2, <1>3, <1>4, <1>5, <1>6, <1>7, <1>8, <1>9, <1>10, <1>11, <1>12

(* Control is kept by each kind of step: those that read words,             *)
LEMMA ReadControl ==
    ASSUME NoneIsNoRecord, Control, NEW step, Reading(step) PROVE Control'
<1>1. pc = "run"
  BY DEF Reading, AtStep
<1>2. CASE /\ \E def, poss : command_line_get_word([def |-> def, poss |-> poss, asked |-> 0,
                                                    question |-> FALSE])
           /\ UNCHANGED sesvars
  BY <1>1, <1>2, WordControl DEF command_line_get_word
<1>3. CASE Continue /\ Keep /\ UNCHANGED <<cmd, failed>>
  BY <1>1, <1>3, GoControl, NextAt DEF Continue, Keep
<1>4. CASE Fail
  BY <1>1, <1>4, FailControl DEF Fail
<1>5. QED
  BY <1>2, <1>3, <1>4 DEF Reading

(* those that ask,                                                          *)
LEMMA QuestionControl ==
    ASSUME NoneIsNoRecord, Control, NEW step, NEW applies, NEW options, NEW yes,
           Question(step, applies, options, yes)
    PROVE  Control'
<1>1. pc = "run"
  BY DEF Question, AtStep
<1>2. CASE ped_exception_throw(options) /\ UNCHANGED sesvars
  BY <1>1, <1>2, ThrowControl
<1>3. CASE Continue /\ Keep /\ UNCHANGED <<cmd, failed>>
  BY <1>1, <1>3, GoControl, NextAt DEF Continue, Keep
<1>4. CASE Fail
  BY <1>1, <1>4, FailControl DEF Fail
<1>5. QED
  BY <1>2, <1>3, <1>4 DEF Question

(* the loops, which start a command there is,                               *)
LEMMA LoopControl ==
    ASSUME Control, interactive_mode \/ non_interactive_mode PROVE Control'
<1>1. \A text : str_list_match(Commands, text) \in Commands \cup {None}
  <2>1. ASSUME NEW S, Cardinality(S) = 1 PROVE (CHOOSE name \in S : TRUE) \in S
    BY <2>1, FS_EmptySet
  <2>2. QED
    BY <2>1 DEF str_list_match
<1>2. ASSUME NEW name \in Commands, Start(name), pc = "loop", ~mode.argv \/ ~failed,
             UNCHANGED <<mode, lines, req>>
      PROVE  Control'
  BY <1>2 DEF Control, Start, Waiting, Idle
<1>3. CASE interactive_mode
  BY <1>1, <1>2, <1>3 DEF Control, interactive_mode, Waiting, Idle
<1>4. CASE non_interactive_mode
  BY <1>2, <1>4 DEF Control, non_interactive_mode, NonInteractive, Waiting, Idle
<1>5. QED
  BY <1>3, <1>4

(* the prompts and the user,                                                *)
LEMMA PromptControl ==
    ASSUME Control, Prompts \/ User PROVE Control'
<1>1. UNCHANGED <<mode, sesvars>>
  BY DEF Prompts, User, GetWord_Take, GetWord_Prompt, PromptWords_Eof, PromptWords_Line,
         CloseInput, Return
<1>2. CASE GetWord_Take
  BY <1>1, <1>2 DEF GetWord_Take, Return, Control, Waiting, Idle, sesvars
<1>3. CASE GetWord_Prompt
  BY <1>1, <1>3 DEF GetWord_Prompt, Return, Control, Waiting, Idle, sesvars
<1>4. CASE PromptWords_Eof
  BY <1>1, <1>4 DEF PromptWords_Eof, Return, Control, Waiting, Idle, sesvars
<1>5. CASE \E line \in Lines : PromptWords_Line(line)
  BY <1>1, <1>5 DEF PromptWords_Line, Control, Waiting, Idle, sesvars
<1>6. CASE CloseInput
  BY <1>1, <1>6 DEF CloseInput, Control, Waiting, Idle, sesvars
<1>7. QED
  BY <1>2, <1>3, <1>4, <1>5, <1>6 DEF Prompts, User

(* the questions of the commands,                                           *)
LEMMA AskControl ==
    ASSUME NoneIsNoRecord, Control, do_questions PROVE Control'
<1>1. ASSUME NEW step, NEW options, NEW yes, AskLocation(step, options, yes) PROVE Control'
  <2>1. pc = "run"
    BY <1>1 DEF AskLocation, AtStep
  <2>2. CASE ped_exception_throw(options) /\ UNCHANGED sesvars
    BY <2>1, <2>2, ThrowControl
  <2>3. CASE SkipTo(at + 1)
    BY <2>1, <2>3, GoControl, NextAt DEF SkipTo, Keep
  <2>4. CASE Fails(Unplaced)
    BY <2>1, <2>4, FailControl
  <2>5. QED
    BY <1>1, <2>2, <2>3, <2>4 DEF AskLocation
<1>2. CASE _rescue_add_partition
  <2>1. pc = "run"
    BY <1>2 DEF _rescue_add_partition, AtStep
  <2>2. CASE ped_exception_throw({"yes", "no", "cancel"}) /\ UNCHANGED sesvars
    BY <2>1, <2>2, ThrowControl
  <2>3. CASE Continue /\ Keep /\ UNCHANGED <<cmd, failed>>
    BY <2>1, <2>3, GoControl, NextAt DEF Continue, Keep
  <2>4. CASE NextCandidate
    BY <2>1, <2>4, GoControl DEF NextCandidate, Keep
  <2>5. CASE Fail
    BY <2>1, <2>5, FailControl DEF Fail
  <2>6. QED
    BY <1>2, <2>2, <2>3, <2>4, <2>5 DEF _rescue_add_partition
<1>3. QED
  BY <1>1, <1>2, QuestionControl DEF do_questions, _disk_warn_busy, _disk_warn_loss,
     _partition_warn_busy, WarnShrink, AskElsewhere, AskUnaligned

(* those that read a table,                                                 *)
LEMMA OpenControl ==
    ASSUME NoneIsNoRecord, Control, OpenDisk \/ ProbeDisk PROVE Control'
<1>1. pc = "run"
  BY DEF OpenDisk, ProbeDisk, AtStep
<1>2. CASE ped_exception_throw({"fix", "ignore"}) /\ UNCHANGED sesvars
  BY <1>1, <1>2, ThrowControl
<1>3. CASE Advance
  BY <1>1, <1>3, GoControl, NextAt DEF Advance, Continue, Keep
<1>4. CASE Fail
  BY <1>1, <1>4, FailControl DEF Fail
<1>5. CASE cmd = "print" /\ SkipTo(Len(Steps[cmd]) + 1)
  BY <1>1, <1>5, GoControl, Lengths DEF SkipTo, Keep
<1>6. CASE OpenDisk
  BY <1>2, <1>3, <1>4, <1>5, <1>6 DEF OpenDisk, ped_disk_new
<1>7. CASE ProbeDisk
  BY <1>2, <1>3, <1>4, <1>7 DEF ProbeDisk, ped_disk_new
<1>8. QED
  BY <1>6, <1>7

(* those that commit one,                                                   *)
LEMMA CommitControl ==
    ASSUME Control, CommitDisk \/ CommitLabel \/ CommitRescued \/ PlacePartition PROVE Control'
<1>1. pc = "run"
  BY DEF CommitDisk, CommitLabel, CommitRescued, PlacePartition, AtStep
<1>2. CASE Advance
  BY <1>1, <1>2, GoControl, NextAt DEF Advance, Continue, Keep
<1>3. ASSUME NEW table, Fails(table) PROVE Control'
  BY <1>1, <1>3, FailControl
<1>4. CASE NextCandidate
  BY <1>1, <1>4, GoControl DEF NextCandidate, Keep
<1>5. CASE PlacePartition
  BY <1>1, <1>3, <1>5, GoControl, NextAt DEF PlacePartition, Continue
<1>6. CASE CommitDisk
  BY <1>2, <1>3, <1>6 DEF CommitDisk
<1>7. CASE CommitLabel
  BY <1>2, <1>3, <1>7 DEF CommitLabel
<1>8. CASE CommitRescued
  BY <1>2, <1>4, <1>8 DEF CommitRescued
<1>9. QED
  BY <1>5, <1>6, <1>7, <1>8

(* and the rest of the work.                                                *)
LEMMA WorkControl ==
    ASSUME NoneIsNoRecord, Control, do_work PROVE Control'
<1>1. pc = "run"
  BY DEF do_work, FetchAll, ProbeDisk, LeaveAll, OpenDisk, FreshLabel, DeletePartition, SetGeom,
         do_set, do_disk_set, do_toggle, do_name, do_type, SaveEnd, RestoreEnd, PlacePartition,
         CommitDisk, CommitLabel, DropDisk, FindFileSystem, CommitRescued, PrintDevices,
         PrintWhich, UseAfterFree, SwitchDevice, AlignCheck, do_resize, do_quit, Done, Refused, Assign,
         WorkStep, AtStep
<1>2. CASE Continue /\ UNCHANGED <<mode, lines, req, pc, cmd, failed>>
  BY <1>1, <1>2, GoControl, NextAt DEF Continue
<1>3. CASE Fail
  BY <1>1, <1>3, FailControl DEF Fail
<1>4. CASE SkipTo(at + 1)
  BY <1>1, <1>4, GoControl, NextAt DEF SkipTo, Keep
<1>5. ASSUME at' = Len(Steps[cmd]) + 1, AtStep("what") \/ AtStep("which") \/ AtStep("find"),
             UNCHANGED <<mode, lines, req, pc, cmd, failed>>
      PROVE  Control'
  <2>1. cmd \in Commands /\ at \in Nat \ {0}
    BY <1>1 DEF Control
  <2>2. cmd \in {"print", "rescue"}
    BY <1>5, <2>1, StepAt
  <2>3. at' \in Nat \ {0}
    BY <1>5, <2>2, Lengths
  <2>4. QED
    BY <1>1, <1>5, <2>3, GoControl
<1>6. CASE FetchAll \/ LeaveAll \/ SaveEnd \/ RestoreEnd \/ SwitchDevice
  BY <1>2, <1>6 DEF FetchAll, LeaveAll, SaveEnd, RestoreEnd, SwitchDevice, Keep
<1>7. CASE FreshLabel \/ DeletePartition \/ SetGeom \/ DropDisk
  BY <1>2, <1>7 DEF FreshLabel, DeletePartition, SetGeom, DropDisk, WorkStep, Advance, Keep
<1>8. CASE do_set \/ do_disk_set \/ do_toggle \/ do_name \/ do_type
  BY <1>2, <1>8 DEF do_set, do_disk_set, do_toggle, do_name, do_type, Assign, WorkStep, Advance,
                    Keep
<1>9. CASE AlignCheck \/ do_resize \/ Refused
  BY <1>3, <1>4, <1>9 DEF AlignCheck, do_resize, Refused
<1>10. CASE PrintDevices \/ PrintWhich
  BY <1>4, <1>5, <1>10 DEF PrintDevices, PrintWhich, SkipTo, Keep
<1>11. CASE FindFileSystem
  BY <1>2, <1>5, <1>11 DEF FindFileSystem, SkipTo, Keep
<1>12. CASE UseAfterFree \/ do_quit
  BY <1>12 DEF UseAfterFree, do_quit, Control, Waiting, Idle
<1>13. CASE Done
  BY <1>13 DEF Done, Control, Waiting, Idle
<1>14. QED
  BY <1>6, <1>7, <1>8, <1>9, <1>10, <1>11, <1>12, <1>13, OpenControl, CommitControl DEF do_work

(* Control is inductive.                                                    *)
LEMMA NextControl == ASSUME NoneIsNoRecord, Control, [Next]_vars PROVE Control'
<1>1. CASE UNCHANGED vars
  BY <1>1 DEF vars, cmdvars, sesvars, Control, Waiting, Idle
<1>2. QED
  BY <1>1, LoopControl, PromptControl, AskControl, WorkControl, ReadControl, ArgsRead
     DEF Next, Program, Ended

---------------------------------------------------------------------------
(* Questions and their answers *)

(* The five questions that decide whether something is lost.                *)
AtQuestion ==
    \/ cmd = "mklabel" /\ at \in {5, 6}
    \/ cmd = "rm" /\ at = 3
    \/ cmd = "resizepart" /\ at \in {4, 8}

(* What a question may offer.                                               *)
Replies == {"yes", "no", "ok", "fix", "ignore", "cancel"}

(* What those five offer.                                                   *)
YesNo == {{"yes", "no"}, {"ignore", "cancel"}}

(* An exception is thrown with choices, at one of the five with two of      *)
(* them.                                                                    *)
Asks == \E options : /\ ped_exception_throw(options)
                     /\ IsFiniteSet(options) /\ options # {} /\ options \subseteq Replies
                     /\ AtQuestion => options \in YesNo

(* The command asks something and stays at its step, or an exception was    *)
(* answered for the user.                                                   *)
Pauses ==
    /\ UNCHANGED sesvars
    /\ \/ Asks
       \/ /\ ~AtQuestion
          /\ \E def, poss :
               command_line_get_word([def |-> def, poss |-> poss, asked |-> 0, question |-> FALSE])

(* The command goes on, fails or ends.                                      *)
Moves == pc' \notin {"word", "line"} /\ (got' = Nothing \/ pc' = "end")

(* All the choices there are.                                               *)
Buttons == YesNo \cup {{"cancel"}, {"ok"}, {"fix", "ignore"}, {"yes", "no", "cancel"}}

(* Small sets are finite.                                                   *)
LEMMA FewFinite ==
    ASSUME NEW a, NEW b, NEW c
    PROVE  IsFiniteSet({a}) /\ IsFiniteSet({a, b}) /\ IsFiniteSet({a, b, c})
<1>1. IsFiniteSet({a})
  BY FS_Singleton
<1>2. IsFiniteSet({a, b})
  <2>1. {a, b} = {a} \cup {b}
    OBVIOUS
  <2>2. QED
    BY <1>1, <2>1, FS_AddElement
<1>3. IsFiniteSet({a, b, c})
  <2>1. {a, b, c} = {a, b} \cup {c}
    OBVIOUS
  <2>2. QED
    BY <1>2, <2>1, FS_AddElement
<1>4. QED
  BY <1>1, <1>2, <1>3

(* The choices of a question are finite and there are some.                 *)
LEMMA OptionsFinite ==
    ASSUME NEW options \in Buttons
    PROVE  IsFiniteSet(options) /\ options # {} /\ options \subseteq Replies
<1>1. IsFiniteSet({"yes", "no"}) /\ IsFiniteSet({"ignore", "cancel"})
  BY FewFinite
<1>2. IsFiniteSet({"cancel"}) /\ IsFiniteSet({"ok"})
  BY FewFinite
<1>3. IsFiniteSet({"fix", "ignore"}) /\ IsFiniteSet({"yes", "no", "cancel"})
  BY FewFinite
<1>4. \/ options = {"yes", "no"} \/ options = {"ignore", "cancel"} \/ options = {"cancel"}
      \/ options = {"ok"} \/ options = {"fix", "ignore"} \/ options = {"yes", "no", "cancel"}
  BY DEF Buttons, YesNo
<1>5. IsFiniteSet(options)
  BY <1>1, <1>2, <1>3, <1>4
<1>6. options # {} /\ options \subseteq Replies
  BY <1>4 DEF Replies
<1>7. QED
  BY <1>5, <1>6

(* The five questions are at steps of their own.                            *)
LEMMA QuestionSteps ==
    ASSUME NEW step, AtStep(step), AtQuestion
    PROVE  step \in {"disk busy", "loss", "busy", "shrink"}
<1>1. PICK s : s = Steps[cmd]
  OBVIOUS
<1>2. step = s[at]
  BY <1>1 DEF AtStep, Step
<1>3. CASE cmd = "mklabel" /\ at \in {5, 6}
  <2>1. s = <<"fetch", "probe", "leave", "label", "disk busy", "loss", "fresh",
               "commit">>
    BY <1>1, <1>3 DEF Steps
  <2>2. s[5] = "disk busy" /\ s[6] = "loss"
    BY <2>1
  <2>3. QED
    BY <1>2, <1>3, <2>2
<1>4. CASE cmd = "rm" /\ at = 3
  <2>1. s = <<"open", "num", "busy", "delete", "commit">>
    BY <1>1, <1>4 DEF Steps
  <2>2. s[3] = "busy"
    BY <2>1
  <2>3. QED
    BY <1>2, <1>4, <2>2
<1>5. CASE cmd = "resizepart" /\ at \in {4, 8}
  <2>1. s = <<"open", "num", "save", "busy", "restore", "end", "geom", "shrink", "commit">>
    BY <1>1, <1>5 DEF Steps
  <2>2. s[4] = "busy" /\ s[8] = "shrink"
    BY <2>1
  <2>3. QED
    BY <1>2, <1>5, <2>2
<1>6. QED
  BY <1>3, <1>4, <1>5 DEF AtQuestion

(* A step of a command pauses or moves on.                                  *)
LEMMA StepPauses ==
    ASSUME Control, do_args \/ do_questions \/ do_work
    PROVE  pc = "run" /\ (Pauses \/ Moves)
<1>1. CASE do_args
  <2>1. PICK step : Reading(step)
    BY <1>1, ArgsRead
  <2>2. ~AtQuestion
    BY <2>1, QuestionSteps DEF Reading, ReadSteps
  <2>3. QED
    BY <2>1, <2>2 DEF Reading, AtStep, Pauses, Moves, Continue, Keep, Fail, Fails
<1>2. ASSUME NEW options, ped_exception_throw(options), UNCHANGED sesvars,
             options \in YesNo \/ ~AtQuestion,
             options \in Buttons
      PROVE  Pauses
  <2>1. IsFiniteSet(options) /\ options # {} /\ options \subseteq Replies
    BY <1>2, OptionsFinite
  <2>2. QED
    BY <1>2, <2>1 DEF Pauses, Asks
<1>3. ASSUME NEW step, NEW applies, NEW options, NEW yes, Question(step, applies, options, yes),
             options \in YesNo
      PROVE  pc = "run" /\ (Pauses \/ Moves)
  BY <1>2, <1>3 DEF Question, Buttons, AtStep, Moves, Continue, Keep, Fail, Fails
<1>4. ASSUME NEW step, step \in {"elsewhere", "unaligned"}, NEW options, NEW yes,
             AskLocation(step, options, yes), options \in YesNo \cup {{"cancel"}, {"ok"}}
      PROVE  pc = "run" /\ (Pauses \/ Moves)
  <2>1. AtStep(step) /\ ~AtQuestion
    BY <1>4, QuestionSteps DEF AskLocation
  <2>2. QED
    BY <1>2, <1>4, <2>1 DEF AskLocation, Buttons, AtStep, Moves, SkipTo, Keep, Fails
<1>5. CASE _rescue_add_partition
  <2>1. PICK step \in {"found"} : AtStep(step)
    BY <1>5 DEF _rescue_add_partition
  <2>2. ~AtQuestion
    BY <2>1, QuestionSteps
  <2>3. QED
    BY <1>2, <1>5, <2>1, <2>2 DEF _rescue_add_partition, Buttons, AtStep, Moves, Continue, NextCandidate, Keep,
       Fail, Fails
<1>6. CASE do_questions
  BY <1>3, <1>4, <1>5, <1>6 DEF do_questions, _disk_warn_busy, _disk_warn_loss, YesNo,
     _partition_warn_busy, WarnShrink, AskElsewhere, AskUnaligned
<1>7. CASE OpenDisk \/ ProbeDisk
  <2>1. PICK step \in {"open", "probe"} : AtStep(step)
    BY <1>7 DEF OpenDisk, ProbeDisk
  <2>2. ~AtQuestion
    BY <2>1, QuestionSteps
  <2>3. QED
    BY <1>2, <1>7, <2>1, <2>2 DEF OpenDisk, ProbeDisk, Buttons, ped_disk_new, AtStep, Moves, Advance,
       Continue, Keep, SkipTo, Fail, Fails
<1>8. CASE do_work /\ ~(OpenDisk \/ ProbeDisk)
  <2>1. pc = "run" /\ Moves
    BY <1>8 DEF do_work, FetchAll, LeaveAll, FreshLabel, DeletePartition, SetGeom,
       do_set, do_disk_set, do_toggle, do_name, do_type, SaveEnd, RestoreEnd, PlacePartition,
       CommitDisk, CommitLabel, DropDisk, FindFileSystem, CommitRescued, PrintDevices,
       PrintWhich, UseAfterFree, SwitchDevice, AlignCheck, do_resize, do_quit, Done, Refused, Assign,
       WorkStep, AtStep, Advance, Continue, Keep, SkipTo, NextCandidate, Fail, Fails, Moves
  <2>2. QED
    BY <2>1
<1>9. QED
  BY <1>1, <1>6, <1>7, <1>8

(* A question waits at a terminal, has no default, and knows the line it    *)
(* was asked at: every word that comes is from a later line.                *)
Asking ==
    Waiting /\ req.question =>
        /\ req.asked \in Nat /\ req.asked <= lines
        /\ Default(req) = None
        /\ ~mode.script
        /\ pc = "word" /\ words # <<>> => Head(words).line \in Nat

(* What ped_exception_throw does with choices: an answer at once, or a      *)
(* question to a terminal that has no default.                              *)
LEMMA Thrown ==
    ASSUME NEW options, ped_exception_throw(options), IsFiniteSet(options), options # {},
           pc = "run"
    PROVE  \/ pc' = "run" /\ UNCHANGED <<mode, words, lines, eof, ctrl_c, fetch, req, pc>>
           \/ /\ command_line_get_ex_opt(options)
              /\ Default(req') = None /\ ~mode.script
<1>1. CASE command_line_get_ex_opt(options) /\ exception_handler(options) = {}
  <2>1. Cardinality(options) \in Nat /\ Cardinality(options) # 0
    BY FS_CardinalityType, FS_EmptySet
  <2>2. PICK c \in Nat : c = Cardinality(options)
    BY <2>1
  <2>3. c # 1
    BY <1>1, <2>2 DEF exception_handler
  <2>4. c > 1
    BY <2>1, <2>2, <2>3
  <2>5. ~mode.script
    BY <1>1, <2>2, <2>4 DEF exception_handler
  <2>6. Default(req') = None
    BY <1>1, <2>2, <2>3 DEF command_line_get_ex_opt, Default
  <2>7. QED
    BY <1>1, <2>5, <2>6
<1>2. QED
  BY <1>1 DEF ped_exception_throw

(* Words typed on a line carry its number.                                  *)
LEMMA Stamped ==
    ASSUME NEW S, NEW typed \in Seq(S), NEW stamp, NEW push,
           push = command_line_push_line(typed, stamp), push # <<>>
    PROVE  Head(push).line = stamp
<1>1. push = [i \in 1 .. Len(typed) |-> [text |-> typed[i], line |-> stamp]]
  BY DEF command_line_push_line
<1>2. Len(typed) \in Nat
  OBVIOUS
<1>3. push \in Seq([text : S, line : {stamp}])
  BY <1>1, <1>2
<1>4. Head(push) \in [text : S, line : {stamp}]
  <2>1. ASSUME NEW T, push \in Seq(T) PROVE Head(push) \in T
    BY <2>1
  <2>2. QED
    BY <1>3, <2>1
<1>5. QED
  BY <1>4

(* While a question waits, the words that come are typed after it.          *)
LEMMA PromptAsking ==
    ASSUME Control, Asking, AnswersFresh, Prompts \/ User PROVE Asking' /\ AnswersFresh'
<1>1. CASE GetWord_Take
  BY <1>1 DEF GetWord_Take, Return, Control, Waiting, Asking, AnswersFresh
<1>2. CASE GetWord_Prompt
  BY <1>2 DEF GetWord_Prompt, Return, Control, Waiting, Asking, AnswersFresh
<1>3. CASE PromptWords_Eof
  BY <1>3 DEF PromptWords_Eof, Return, Control, Waiting, Asking, AnswersFresh
<1>4. CASE CloseInput
  BY <1>4 DEF CloseInput, Control, Waiting, Asking, AnswersFresh
<1>5. ASSUME NEW line \in Lines, PromptWords_Line(line) PROVE Asking' /\ AnswersFresh'
  <2>1. PICK n \in Nat : n = lines
    BY DEF Control
  <2>2. lines' = n + 1 /\ req' = req /\ mode' = mode /\ pc' \in {"line", "loop", "word"}
        /\ pc = "line" /\ (pc' = "word" => req # None)
    BY <1>5, <2>1 DEF PromptWords_Line
  <2>3. PICK S, typed :
          typed \in Seq(S) /\ words' = command_line_push_line(typed, n + 1)
    <3>1. line \in Seq(STRING)
      BY CommandLineAssumption
    <3>2. <<PromptDefault>> \in Seq({PromptDefault})
      OBVIOUS
    <3>3. \/ words' = command_line_push_line(line, n + 1)
          \/ words' = command_line_push_line(<<PromptDefault>>, n + 1)
      BY <1>5, <2>1 DEF PromptWords_Line
    <3>4. QED
      BY <3>1, <3>2, <3>3
  <2>5. words' # <<>> => Head(words').line = n + 1
    BY <2>3, Stamped
  <2>6. Asking'
    BY <2>1, <2>2, <2>5 DEF Asking, Waiting, Control
  <2>7. AnswersFresh'
    BY <2>1, <2>2, <2>5 DEF Asking, AnswersFresh, Waiting
  <2>8. QED
    BY <2>6, <2>7
<1>6. QED
  BY <1>1, <1>2, <1>3, <1>4, <1>5 DEF Prompts, User

(* A question starts with no words: command_line_get_ex_opt dropped them.   *)
LEMMA PauseAsking ==
    ASSUME Control, pc = "run", Pauses PROVE Asking' /\ AnswersFresh'
<1>1. ASSUME NEW def, NEW poss,
             command_line_get_word([def |-> def, poss |-> poss, asked |-> 0, question |-> FALSE])
      PROVE  Asking' /\ AnswersFresh'
  BY <1>1 DEF command_line_get_word, Asking, AnswersFresh
<1>2. CASE Asks
  <2>1. PICK options : /\ ped_exception_throw(options)
                       /\ IsFiniteSet(options) /\ options # {}
    BY <1>2 DEF Asks
  <2>2. CASE pc' = "run"
    BY <2>2 DEF Asking, AnswersFresh, Waiting
  <2>3. CASE command_line_get_ex_opt(options) /\ Default(req') = None /\ ~mode.script
    BY <2>3 DEF command_line_get_ex_opt, Asking, AnswersFresh, Control
  <2>4. QED
    BY <2>1, <2>2, <2>3, Thrown
<1>3. QED
  BY <1>1, <1>2 DEF Pauses

(* Asking and AnswersFresh are inductive, given Control.                    *)
LEMMA NextAsking ==
    ASSUME Control, Asking, AnswersFresh, [Next]_vars PROVE Asking' /\ AnswersFresh'
<1>1. CASE UNCHANGED vars
  BY <1>1 DEF vars, cmdvars, Asking, AnswersFresh, Waiting
<1>2. CASE do_args \/ do_questions \/ do_work
  BY <1>2, StepPauses, PauseAsking DEF Moves, Asking, AnswersFresh, Waiting
<1>3. CASE interactive_mode \/ non_interactive_mode
  BY <1>3 DEF interactive_mode, non_interactive_mode, Start, Asking, AnswersFresh, Waiting, Control
<1>4. QED
  BY <1>1, <1>2, <1>3, PromptAsking DEF Next, Program, Ended

(* At first nothing was asked.                                              *)
LEMMA InitControl == Init => Control /\ Asking /\ AnswersFresh
  BY DEF Init, Control, Asking, AnswersFresh, Waiting, Idle

---------------------------------------------------------------------------
(* Who fetches exceptions *)

(* Between ped_exception_fetch_all and ped_exception_leave_all: do_mklabel  *)
(* looks for an old table, do_mkpart places the partition.                  *)
Fetching ==
    \/ cmd = "mklabel" /\ at \in {2, 3} /\ disk = None
    \/ cmd = "mkpart" /\ at = 4

(* Exceptions are fetched once there, and nowhere else.                     *)
Fetched == pc # "end" => fetch = IF Fetching THEN 1 ELSE 0

(* What the steps around those two regions are.                             *)
LEMMA FetchSteps ==
    ASSUME NEW step, AtStep(step)
    PROVE  /\ cmd = "mklabel" /\ at = 1 => step = "fetch"
           /\ cmd = "mklabel" /\ at = 2 => step = "probe"
           /\ cmd = "mklabel" /\ at = 3 => step = "leave"
           /\ cmd = "mkpart" /\ at = 3 => step = "fetch"
           /\ cmd = "mkpart" /\ at = 4 => step = "place"
<1>1. PICK s : s = Steps[cmd]
  OBVIOUS
<1>2. step = s[at]
  BY <1>1 DEF AtStep, Step
<1>3. CASE cmd = "mklabel"
  <2>1. s = <<"fetch", "probe", "leave", "label", "disk busy", "loss", "fresh",
               "commit">>
    BY <1>1, <1>3 DEF Steps
  <2>2. s[1] = "fetch" /\ s[2] = "probe" /\ s[3] = "leave"
    BY <2>1
  <2>3. QED
    BY <1>2, <1>3, <2>2
<1>4. CASE cmd = "mkpart"
  <2>1. s = <<"open", "end", "fetch", "place", "elsewhere", "unaligned", "commit">>
    BY <1>1, <1>4 DEF Steps
  <2>2. s[3] = "fetch" /\ s[4] = "place"
    BY <2>1
  <2>3. QED
    BY <1>2, <1>4, <2>2
<1>5. QED
  BY <1>3, <1>4

(* Away from the four steps nothing is fetched, before or after.            *)
LEMMA AwayFetched ==
    ASSUME Control, Fetched, NEW step, AtStep(step),
           step \notin {"fetch", "probe", "leave", "place"}
    PROVE  /\ fetch = 0
           /\ fetch' = fetch /\ cmd' = cmd /\ at' = at + 1 => Fetched'
           /\ fetch' = fetch /\ at' = 1 => Fetched'
<1>1. pc = "run" /\ at \in Nat
  BY DEF Control, AtStep
<1>2. fetch = 0
  BY <1>1, FetchSteps DEF Fetched, Fetching
<1>3. CASE fetch' = fetch /\ cmd' = cmd /\ at' = at + 1
  <2>1. ~Fetching'
    BY <1>1, <1>3, FetchSteps DEF Fetching
  <2>2. QED
    BY <1>2, <1>3, <2>1 DEF Fetched
<1>4. CASE fetch' = fetch /\ at' = 1
  BY <1>2, <1>4 DEF Fetched, Fetching
<1>5. QED
  BY <1>2, <1>3, <1>4

(* A question changes nothing of it.                                        *)
LEMMA PauseFetched ==
    ASSUME Control, Fetched, pc # "end", UNCHANGED <<fetch, cmd, at, disk>> PROVE Fetched'
  BY DEF Fetched, Fetching

(* The prompts and the user leave tables and exceptions alone.              *)
LEMMA PromptsKeep ==
    ASSUME Prompts \/ User PROVE UNCHANGED <<mode, fetch, sesvars>> /\ pc # "end"
  BY DEF Prompts, User, GetWord_Take, GetWord_Prompt, PromptWords_Eof, PromptWords_Line,
         CloseInput, Return

(* Fetched is kept by the steps that read words,                            *)
LEMMA ReadFetched ==
    ASSUME Control, Fetched, NEW step, Reading(step) PROVE Fetched'
<1>1. AtStep(step) /\ step \notin {"fetch", "probe", "leave", "place"}
  BY DEF Reading, ReadSteps
<1>2. pc # "end"
  BY <1>1 DEF AtStep
<1>3. CASE /\ \E def, poss : command_line_get_word([def |-> def, poss |-> poss, asked |-> 0,
                                                    question |-> FALSE])
           /\ UNCHANGED sesvars
  BY <1>2, <1>3, PauseFetched DEF command_line_get_word, sesvars
<1>4. CASE Continue /\ Keep /\ UNCHANGED cmd
  BY <1>1, <1>4, AwayFetched DEF Continue, Keep
<1>5. CASE Fail
  BY <1>1, <1>5, AwayFetched DEF Fail, Fails
<1>6. QED
  BY <1>3, <1>4, <1>5 DEF Reading

(* by exceptions,                                                           *)
LEMMA ThrowFetched ==
    ASSUME Control, Fetched, pc # "end", NEW options, ped_exception_throw(options), UNCHANGED sesvars
    PROVE  Fetched'
  BY PauseFetched DEF ped_exception_throw, command_line_get_ex_opt, sesvars

(* by the questions,                                                        *)
LEMMA AskFetched ==
    ASSUME Control, Fetched, do_questions PROVE Fetched'
<1>1. ASSUME NEW step, AtStep(step), step \notin {"fetch", "probe", "leave", "place"},
             Continue /\ Keep /\ UNCHANGED cmd
      PROVE  Fetched'
  BY <1>1, AwayFetched DEF Continue, Keep
<1>2. ASSUME NEW step, AtStep(step), step \notin {"fetch", "probe", "leave", "place"},
             NEW table, Fails(table), UNCHANGED fetch
      PROVE  Fetched'
  BY <1>2, AwayFetched DEF Fails
<1>3. ASSUME NEW step, step \in {"disk busy", "loss", "busy", "shrink"}, NEW applies,
             NEW options, NEW yes, Question(step, applies, options, yes)
      PROVE  Fetched'
  BY <1>1, <1>2, <1>3, ThrowFetched DEF Question, Fail, AtStep
<1>4. ASSUME NEW step, step \in {"elsewhere", "unaligned"}, NEW options, NEW yes,
             AskLocation(step, options, yes)
      PROVE  Fetched'
  <2>1. AtStep(step) /\ pc # "end" /\ step \notin {"fetch", "probe", "leave", "place"}
    BY <1>4 DEF AskLocation, AtStep
  <2>2. CASE ped_exception_throw(options) /\ UNCHANGED sesvars
    BY <2>1, <2>2, ThrowFetched
  <2>3. CASE SkipTo(at + 1)
    BY <2>1, <2>3, AwayFetched DEF SkipTo, Keep
  <2>4. CASE Fails(Unplaced) /\ UNCHANGED fetch
    BY <1>2, <2>1, <2>4
  <2>5. QED
    BY <1>4, <2>2, <2>3, <2>4 DEF AskLocation
<1>5. CASE _rescue_add_partition
  <2>1. AtStep("found") /\ pc # "end"
    BY <1>5 DEF _rescue_add_partition, AtStep
  <2>2. CASE ped_exception_throw({"yes", "no", "cancel"}) /\ UNCHANGED sesvars
    BY <2>1, <2>2, ThrowFetched
  <2>3. CASE NextCandidate
    <3>1. cmd = "rescue"
      BY <2>1, StepAt DEF Control, AtStep
    <3>2. QED
      BY <2>1, <2>3, <3>1 DEF NextCandidate, Keep, Fetched, Fetching
  <2>4. QED
    BY <1>1, <1>2, <1>5, <2>1, <2>2, <2>3 DEF _rescue_add_partition, Fail
<1>6. QED
  BY <1>3, <1>4, <1>5 DEF do_questions, _disk_warn_busy, _disk_warn_loss,
     _partition_warn_busy, WarnShrink, AskElsewhere, AskUnaligned

(* and by the work, in the two regions and out of them.                     *)
LEMMA WorkFetched ==
    ASSUME Control, Fetched, do_work PROVE Fetched'
<1>1. pc = "run" /\ cmd \in Commands /\ at \in Nat \ {0}
  BY DEF Control, do_work, FetchAll, ProbeDisk, LeaveAll, OpenDisk, FreshLabel, DeletePartition,
         SetGeom, do_set, do_disk_set, do_toggle, do_name, do_type, SaveEnd, RestoreEnd,
         PlacePartition, CommitDisk, CommitLabel, DropDisk, FindFileSystem, CommitRescued,
         PrintDevices, PrintWhich, UseAfterFree, SwitchDevice, AlignCheck, do_resize, do_quit,
         Done, Refused, Assign, WorkStep, AtStep
<1>2. fetch = IF Fetching THEN 1 ELSE 0
  BY <1>1 DEF Fetched
<1>3. ASSUME NEW step, AtStep(step), step \notin {"fetch", "probe", "leave", "place"},
             Continue, UNCHANGED <<fetch, cmd>>
      PROVE  Fetched'
  BY <1>3, AwayFetched DEF Continue
<1>4. ASSUME NEW step, AtStep(step), step \notin {"fetch", "probe", "leave", "place"},
             NEW table, Fails(table), UNCHANGED fetch
      PROVE  Fetched'
  BY <1>4, AwayFetched DEF Fails
<1>5. ASSUME cmd' = cmd, fetch' = fetch, cmd \in {"print", "rescue"} PROVE Fetched'
  BY <1>2, <1>5 DEF Fetched, Fetching
<1>6. CASE FetchAll
  <2>1. (cmd = "mklabel" /\ at = 1) \/ (cmd = "mkpart" /\ at = 3)
    BY <1>1, <1>6, StepAt DEF FetchAll
  <2>2. fetch = 0
    BY <1>2, <2>1 DEF Fetching
  <2>3. UNCHANGED <<cmd, disk, pc>> /\ at' = at + 1
        /\ fetch' = IF cmd = "mklabel" /\ disk # None THEN 0 ELSE 1
    BY <1>6, <2>2 DEF FetchAll, Continue
  <2>4. QED
    BY <2>1, <2>3 DEF Fetched, Fetching
<1>7. CASE ProbeDisk
  <2>1. cmd \in {"mklabel", "rescue"} /\ at = 2
    BY <1>1, <1>7, StepAt DEF ProbeDisk
  <2>2. CASE ped_exception_throw({"fix", "ignore"}) /\ UNCHANGED sesvars
    BY <1>1, <2>2, ThrowFetched
  <2>3. CASE Advance /\ UNCHANGED disk
    BY <1>2, <2>1, <2>3 DEF Advance, Continue, Keep, Fetched, Fetching
  <2>4. CASE Fail /\ cmd = "rescue"
    BY <1>2, <2>4 DEF Fail, Fails, Fetched, Fetching
  <2>5. QED
    BY <1>7, <2>2, <2>3, <2>4 DEF ProbeDisk, ped_disk_new
<1>8. CASE LeaveAll
  <2>1. cmd = "mklabel" /\ at = 3
    BY <1>1, <1>8, StepAt DEF LeaveAll
  <2>2. fetch = IF disk = None THEN 1 ELSE 0
    BY <1>2, <2>1 DEF Fetching
  <2>3. UNCHANGED <<cmd, disk, pc>> /\ at' = 4 /\ fetch' = 0
    BY <1>8, <2>1, <2>2 DEF LeaveAll, Continue
  <2>4. QED
    BY <2>1, <2>3 DEF Fetched, Fetching
<1>9. CASE OpenDisk
  <2>1. AtStep("open") /\ pc # "end"
    BY <1>9 DEF OpenDisk, AtStep
  <2>2. CASE ped_exception_throw({"fix", "ignore"}) /\ UNCHANGED sesvars
    BY <2>1, <2>2, ThrowFetched
  <2>3. CASE cmd = "print" /\ SkipTo(Len(Steps[cmd]) + 1)
    BY <1>5, <2>3 DEF SkipTo, Keep
  <2>4. QED
    <3>1. CASE Advance
      BY <1>3, <2>1, <3>1 DEF Advance, Keep
    <3>2. CASE Fail
      BY <1>4, <2>1, <3>2 DEF Fail
    <3>3. QED
      BY <1>9, <2>2, <2>3, <3>1, <3>2 DEF OpenDisk, ped_disk_new
<1>10. CASE FreshLabel \/ DeletePartition \/ SetGeom \/ DropDisk
  BY <1>3, <1>10 DEF FreshLabel, DeletePartition, SetGeom, DropDisk, WorkStep, Advance, Keep
<1>11. CASE do_set \/ do_disk_set \/ do_toggle \/ do_name \/ do_type
  BY <1>3, <1>11 DEF do_set, do_disk_set, do_toggle, do_name, do_type, Assign, WorkStep, Advance,
                     Keep
<1>12. CASE SaveEnd \/ RestoreEnd \/ SwitchDevice
  BY <1>3, <1>12 DEF SaveEnd, RestoreEnd, SwitchDevice, Keep
<1>13. CASE PlacePartition
  <2>1. cmd = "mkpart" /\ at = 4
    BY <1>1, <1>13, StepAt DEF PlacePartition
  <2>2. fetch' = 0 /\ at' \in {1, 5}
    BY <1>2, <1>13, <2>1 DEF PlacePartition, Fetching, Continue, Fails
  <2>3. QED
    BY <2>1, <2>2 DEF Fetched, Fetching
<1>14. CASE CommitDisk
  BY <1>3, <1>4, <1>14 DEF CommitDisk, Advance, Keep
<1>15. CASE CommitLabel
  BY <1>3, <1>4, <1>15 DEF CommitLabel, Advance, Keep
<1>16. CASE CommitRescued
  BY <1>3, <1>5, <1>16 DEF CommitRescued, Advance, NextCandidate, Keep
<1>17. CASE FindFileSystem
  BY <1>1, <1>5, <1>17, StepAt DEF FindFileSystem, SkipTo, Keep
<1>18. CASE PrintDevices \/ PrintWhich
  BY <1>1, <1>5, <1>18, StepAt DEF PrintDevices, PrintWhich, SkipTo, Keep
<1>19. CASE UseAfterFree \/ do_quit
  BY <1>19 DEF UseAfterFree, do_quit, Fetched
<1>20. CASE AlignCheck
  BY <1>1, <1>3, <1>4, <1>20 DEF AlignCheck, SkipTo, Continue, Keep, Fail
<1>21. CASE do_resize \/ Refused
  BY <1>4, <1>21 DEF do_resize, Refused, Fail
<1>22. CASE Done
  <2>1. ~Fetching
    <3>1. CASE cmd = "mklabel"
      BY <1>1, <1>22, <3>1, Lengths DEF Done, Fetching
    <3>2. CASE cmd = "mkpart"
      BY <1>1, <1>22, <3>2, Lengths DEF Done, Fetching
    <3>3. QED
      BY <3>1, <3>2 DEF Fetching
  <2>2. QED
    BY <1>2, <1>22, <2>1 DEF Done, Fetched, Fetching
<1>23. QED
  BY <1>6, <1>7, <1>8, <1>9, <1>10, <1>11, <1>12, <1>13, <1>14, <1>15, <1>16, <1>17, <1>18, <1>19,
     <1>20, <1>21, <1>22 DEF do_work

(* Fetched is inductive, given Control.                                     *)
LEMMA NextFetched == ASSUME Control, Fetched, [Next]_vars PROVE Fetched'
<1>1. CASE UNCHANGED vars
  BY <1>1 DEF vars, cmdvars, sesvars, Fetched, Fetching
<1>2. CASE interactive_mode \/ non_interactive_mode
  <2>1. pc = "loop" /\ at = 1 /\ fetch' = fetch /\ at' = 1
    BY <1>2 DEF interactive_mode, non_interactive_mode, Start, Control, Idle
  <2>2. QED
    BY <2>1 DEF Fetched, Fetching
<1>3. CASE Prompts \/ User
  BY <1>3, PromptsKeep, PauseFetched DEF sesvars
<1>4. QED
  BY <1>1, <1>2, <1>3, WorkFetched, AskFetched, ReadFetched, ArgsRead DEF Next, Program, Ended

---------------------------------------------------------------------------
(* Answers *)

(* A question is answered with a word typed after it was asked, in every    *)
(* run with any commands, devices and input: what command_line_get_ex_opt   *)
(* drops before it asks is all that was typed ahead.                        *)
THEOREM FreshAnswers == ASSUME NoneIsNoRecord PROVE Spec => []AnswersFresh
<1>1. Control /\ Asking /\ AnswersFresh /\ [Next]_vars
        => (Control /\ Asking /\ AnswersFresh)'
  BY NextControl, NextAsking
<1>2. QED
  BY <1>1, InitControl, PTL DEF Spec

(* What a command has in got. At the five questions it is what the user     *)
(* typed at a terminal, or that nobody answered.                            *)
Answers ==
    /\ Waiting /\ AtQuestion => req.question
    /\ pc = "run" /\ got \notin {Nothing, None} =>
          /\ got.text # None
          /\ AtQuestion => got = UNHANDLED \/ (got.line \in Nat \ {0} /\ ~mode.script)

(* A prompt hands over what the user typed.                                 *)
LEMMA PromptAnswers ==
    ASSUME Control, Asking, AnswersFresh, Answers, Prompts \/ User PROVE Answers'
<1>1. UNCHANGED <<mode, cmd, at>> /\ (AtQuestion' <=> AtQuestion)
  BY PromptsKeep DEF sesvars, AtQuestion
<1>2. CASE GetWord_Take
  <2>1. CASE pc' = "run" /\ got' = None
    BY <2>1 DEF Answers, Waiting
  <2>2. ASSUME NEW text, text # None, got' = [text |-> text, line |-> Head(words).line],
               pc' = "run"
        PROVE  Answers'
    <3>1. got'.text # None
      BY <2>2
    <3>2. ASSUME AtQuestion PROVE got'.line \in Nat \ {0} /\ ~mode.script
      <4>1. req.question
        BY <1>2, <3>2 DEF GetWord_Take, Answers, Waiting
      <4>2. PICK n, m \in Nat : n = req.asked /\ m = Head(words).line
        BY <1>2, <4>1 DEF GetWord_Take, Asking, Waiting
      <4>3. m > n /\ ~mode.script
        BY <1>2, <4>1, <4>2 DEF GetWord_Take, AnswersFresh, Asking, Waiting
      <4>4. QED
        BY <2>2, <4>2, <4>3
    <3>3. QED
      BY <1>1, <2>2, <3>1, <3>2 DEF Answers, Waiting
  <2>3. CASE pc' = "line" /\ UNCHANGED req
    BY <1>1, <1>2, <2>3 DEF GetWord_Take, Answers, Waiting
  <2>4. QED
    BY <1>2, <2>1, <2>2, <2>3 DEF GetWord_Take, Return
<1>3. CASE GetWord_Prompt
  BY <1>1, <1>3 DEF GetWord_Prompt, Return, Answers, Waiting
<1>4. CASE PromptWords_Eof
  BY <1>1, <1>4 DEF PromptWords_Eof, Return, Answers, Waiting
<1>5. CASE CloseInput
  BY <1>1, <1>5 DEF CloseInput, Answers, Waiting
<1>6. ASSUME NEW line \in Lines, PromptWords_Line(line) PROVE Answers'
  BY <1>1, <1>6 DEF PromptWords_Line, Answers, Waiting
<1>7. QED
  BY <1>2, <1>3, <1>4, <1>5, <1>6 DEF Prompts, User

(* What the handler may answer by itself is a choice that is no answer to   *)
(* a question of yes and no.                                                *)
LEMMA Handled ==
    ASSUME NEW a, NEW b, a # b, {a, b} \in {{"yes", "no"}, {"ignore", "cancel"}},
           ped_exception_throw({a, b}), pc' = "run", pc = "run"
    PROVE  got' = UNHANDLED
<1>1. Cardinality({a, b}) = 2
  <2>1. IsFiniteSet({a}) /\ Cardinality({a}) = 1
    BY FS_Singleton
  <2>2. {a, b} = {a} \cup {b} /\ b \notin {a}
    OBVIOUS
  <2>3. QED
    BY <2>1, <2>2, FS_AddElement
<1>2. "fix" \notin {a, b}
  OBVIOUS
<1>3. exception_handler({a, b}) \in {{UNHANDLED}, {}}
  BY <1>1, <1>2 DEF exception_handler
<1>4. got' \in {UNHANDLED}
  BY <1>3 DEF ped_exception_throw, command_line_get_ex_opt
<1>5. QED
  BY <1>4

(* What the handler answers for the user is no yes at those questions.      *)
LEMMA PauseAnswers ==
    ASSUME Control, Answers, pc = "run", Pauses PROVE Answers'
<1>1. AtQuestion' <=> AtQuestion
  BY DEF Pauses, sesvars, AtQuestion
<1>2. ASSUME NEW def, NEW poss, ~AtQuestion,
             command_line_get_word([def |-> def, poss |-> poss, asked |-> 0, question |-> FALSE])
      PROVE  Answers'
  BY <1>1, <1>2 DEF command_line_get_word, Answers
<1>3. CASE Asks
  <2>1. PICK options : /\ ped_exception_throw(options)
                       /\ IsFiniteSet(options) /\ options # {} /\ options \subseteq Replies
                       /\ AtQuestion => options \in YesNo
    BY <1>3 DEF Asks
  <2>2. CASE command_line_get_ex_opt(options)
    BY <2>2 DEF command_line_get_ex_opt, Answers
  <2>3. CASE pc' = "run"
    <3>1. got' \in {UNHANDLED} \cup exception_handler(options)
      BY <2>1, <2>3 DEF ped_exception_throw, command_line_get_ex_opt
    <3>2. exception_handler(options) \subseteq {UNHANDLED} \cup {Chosen(opt) : opt \in Replies}
      BY <2>1 DEF exception_handler, Replies
    <3>3. got'.text # None
      <4>1. got' = UNHANDLED \/ \E opt \in Replies : got' = Chosen(opt)
        BY <3>1, <3>2
      <4>2. QED
        BY <4>1, CommandLineAssumption DEF UNHANDLED, Chosen, Replies
    <3>4. AtQuestion => got' = UNHANDLED
      <4>1. CASE options = {"yes", "no"}
        <5>1. "yes" # "no" /\ {"yes", "no"} \in {{"yes", "no"}, {"ignore", "cancel"}}
          OBVIOUS
        <5>2. QED
          BY <2>1, <2>3, <4>1, <5>1, Handled
      <4>2. CASE options = {"ignore", "cancel"}
        <5>1. "ignore" # "cancel" /\ {"ignore", "cancel"} \in {{"yes", "no"}, {"ignore", "cancel"}}
          OBVIOUS
        <5>2. QED
          BY <2>1, <2>3, <4>2, <5>1, Handled
      <4>3. QED
        BY <2>1, <4>1, <4>2 DEF YesNo
    <3>5. QED
      BY <1>1, <2>3, <3>3, <3>4 DEF Answers, Waiting
  <2>4. QED
    BY <2>1, <2>2, <2>3 DEF ped_exception_throw
<1>4. QED
  BY <1>2, <1>3 DEF Pauses

(* Answers is inductive, given Asking and AnswersFresh.                     *)
LEMMA NextAnswers ==
    ASSUME Control, Asking, AnswersFresh, Answers, [Next]_vars PROVE Answers'
<1>1. CASE UNCHANGED vars
  BY <1>1 DEF vars, cmdvars, sesvars, Answers, Waiting, AtQuestion
<1>2. CASE do_args \/ do_questions \/ do_work
  BY <1>2, StepPauses, PauseAnswers DEF Moves, Answers, Waiting
<1>3. CASE interactive_mode \/ non_interactive_mode
  BY <1>3 DEF interactive_mode, non_interactive_mode, Start, Control, Answers, Waiting
<1>4. QED
  BY <1>1, <1>2, <1>3, PromptAnswers DEF Next, Program, Ended

---------------------------------------------------------------------------
(* Tables *)

(* A table in memory or on a device.                                        *)
IsTable(t) ==
    /\ t = [label |-> t.label, odd |-> t.odd, bad |-> t.bad, size |-> t.size, attr |-> t.attr]
    /\ t.size \in [Nums -> Nat]

(* On a device without a label there are no partitions.                     *)
Labelled(t) == IsTable(t) /\ (t.label = None => \A n \in Nums : t.size[n] = 0)

(* Every device holds a table.                                              *)
MediumOk ==
    /\ dev \in Devices
    /\ medium = [d \in Devices |-> medium[d]]
    /\ \A d \in Devices : Labelled(medium[d])

(* A command runs, or waits for a word.                                     *)
Running == pc = "run" \/ Waiting

(* The commands that change the table in memory.                            *)
Editing == {"mkpart", "rm", "resizepart", "set", "toggle", "disk_set", "disk_toggle", "name", "type"}

(* What a command holds at each step: *diskp, its own table, and the words  *)
(* it has read that are numbers, sizes or devices.                          *)
InHand ==
    /\ cmd \in Editing /\ at >= 2 => disk # None
    /\ cmd = "rescue" /\ at >= 2 => disk = None
    /\ cmd = "rescue" /\ at >= 3 => IsTable(local) /\ local.label # None
    /\ cmd = "mklabel" =>
          /\ at <= 4 => arg = <<>>
          /\ at \in {5, 6, 7} => arg[1] # None
          /\ at \in {3, 4, 5, 6, 7} => local = None \/ IsTable(local)
          /\ at = 8 => IsTable(local) /\ local.label # None /\ \A n \in Nums : local.size[n] = 0
    /\ cmd = "mkpart" =>
          /\ at <= 2 => arg = <<>>
          /\ at \in {3, 4} => Numeral[arg[1]] \in Nat
    /\ cmd = "resizepart" =>
          /\ at <= 2 => arg = <<>>
          /\ at \in {3, 4, 5, 6} => arg = <<arg[1]>>
          /\ at = 7 => Numeral[arg[2]] \in Nat
    /\ cmd = "select" =>
          /\ at = 1 => arg = <<>>
          /\ at = 2 => arg[1] \in Devices

(* Tables are tables, in memory, in a command and on the devices.           *)
Tables ==
    /\ MediumOk
    /\ pc # "end" /\ disk # None => IsTable(disk) /\ disk.label # None
    /\ Running => InHand

(* A table is not None.                                                     *)
LEMMA TableIs == ASSUME NoneIsNoRecord, NEW t, IsTable(t) PROVE t # None
  BY DEF NoneIsNoRecord, IsTable

(* A table with a partition resized, one deleted, its flags changed, and    *)
(* its use of the device put right.                                         *)
Sized(t, n, k) == [t EXCEPT !.size[n] = k]
Deleted(t, n, f) == [t EXCEPT !.size[n] = 0, !.attr = f]
Marked(t, f) == [t EXCEPT !.attr = f]
Fixed(t, b) == [t EXCEPT !.odd = b]

(* The parts of a table.                                                    *)
LEMMA TableFields ==
    ASSUME NEW t, IsTable(t)
    PROVE  \E l, o, b, s, a : /\ t = [label |-> l, odd |-> o, bad |-> b, size |-> s, attr |-> a]
                           /\ s \in [Nums -> Nat] /\ l = t.label /\ s = t.size
  BY DEF IsTable

(* Resizing a partition changes its size, and deleting it makes that 0.     *)
LEMMA SizedIs ==
    ASSUME NEW t, IsTable(t), NEW n, NEW k \in Nat, NEW f, NEW u,
           u = Sized(t, n, k) \/ (k = 0 /\ u = Deleted(t, n, f))
    PROVE  /\ IsTable(u) /\ u.label = t.label
           /\ \A m \in Nums : u.size[m] = IF m = n THEN k ELSE t.size[m]
<1>1. PICK l, o, b, s, a : t = [label |-> l, odd |-> o, bad |-> b, size |-> s, attr |-> a]
                        /\ s \in [Nums -> Nat] /\ l = t.label /\ s = t.size
  BY TableFields
<1>2. PICK z : z = [s EXCEPT ![n] = k]
  OBVIOUS
<1>3. z \in [Nums -> Nat] /\ \A m \in Nums : z[m] = IF m = n THEN k ELSE s[m]
  BY <1>1, <1>2
<1>4. PICK g : u = [label |-> l, odd |-> o, bad |-> b, size |-> z, attr |-> g]
  BY <1>1, <1>2 DEF Sized, Deleted
<1>5. u.label = l /\ u.size = z /\ IsTable(u)
  BY <1>3, <1>4 DEF IsTable
<1>6. QED
  BY <1>1, <1>3, <1>5

(* The partition that is deleted is the one that is gone.                   *)
LEMMA DeletedIs ==
    ASSUME NEW t, IsTable(t), NEW n, NEW f, NEW u, u = Deleted(t, n, f)
    PROVE  \A m \in Nums : u.size[m] = IF m = n THEN 0 ELSE t.size[m]
<1>1. PICK l, o, b, s, a : t = [label |-> l, odd |-> o, bad |-> b, size |-> s, attr |-> a]
                        /\ s \in [Nums -> Nat] /\ l = t.label /\ s = t.size
  BY TableFields
<1>2. PICK z : z = [s EXCEPT ![n] = 0]
  OBVIOUS
<1>3. \A m \in Nums : z[m] = IF m = n THEN 0 ELSE s[m]
  BY <1>1, <1>2
<1>4. u = [label |-> l, odd |-> o, bad |-> b, size |-> z, attr |-> f]
  BY <1>1, <1>2 DEF Deleted
<1>5. QED
  BY <1>1, <1>3, <1>4

(* Flags, names, types and the use of the device are no matter of sizes.    *)
LEMMA MarkedIs ==
    ASSUME NEW t, IsTable(t), NEW f, NEW u, u = Marked(t, f) \/ u = Fixed(t, f)
    PROVE  IsTable(u) /\ u.label = t.label /\ u.size = t.size
<1>1. PICK l, o, b, s, a : t = [label |-> l, odd |-> o, bad |-> b, size |-> s, attr |-> a]
                        /\ s \in [Nums -> Nat] /\ l = t.label /\ s = t.size
  BY TableFields
<1>2. \/ u = [label |-> l, odd |-> o, bad |-> b, size |-> s, attr |-> f]
      \/ u = [label |-> l, odd |-> f, bad |-> b, size |-> s, attr |-> a]
  BY <1>1 DEF Marked, Fixed
<1>3. QED
  BY <1>1, <1>2 DEF IsTable

(* What is written to the device in use is what is there then.              *)
LEMMA Store ==
    ASSUME MediumOk, NEW t, Labelled(t), medium' = [medium EXCEPT ![dev] = t], dev' = dev
    PROVE  MediumOk' /\ medium'[dev] = t
<1>1. dev \in Devices /\ \A d \in Devices : medium'[d] = IF d = dev THEN t ELSE medium[d]
  BY DEF MediumOk
<1>2. medium' = [d \in Devices |-> medium'[d]]
  BY DEF MediumOk
<1>3. QED
  BY <1>1, <1>2 DEF MediumOk, Labelled, IsTable

(* A command that failed has nothing in hand.                               *)
LEMMA FailTables == ASSUME NEW table, Fails(table), Control, MediumOk' PROVE Tables'
  BY DEF Fails, Tables, Running, Waiting, Control

(* Tables says nothing of prompts.                                          *)
LEMMA FrameTables ==
    ASSUME Tables, pc # "end", UNCHANGED sesvars, Running' => Running PROVE Tables'
  BY DEF Tables, MediumOk, InHand, Running, sesvars

(* A prompt does not start a command.                                       *)
LEMMA PromptRunning == ASSUME Control, Prompts \/ User PROVE Running' => Running
<1>1. CASE GetWord_Take
  BY <1>1 DEF GetWord_Take, Running, Waiting, Control
<1>2. CASE GetWord_Prompt
  BY <1>2 DEF GetWord_Prompt, Running, Waiting, Control
<1>3. CASE PromptWords_Eof
  BY <1>3 DEF PromptWords_Eof, Running, Waiting, Control
<1>4. CASE \E line \in Lines : PromptWords_Line(line)
  BY <1>4 DEF PromptWords_Line, Running, Waiting, Control
<1>5. CASE CloseInput
  BY <1>5 DEF CloseInput, Running, Waiting, Control
<1>6. QED
  BY <1>1, <1>2, <1>3, <1>4, <1>5 DEF Prompts, User

(* Tables is kept by the prompts and the user,                              *)
LEMMA PromptTables == ASSUME Control, Tables, Prompts \/ User PROVE Tables'
  BY PromptRunning, PromptsKeep, FrameTables

(* by the loops,                                                            *)
LEMMA LoopTables ==
    ASSUME Control, Tables, interactive_mode \/ non_interactive_mode PROVE Tables'
<1>1. UNCHANGED <<dev, disk, medium>> /\ pc = "loop"
  BY DEF interactive_mode, non_interactive_mode
<1>2. CASE pc' = "run"
  <2>1. at' = 1 /\ arg' = <<>>
    BY <1>1, <1>2 DEF interactive_mode, non_interactive_mode, Start
  <2>2. QED
    BY <1>1, <1>2, <2>1 DEF Tables, MediumOk, InHand
<1>3. CASE pc' # "run"
  <2>1. ~Running'
    BY <1>1, <1>3 DEF interactive_mode, non_interactive_mode, Start, Running, Waiting, Control
  <2>2. QED
    BY <1>1, <2>1 DEF Tables, MediumOk
<1>4. QED
  BY <1>2, <1>3

(* Sizes and partition numbers are positive.                                *)
LEMMA SizesAre == Sizes \subseteq Nat \ {0} /\ Nums \subseteq Nat \ {0}
  BY SessionAssumption

(* Where the commands read their words.                                     *)
LEMMA ReadAt ==
    ASSUME Control, NEW step, Reading(step)
    PROVE  /\ cmd = "mklabel" => at = 4
           /\ cmd = "mkpart" => at = 2 /\ step = "end"
           /\ cmd = "resizepart" => at = 2 \/ (at = 6 /\ step = "end")
           /\ cmd = "select" => at = 1 /\ step = "device"
           /\ cmd = "rm" => at = 2
           /\ cmd = "rescue" => at = 3
           /\ cmd \in Editing => at \in {2, 3, 4, 6}
<1>1. cmd \in Commands /\ at \in Nat \ {0} /\ AtStep(step) /\ step \in ReadSteps
  BY DEF Reading, AtStep, Control
<1>2. CASE step = "label"
  BY <1>1, <1>2, StepAt DEF Editing
<1>3. CASE step = "num"
  BY <1>1, <1>3, StepAt DEF Editing
<1>4. CASE step = "end"
  BY <1>1, <1>4, StepAt DEF Editing
<1>5. CASE step \in {"flag", "state", "text"}
  BY <1>1, <1>5, StepAt DEF Editing
<1>6. CASE step \in {"min or opt", "unit", "device"}
  BY <1>1, <1>6, StepAt DEF Editing
<1>7. QED
  BY <1>1, <1>2, <1>3, <1>4, <1>5, <1>6 DEF ReadSteps

(* by the steps that read words, which are good for their steps,            *)
LEMMA ReadTables == ASSUME Control, Answers, Tables, NEW step, Reading(step) PROVE Tables'
<1>1. pc = "run" /\ cmd \in Commands /\ at \in Nat \ {0} /\ AtStep(step)
  BY DEF Reading, AtStep, Control
<1>2. CASE UNCHANGED sesvars
  BY <1>1, <1>2, FrameTables DEF Running
<1>3. CASE Fail
  BY <1>3, FailTables DEF Fail, Fails, Tables, MediumOk
<1>4. CASE /\ Asked /\ got # None /\ Good(step, got.text)
           /\ arg' = Append(arg, got.text)
           /\ Continue /\ Keep
           /\ UNCHANGED <<dev, disk, local, medium, cmd, status, said, failed, freed, ignored>>
  <2>1. PICK text : /\ text = got.text /\ text # None /\ Good(step, text)
                    /\ arg' = Append(arg, text)
    BY <1>1, <1>4 DEF Asked, Answers
  <2>2. at' = at + 1 /\ UNCHANGED <<pc, cmd, dev, disk, local, medium>> /\ InHand
    BY <1>1, <1>4 DEF Continue, Keep, Tables, Running
  <2>3. /\ cmd = "mklabel" => at = 4
        /\ cmd = "mkpart" => at = 2 /\ step = "end"
        /\ cmd = "resizepart" => at = 2 \/ (at = 6 /\ step = "end")
        /\ cmd = "select" => at = 1 /\ step = "device"
        /\ cmd = "rescue" => at = 3
        /\ cmd \in Editing => at \in {2, 3, 4, 6}
    BY <1>1, ReadAt
  <2>4. SUFFICES InHand'
    BY <1>1, <2>2 DEF Tables, MediumOk
  <2>5. CASE cmd = "mklabel"
    <3>1. at = 4 /\ arg = <<>> /\ (local = None \/ IsTable(local))
      BY <2>2, <2>3, <2>5 DEF InHand
    <3>2. arg' = <<text>>
      BY <2>1, <3>1
    <3>3. QED
      BY <2>1, <2>2, <2>5, <3>1, <3>2 DEF InHand, Editing
  <2>6. CASE cmd = "mkpart"
    <3>1. at = 2 /\ arg = <<>> /\ step = "end"
      BY <2>2, <2>3, <2>6 DEF InHand
    <3>2. arg' = <<text>> /\ Numeral[text] \in Nat
      <4>1. Numeral[text] \in Sizes
        BY <2>1, <3>1 DEF Good, IsNum
      <4>2. Numeral[text] \in Nat
        BY <4>1, SizesAre
      <4>3. arg' = <<text>>
        BY <2>1, <3>1
      <4>4. QED
        BY <4>2, <4>3
    <3>3. QED
      BY <2>2, <2>6, <3>1, <3>2 DEF InHand
  <2>7. CASE cmd = "resizepart"
    <3>1. CASE at = 2
      <4>1. arg' = <<text>>
        BY <2>1, <2>2, <2>7, <3>1 DEF InHand
      <4>2. QED
        BY <2>2, <2>7, <3>1, <4>1 DEF InHand
    <3>2. CASE at = 6 /\ step = "end"
      <4>1. PICK a : arg = <<a>>
        BY <2>2, <2>7, <3>2 DEF InHand
      <4>2. Numeral[text] \in Nat
        <5>1. Numeral[text] \in Sizes
          BY <2>1, <3>2 DEF Good, IsNum
        <5>2. QED
          BY <5>1, SizesAre
      <4>3. arg'[2] = text
        <5>1. arg' = Append(<<a>>, text)
          BY <2>1, <4>1
        <5>2. QED
          BY <5>1
      <4>4. QED
        BY <2>2, <2>7, <3>2, <4>2, <4>3 DEF InHand
    <3>3. QED
      BY <2>3, <2>7, <3>1, <3>2
  <2>8. CASE cmd = "select"
    <3>1. at = 1 /\ arg = <<>> /\ step = "device"
      BY <2>2, <2>3, <2>8 DEF InHand
    <3>2. arg' = <<text>> /\ text \in Devices
      BY <2>1, <3>1 DEF Good
    <3>3. QED
      BY <2>2, <2>8, <3>1, <3>2 DEF InHand, Editing
  <2>9. CASE cmd = "rescue"
    BY <2>2, <2>3, <2>9 DEF InHand, Editing
  <2>10. CASE cmd \notin {"mklabel", "mkpart", "resizepart", "select", "rescue"}
    BY <2>2, <2>3, <2>10 DEF InHand
  <2>11. QED
    BY <2>5, <2>6, <2>7, <2>8, <2>9, <2>10
<1>5. QED
  BY <1>2, <1>3, <1>4 DEF Reading

(* Steps after which InHand asks for nothing new.                           *)
Easy ==
    \/ cmd \in Editing /\ at # 1 /\ ~(cmd = "mkpart" /\ at = 2)
                       /\ ~(cmd = "resizepart" /\ at \in {2, 6})
    \/ cmd = "mklabel" /\ at \in {1, 3, 5, 6}
    \/ cmd = "rescue" /\ at \notin {1, 2}
    \/ cmd \notin Editing \cup {"mklabel", "rescue", "select"}

(* and they keep Tables.                                                    *)
LEMMA EasyTables ==
    ASSUME NoneIsNoRecord, Control, Tables, pc = "run", Easy, at' = at + 1,
           UNCHANGED <<pc, cmd, dev, arg>>, MediumOk',
           \/ disk' = disk
           \/ cmd \in Editing /\ IsTable(disk') /\ disk'.label # None,
           \/ local' = local
           \/ cmd \in Editing
    PROVE  Tables'
<1>1. InHand /\ at \in Nat \ {0}
  BY DEF Tables, Running, Control
<1>2. disk' # None => IsTable(disk') /\ disk'.label # None
  BY DEF Tables
<1>3. disk # None => disk' # None
  BY TableIs DEF Tables
<1> SUFFICES InHand'
  BY <1>2 DEF Tables
<1>4. CASE cmd = "mkpart"
  BY <1>1, <1>3, <1>4 DEF InHand, Easy, Editing
<1>5. CASE cmd = "resizepart"
  BY <1>1, <1>3, <1>5 DEF InHand, Easy, Editing
<1>6. CASE cmd \in Editing \ {"mkpart", "resizepart"}
  BY <1>1, <1>3, <1>6 DEF InHand, Easy, Editing
<1>7. CASE cmd = "mklabel"
  BY <1>1, <1>7 DEF InHand, Easy, Editing
<1>8. CASE cmd = "rescue"
  BY <1>1, <1>8 DEF InHand, Easy, Editing
<1>9. CASE cmd \notin Editing \cup {"mklabel", "rescue"}
  BY <1>9 DEF InHand, Easy, Editing
<1>10. QED
  BY <1>4, <1>5, <1>6, <1>7, <1>8, <1>9

(* MediumOk is about the devices only.                                      *)
LEMMA SameMedium == ASSUME Tables, UNCHANGED <<dev, medium>> PROVE MediumOk'
  BY DEF Tables, MediumOk

(* do_rescue goes to the next candidate without the last one.               *)
LEMMA CandidateTables ==
    ASSUME Control, Tables, pc = "run", cmd = "rescue", at \in {5, 6}, NextCandidate, MediumOk'
    PROVE  Tables'
<1>1. IsTable(local) /\ local.label # None /\ disk = None
  BY DEF Tables, InHand, Running
<1>2. IsTable(local') /\ local'.label # None
  <2>1. local' = Sized(local, arg[Len(arg)], 0)
    BY DEF NextCandidate, NotAdded, Sized
  <2>2. PICK n : local' = Sized(local, n, 0)
    BY <2>1
  <2>3. IsTable(local') /\ local'.label = local.label
    BY <1>1, <2>2, SizedIs
  <2>4. QED
    BY <1>1, <2>3
<1>3. UNCHANGED <<pc, cmd, dev, disk>>
  BY DEF NextCandidate, Keep
<1>4. InHand'
  BY <1>1, <1>2, <1>3 DEF InHand, Editing
<1>5. QED
  BY <1>1, <1>3, <1>4 DEF Tables

(* No question asks for anything new.                                       *)
LEMMA QuestionsEasy ==
    ASSUME \/ cmd = "mklabel" /\ at \in {5, 6}
           \/ cmd = "rm" /\ at = 3
           \/ cmd = "resizepart" /\ at \in {4, 8}
           \/ cmd = "mkpart" /\ at \in {5, 6}
           \/ cmd = "rescue" /\ at = 5
    PROVE  Easy
  BY DEF Easy, Editing

(* Tables is kept by the questions,                                         *)
LEMMA AskTables ==
    ASSUME NoneIsNoRecord, Control, Tables, do_questions PROVE Tables'
<1>1. ASSUME NEW step \in {"disk busy", "loss", "busy", "shrink", "elsewhere", "unaligned", "found"},
             AtStep(step)
      PROVE  pc = "run" /\ Easy
  <2>1. pc = "run" /\ cmd \in Commands /\ at \in Nat \ {0}
    BY <1>1 DEF AtStep, Control
  <2>2. \/ cmd = "mklabel" /\ at \in {5, 6}
        \/ cmd = "rm" /\ at = 3
        \/ cmd = "resizepart" /\ at \in {4, 8}
        \/ cmd = "mkpart" /\ at \in {5, 6}
        \/ cmd = "rescue" /\ at = 5
    <3>1. CASE step \in {"disk busy", "loss"}
      BY <1>1, <2>1, <3>1, StepAt
    <3>2. CASE step \in {"busy", "shrink"}
      BY <1>1, <2>1, <3>2, StepAt
    <3>3. CASE step \in {"elsewhere", "unaligned", "found"}
      BY <1>1, <2>1, <3>3, StepAt
    <3>4. QED
      BY <1>1, <3>1, <3>2, <3>3
  <2>3. Easy
    BY <2>2, QuestionsEasy
  <2>4. QED
    BY <2>1, <2>3
<1>2. CASE UNCHANGED sesvars /\ pc = "run"
  BY <1>2, FrameTables DEF Running
<1>3. ASSUME NEW table, Fails(table), UNCHANGED medium PROVE Tables'
  BY <1>3, FailTables, SameMedium DEF Fails
<1>4. ASSUME pc = "run", Easy, at' = at + 1, UNCHANGED <<pc, cmd, dev, arg, medium, disk, local>>
      PROVE  Tables'
  BY <1>4, EasyTables, SameMedium
<1>5. ASSUME NEW step \in {"disk busy", "loss", "busy", "shrink"}, NEW applies, NEW options,
             NEW yes, Question(step, applies, options, yes)
      PROVE  Tables'
  BY <1>1, <1>2, <1>3, <1>4, <1>5 DEF Question, Continue, Keep, Fail
<1>6. ASSUME NEW step \in {"elsewhere", "unaligned"}, NEW options, NEW yes,
             AskLocation(step, options, yes)
      PROVE  Tables'
  BY <1>1, <1>2, <1>3, <1>4, <1>6 DEF AskLocation, SkipTo, Keep
<1>7. CASE _rescue_add_partition
  <2>1. PICK step \in {"found"} : AtStep(step)
    BY <1>7 DEF _rescue_add_partition
  <2>2. pc = "run" /\ Easy
    BY <1>1, <2>1
  <2>3. CASE NextCandidate /\ UNCHANGED medium
    <3>1. cmd = "rescue" /\ at = 5
      BY <2>1, <2>2, StepAt DEF Control
    <3>2. MediumOk'
      BY <2>3, SameMedium DEF NextCandidate
    <3>3. QED
      BY <2>2, <2>3, <3>1, <3>2, CandidateTables
  <2>4. QED
    BY <1>2, <1>3, <1>4, <1>7, <2>2, <2>3 DEF _rescue_add_partition, Continue, Keep, Fail
<1>8. QED
  BY <1>5, <1>6, <1>7 DEF do_questions, _disk_warn_busy, _disk_warn_loss,
     _partition_warn_busy, WarnShrink, AskElsewhere, AskUnaligned

(* What ped_disk_new reads is a table with a label, which is then what is   *)
(* on the device.                                                           *)
LEMMA NewDisk ==
    ASSUME MediumOk, NEW b, NEW t, t = Fixed(medium[dev], b), medium[dev].label # None,
           medium' = [medium EXCEPT ![dev] = t], dev' = dev
    PROVE  /\ IsTable(t) /\ t.label # None /\ t.size = medium[dev].size
           /\ medium'[dev] = t /\ MediumOk'
<1>1. Labelled(medium[dev])
  BY DEF MediumOk
<1>2. IsTable(t) /\ t.label = medium[dev].label /\ t.size = medium[dev].size
  BY <1>1, MarkedIs DEF Labelled
<1>3. MediumOk' /\ medium'[dev] = t
  BY <1>2, Store DEF Labelled
<1>4. QED
  BY <1>2, <1>3

(* by reading *diskp,                                                       *)
LEMMA OpenTables ==
    ASSUME NoneIsNoRecord, Control, Tables, OpenDisk PROVE Tables'
<1>1. /\ pc = "run" /\ AtStep("open")
      /\ \/ cmd \in Editing /\ at = 1
         \/ cmd = "align_check" /\ at = 1
         \/ cmd = "print" /\ at = 2
  BY StepAt DEF OpenDisk, AtStep, Control, Editing
<1>2. ASSUME Advance, disk' # None, IsTable(disk'), disk'.label # None, MediumOk'
      PROVE  Tables'
  <2>1. at' = at + 1 /\ UNCHANGED <<cmd, arg, pc>> /\ InHand
    BY <1>1, <1>2 DEF Advance, Continue, Keep, Tables, Running
  <2>2. InHand'
    BY <1>1, <1>2, <2>1 DEF InHand, Editing
  <2>3. QED
    BY <1>2, <2>2 DEF Tables
<1>3. CASE UNCHANGED sesvars
  BY <1>1, <1>3, FrameTables DEF Running
<1>4. CASE Fail
  BY <1>4, FailTables, SameMedium DEF Fail, Fails
<1>5. CASE disk # None /\ Advance /\ UNCHANGED <<disk, local, medium, freed, ignored>>
  <2>1. IsTable(disk) /\ disk.label # None
    BY <1>1, <1>5 DEF Tables
  <2>2. QED
    BY <1>2, <1>5, <2>1, SameMedium DEF Advance
<1>6. CASE cmd = "print" /\ SkipTo(Len(Steps[cmd]) + 1)
  <2>1. UNCHANGED <<cmd, disk, medium, dev, pc>>
    BY <1>6 DEF SkipTo, Keep
  <2>2. QED
    BY <1>1, <1>6, <2>1, SameMedium DEF Tables, InHand, Editing
<1>7. CASE \E t : IsTable(t) /\ t.label # None /\ MediumOk' /\ Advance /\ disk' = t
  <2>1. disk' # None
    BY <1>7, TableIs
  <2>2. QED
    BY <1>2, <1>7, <2>1
<1>8. MediumOk
  BY DEF Tables
<1>9. CASE \E b, t : /\ t = Fixed(medium[dev], b) /\ medium[dev].label # None
                    /\ medium' = [medium EXCEPT ![dev] = t] /\ Advance /\ disk' = t
  <2>1. PICK b, t : /\ t = Fixed(medium[dev], b) /\ medium[dev].label # None
                    /\ medium' = [medium EXCEPT ![dev] = t] /\ Advance /\ disk' = t
    BY <1>9
  <2>2. dev' = dev
    BY <2>1 DEF Advance
  <2>3. IsTable(t) /\ t.label # None /\ MediumOk'
    BY <1>8, <2>1, <2>2, NewDisk
  <2>4. QED
    BY <1>7, <2>1, <2>3
<1>10. QED
  BY <1>3, <1>4, <1>5, <1>6, <1>9 DEF OpenDisk, ped_disk_new, NoTable, Fixed

(* A set of natural numbers has a least element, and Min finds it.          *)
LEMMA MinIn ==
    ASSUME NEW S, S \subseteq Nat, S # {}
    PROVE  Min(S) \in S
<1> DEFINE Less == {p \in Nat \X Nat : p[1] < p[2]}
<1>1. IsWellFoundedOn(Less, Nat)
  BY NatLessThanWellFounded DEF OpToRel
<1>2. PICK m \in S : \A n \in S : <<n, m>> \notin Less
  BY <1>1, WFMin
<1>3. \A n \in S : ~ (n < m)
  BY <1>2
<1>4. \A n \in S : m <= n
  BY <1>3
<1>5. QED
  BY <1>2, <1>4 DEF Min

(* by reading the command's own table,                                      *)
LEMMA ProbeTables ==
    ASSUME NoneIsNoRecord, Control, Tables, ProbeDisk PROVE Tables'
<1>1. pc = "run" /\ AtStep("probe") /\ cmd \in {"mklabel", "rescue"} /\ at = 2
  BY StepAt DEF ProbeDisk, AtStep, Control
<1>2. MediumOk /\ InHand
  BY <1>1 DEF Tables, Running
<1>3. CASE UNCHANGED sesvars
  BY <1>1, <1>3, FrameTables DEF Running
<1>4. CASE Fail
  BY <1>4, FailTables, SameMedium DEF Fail, Fails
<1>5. CASE /\ cmd = "mklabel" /\ local' = disk
           /\ Advance /\ UNCHANGED <<disk, medium, freed, ignored>>
  <2>1. at' = 3 /\ UNCHANGED <<cmd, arg, pc, dev>>
    BY <1>1, <1>5 DEF Advance, Continue, Keep
  <2>2. local' = None \/ IsTable(local')
    BY <1>1, <1>5 DEF Tables
  <2>3. InHand'
    BY <1>2, <1>1, <1>5, <2>1, <2>2 DEF InHand, Editing
  <2>4. QED
    BY <1>1, <1>5, <2>1, <2>3, SameMedium DEF Tables
<1>6. CASE \E b, t : /\ t = Fixed(medium[dev], b) /\ medium[dev].label # None
                    /\ medium' = [medium EXCEPT ![dev] = t] /\ Advance /\ local' = t
                    /\ UNCHANGED disk
  <2>1. PICK b, t : /\ t = Fixed(medium[dev], b) /\ medium[dev].label # None
                    /\ medium' = [medium EXCEPT ![dev] = t] /\ Advance /\ local' = t
                    /\ UNCHANGED disk
    BY <1>6
  <2>2. dev' = dev /\ at' = 3 /\ UNCHANGED <<cmd, arg, pc>>
    BY <1>1, <2>1 DEF Advance, Continue, Keep
  <2>3. IsTable(t) /\ t.label # None /\ MediumOk'
    BY <1>2, <2>1, <2>2, NewDisk
  <2>4. InHand'
    BY <1>1, <1>2, <2>1, <2>2, <2>3 DEF InHand, Editing
  <2>5. QED
    BY <1>1, <2>1, <2>2, <2>3, <2>4 DEF Tables
<1>7. QED
  BY <1>3, <1>4, <1>5, <1>6 DEF ProbeDisk, ped_disk_new, NoTable, Fixed

(* by the changes to *diskp,                                                *)
LEMMA EditTables ==
    ASSUME NoneIsNoRecord, Control, Tables,
           \/ DeletePartition \/ SetGeom \/ PlacePartition
           \/ do_set \/ do_disk_set \/ do_toggle \/ do_name \/ do_type
    PROVE  Tables'
<1>1. pc = "run" /\ cmd \in Commands /\ at \in Nat \ {0} /\ InHand
  BY DEF Control, Tables, Running, DeletePartition, SetGeom, PlacePartition, do_set, do_disk_set, do_toggle,
         do_name, do_type, Assign, WorkStep, AtStep
<1>2. PICK step \in {"delete", "geom", "place", "assign"} : AtStep(step)
  BY DEF DeletePartition, SetGeom, PlacePartition, do_set, do_disk_set, do_toggle,
         do_name, do_type, Assign, WorkStep
<1>3. /\ step = "delete" => cmd = "rm" /\ at = 4
      /\ step = "geom" => cmd = "resizepart" /\ at = 7
      /\ step = "place" => cmd = "mkpart" /\ at = 4
      /\ step = "assign" =>
            \/ cmd = "disk_toggle" /\ at = 3
            \/ cmd \in {"toggle", "disk_set", "name", "type"} /\ at = 4
            \/ cmd = "set" /\ at = 5
  BY <1>1, <1>2, StepAt
<1>4. cmd \in Editing /\ at >= 2 /\ Easy
  BY <1>2, <1>3 DEF Editing, Easy
<1>5. IsTable(disk) /\ disk.label # None
  BY <1>1, <1>4 DEF InHand, Tables
<1>6. ASSUME IsTable(disk'), disk'.label = disk.label, Continue,
             UNCHANGED <<pc, cmd, dev, arg, medium>>
      PROVE  Tables'
  BY <1>1, <1>4, <1>5, <1>6, EasyTables, SameMedium DEF Continue
<1>7. ASSUME NEW f, disk' = Marked(disk, f), Advance, UNCHANGED medium PROVE Tables'
  BY <1>5, <1>6, <1>7, MarkedIs DEF Advance, Keep
<1>8. CASE do_set \/ do_disk_set \/ do_toggle \/ do_name \/ do_type
  BY <1>7, <1>8 DEF do_set, do_disk_set, do_toggle, do_name, do_type, Assign, WorkStep, Marked
<1>9. CASE DeletePartition
  <2>1. PICK n, f : disk' = Deleted(disk, n, f)
    BY <1>9 DEF DeletePartition, Deleted
  <2>2. PICK u : u = disk' /\ u = Deleted(disk, n, f)
    BY <2>1
  <2>3. IsTable(u) /\ u.label = disk.label
    <3>1. 0 \in Nat /\ (u = Sized(disk, n, 0) \/ (0 = 0 /\ u = Deleted(disk, n, f)))
      BY <2>2
    <3>2. QED
      BY <1>5, <3>1, SizedIs
  <2>4. QED
    BY <1>6, <1>9, <2>2, <2>3 DEF DeletePartition, WorkStep, Advance, Keep
<1>10. ASSUME NEW n, NEW k \in Nat, disk' = Sized(disk, n, k), Continue,
              UNCHANGED <<pc, cmd, dev, arg, medium>>
       PROVE  Tables'
  BY <1>5, <1>6, <1>10, SizedIs
<1>11. CASE SetGeom
  <2>1. cmd = "resizepart" /\ at = 7
    BY <1>1, <1>11, StepAt DEF SetGeom, WorkStep
  <2>2. Numeral[arg[2]] \in Nat
    BY <1>1, <2>1 DEF InHand
  <2>3. QED
    BY <1>10, <1>11, <2>2 DEF SetGeom, WorkStep, Advance, Keep, Sized
<1>12. CASE PlacePartition
  <2>1. cmd = "mkpart" /\ at = 4
    BY <1>1, <1>12, StepAt DEF PlacePartition
  <2>2. Numeral[arg[1]] \in Nat
    BY <1>1, <2>1 DEF InHand
  <2>3. CASE Fails(disk)
    BY <1>12, <2>3, FailTables, SameMedium DEF PlacePartition, Fails
  <2>4. QED
    BY <1>10, <1>12, <2>2, <2>3 DEF PlacePartition, Sized
<1>13. QED
  BY <1>8, <1>9, <1>11, <1>12

(* by the commits,                                                          *)
LEMMA CommitTables ==
    ASSUME NoneIsNoRecord, Control, Tables, CommitDisk \/ CommitLabel \/ CommitRescued
    PROVE  Tables'
<1>1. pc = "run" /\ InHand /\ MediumOk /\ AtStep("commit")
  BY DEF Control, Tables, Running, CommitDisk, CommitLabel, CommitRescued, AtStep
<1>2. \/ cmd = "disk_toggle" /\ at = 4
      \/ cmd \in {"rm", "toggle", "disk_set", "name", "type"} /\ at = 5
      \/ cmd \in {"set", "rescue"} /\ at = 6
      \/ cmd = "mkpart" /\ at = 7
      \/ cmd = "mklabel" /\ at = 8
      \/ cmd = "resizepart" /\ at = 9
  BY <1>1, StepAt DEF Control
<1>3. ASSUME NEW outcome, NEW t, IsTable(t), t.label # None, dev' = dev,
             medium' = IF Stored(outcome) THEN [medium EXCEPT ![dev] = t] ELSE medium
      PROVE  MediumOk'
  BY <1>1, <1>3, Store, SameMedium DEF Labelled
<1>4. CASE CommitDisk
  <2>1. cmd \in Editing /\ at >= 2 /\ Easy
    BY <1>2, <1>4 DEF CommitDisk, Editing, Easy
  <2>2. IsTable(disk) /\ disk.label # None
    BY <1>1, <2>1 DEF InHand, Tables
  <2>3. PICK outcome : /\ medium' = IF Stored(outcome) THEN [medium EXCEPT ![dev] = disk] ELSE medium
                       /\ \/ Advance /\ UNCHANGED <<disk, local, freed>>
                          \/ \E table : Fails(table)
    BY <1>4 DEF CommitDisk
  <2>4. dev' = dev
    BY <2>3 DEF Advance, Fails
  <2>5. MediumOk'
    BY <1>3, <2>2, <2>3, <2>4
  <2>6. CASE \E table : Fails(table)
    BY <2>5, <2>6, FailTables
  <2>7. CASE Advance /\ UNCHANGED <<disk, local, freed>>
    BY <1>1, <2>1, <2>5, <2>7, EasyTables DEF Advance, Continue, Keep
  <2>8. QED
    BY <2>3, <2>6, <2>7
<1>5. CASE CommitLabel
  <2>1. cmd = "mklabel" /\ at = 8
    BY <1>2, <1>5 DEF CommitLabel
  <2>2. IsTable(local) /\ local.label # None
    BY <1>1, <2>1 DEF InHand
  <2>3. PICK outcome : /\ medium' = IF Stored(outcome) THEN [medium EXCEPT ![dev] = local] ELSE medium
                       /\ \/ Advance /\ disk' = local
                          \/ Fails(None)
    BY <1>5 DEF CommitLabel
  <2>4. dev' = dev
    BY <2>3 DEF Advance, Fails
  <2>5. MediumOk'
    BY <1>3, <2>2, <2>3, <2>4
  <2>6. CASE Fails(None)
    BY <2>5, <2>6, FailTables
  <2>7. CASE Advance /\ disk' = local
    <3>1. at' = 9 /\ cmd' = "mklabel" /\ pc' = "run"
      BY <1>1, <2>1, <2>7 DEF Advance, Continue, Keep
    <3>2. QED
      BY <2>2, <2>5, <2>7, <3>1 DEF Tables, InHand, Editing
  <2>8. QED
    BY <2>3, <2>6, <2>7
<1>6. CASE CommitRescued
  <2>1. cmd = "rescue" /\ at = 6 /\ Easy
    BY <1>2, <1>6 DEF CommitRescued, Easy
  <2>2. IsTable(local) /\ local.label # None
    BY <1>1, <2>1 DEF InHand
  <2>3. PICK outcome : /\ medium' = IF Stored(outcome) THEN [medium EXCEPT ![dev] = local] ELSE medium
                       /\ \/ Advance /\ UNCHANGED <<disk, local, freed, ignored>>
                          \/ NextCandidate
    BY <1>6 DEF CommitRescued
  <2>4. dev' = dev
    BY <2>3 DEF Advance, NextCandidate
  <2>5. MediumOk'
    BY <1>3, <2>2, <2>3, <2>4
  <2>6. CASE NextCandidate
    BY <1>1, <2>1, <2>5, <2>6, CandidateTables
  <2>7. CASE Advance /\ UNCHANGED <<disk, local, freed, ignored>>
    BY <1>1, <2>1, <2>5, <2>7, EasyTables DEF Advance, Continue, Keep
  <2>8. QED
    BY <2>3, <2>6, <2>7
<1>7. QED
  BY <1>4, <1>5, <1>6

(* by the fresh label, which has no partitions,                             *)
LEMMA LabelTables ==
    ASSUME NoneIsNoRecord, Control, Tables, FreshLabel PROVE Tables'
<1>1. pc = "run" /\ InHand /\ cmd = "mklabel" /\ at = 7
  BY StepAt DEF FreshLabel, WorkStep, AtStep, Control, Tables, Running
<1>2. at' = 8 /\ UNCHANGED <<pc, cmd, dev, disk, medium>>
  BY <1>1 DEF FreshLabel, WorkStep, Advance, Continue, Keep
<1>3. local' = ped_disk_new_fresh(arg[1]) /\ arg[1] # None
  BY <1>1 DEF FreshLabel, InHand
<1>4. PICK l : l # None /\ local' = ped_disk_new_fresh(l)
  BY <1>3
<1>5. IsTable(local') /\ local'.label # None /\ \A n \in Nums : local'.size[n] = 0
  BY <1>4 DEF ped_disk_new_fresh, IsTable
<1>6. InHand'
  BY <1>1, <1>2, <1>5 DEF InHand, Editing
<1>7. QED
  BY <1>1, <1>2, <1>6, SameMedium DEF Tables

(* by what do_rescue finds,                                                 *)
LEMMA FindTables ==
    ASSUME NoneIsNoRecord, Control, Tables, FindFileSystem PROVE Tables'
<1>1. pc = "run" /\ InHand /\ cmd = "rescue" /\ at = 4
  BY StepAt DEF FindFileSystem, AtStep, Control, Tables, Running
<1>2. IsTable(local) /\ local.label # None /\ disk = None
  BY <1>1 DEF InHand
<1>3. UNCHANGED <<pc, cmd, dev, disk, medium>>
  BY <1>1 DEF FindFileSystem, SkipTo, Keep
<1>4. IsTable(local') /\ local'.label # None
  <2>1. CASE SkipTo(Len(Steps[cmd]) + 1)
    BY <1>2, <2>1 DEF SkipTo
  <2>2. CASE \E n \in (Nums \ Parts(local)) \ Tried : local' = [local EXCEPT !.size[n] = Min(Sizes)]
    <3>1. Min(Sizes) \in Nat
      <4>1. Sizes \subseteq Nat /\ Sizes # {}
        BY SessionAssumption
      <4>2. QED
        BY <4>1, MinIn
    <3>2. PICK k \in Nat : k = Min(Sizes)
      BY <3>1
    <3>3. PICK n : local' = Sized(local, n, k)
      BY <2>2, <3>2 DEF Sized
    <3>4. QED
      BY <1>2, <3>3, SizedIs
  <2>3. QED
    BY <2>1, <2>2 DEF FindFileSystem
<1>5. InHand'
  BY <1>1, <1>2, <1>3, <1>4 DEF InHand, Editing
<1>6. QED
  BY <1>1, <1>2, <1>3, <1>5, SameMedium DEF Tables

(* and by everything else.                                                  *)
LEMMA OtherTables ==
    ASSUME NoneIsNoRecord, Control, Tables,
           \/ FetchAll \/ LeaveAll \/ SaveEnd \/ RestoreEnd \/ DropDisk \/ SwitchDevice
           \/ PrintDevices \/ PrintWhich \/ AlignCheck \/ do_resize \/ Refused
           \/ UseAfterFree \/ do_quit \/ Done
    PROVE  Tables'
<1>1. pc = "run" /\ cmd \in Commands /\ at \in Nat \ {0} /\ InHand
  BY DEF Control, Tables, Running, FetchAll, LeaveAll, SaveEnd, RestoreEnd, DropDisk, SwitchDevice,
         PrintDevices, PrintWhich, AlignCheck, do_resize, UseAfterFree, do_quit, Done, Refused, WorkStep,
         AtStep
<1>2. CASE FetchAll
  <2>1. (cmd = "mklabel" /\ at = 1) \/ (cmd = "mkpart" /\ at = 3)
    BY <1>1, <1>2, StepAt DEF FetchAll
  <2>2. Easy
    BY <2>1 DEF Easy, Editing
  <2>3. QED
    BY <1>1, <1>2, <2>2, EasyTables, SameMedium DEF FetchAll, Continue
<1>3. CASE LeaveAll
  <2>1. Easy
    BY <1>1, <1>3, StepAt DEF LeaveAll, Easy, Editing
  <2>2. QED
    BY <1>1, <1>3, <2>1, EasyTables, SameMedium DEF LeaveAll, Continue
<1>4. CASE SaveEnd \/ RestoreEnd
  <2>1. cmd = "resizepart" /\ at \in {3, 5}
    BY <1>1, <1>4, StepAt DEF SaveEnd, RestoreEnd
  <2>2. Easy /\ cmd \in Editing
    BY <2>1 DEF Easy, Editing
  <2>3. QED
    BY <1>1, <1>4, <2>2, EasyTables, SameMedium DEF SaveEnd, RestoreEnd, Continue
<1>5. CASE DropDisk
  <2>1. cmd = "rescue" /\ at = 1
    BY <1>1, <1>5, StepAt DEF DropDisk, WorkStep
  <2>2. at' = 2 /\ disk' = None /\ UNCHANGED <<pc, cmd, dev, medium>>
    BY <1>5, <2>1 DEF DropDisk, WorkStep, Advance, Continue, Keep
  <2>3. InHand'
    BY <2>1, <2>2 DEF InHand, Editing
  <2>4. QED
    BY <2>2, <2>3, SameMedium DEF Tables
<1>6. CASE SwitchDevice
  <2>1. cmd = "select" /\ at = 2
    BY <1>1, <1>6, StepAt DEF SwitchDevice
  <2>2. at' = 3 /\ disk' = None /\ dev' = arg[1] /\ UNCHANGED <<pc, cmd, medium>>
    BY <1>6, <2>1 DEF SwitchDevice, Continue, Keep
  <2>3. arg[1] \in Devices
    BY <1>1, <2>1 DEF InHand
  <2>4. InHand'
    BY <2>1, <2>2 DEF InHand, Editing
  <2>5. MediumOk'
    BY <2>2, <2>3 DEF Tables, MediumOk
  <2>6. QED
    BY <2>2, <2>4, <2>5 DEF Tables
<1>7. CASE PrintDevices \/ PrintWhich
  <2>1. cmd = "print"
    BY <1>1, <1>7, StepAt DEF PrintDevices, PrintWhich
  <2>2. UNCHANGED <<pc, cmd, dev, disk, medium>>
    BY <1>7 DEF PrintDevices, PrintWhich, SkipTo, Keep
  <2>3. InHand'
    BY <2>1, <2>2 DEF InHand, Editing
  <2>4. QED
    BY <1>1, <2>2, <2>3, SameMedium DEF Tables
<1>8. CASE AlignCheck
  <2>1. Easy
    BY <1>1, <1>8, StepAt DEF AlignCheck, Easy, Editing
  <2>2. CASE SkipTo(at + 1)
    BY <1>1, <2>1, <2>2, EasyTables, SameMedium DEF SkipTo, Keep
  <2>3. CASE Fail
    BY <2>3, FailTables, SameMedium DEF Fail, Fails
  <2>4. QED
    BY <1>8, <2>2, <2>3 DEF AlignCheck
<1>9. CASE do_resize \/ Refused
  BY <1>9, FailTables, SameMedium DEF do_resize, Refused, Fail, Fails
<1>10. CASE UseAfterFree \/ do_quit
  BY <1>10, SameMedium DEF UseAfterFree, do_quit, Tables, Running, Waiting
<1>11. CASE Done
  BY <1>11, SameMedium DEF Done, Tables, Running, Waiting
<1>12. QED
  BY <1>2, <1>3, <1>4, <1>5, <1>6, <1>7, <1>8, <1>9, <1>10, <1>11

(* Tables is inductive, given Control and Answers.                          *)
LEMMA NextTables ==
    ASSUME NoneIsNoRecord, Control, Answers, Tables, [Next]_vars PROVE Tables'
<1>1. CASE UNCHANGED vars
  BY <1>1 DEF vars, cmdvars, sesvars, Tables, MediumOk, InHand, Running, Waiting
<1>2. CASE do_work
  BY <1>2, OpenTables, ProbeTables, EditTables, CommitTables, LabelTables, FindTables, OtherTables
     DEF do_work
<1>3. QED
  BY <1>1, <1>2, LoopTables, PromptTables, AskTables, ReadTables, ArgsRead
     DEF Next, Program, Ended

(* What is on the devices at first are tables.                              *)
LEMMA InitTables == Init => Tables
<1> SUFFICES ASSUME Init PROVE Tables
  OBVIOUS
<1>1. medium \in Media /\ dev \in Devices /\ disk = None /\ pc = "loop" /\ cmd = None
  BY DEF Init
<1>2. /\ medium \in [Devices -> [label : LabelTypes \cup {None}, odd : BOOLEAN, bad : BOOLEAN, size : [Nums -> Nat],
                                 attr : SUBSET ((Nums \cup {0}) \X {"boot", "name", "type"})]]
      /\ \A d \in Devices : medium[d].label = None => \A n \in Nums : medium[d].size[n] = 0
  BY <1>1, SessionAssumption
<1>3. \A d \in Devices : Labelled(medium[d])
  BY <1>2 DEF Labelled, IsTable
<1>4. MediumOk
  BY <1>1, <1>2, <1>3 DEF MediumOk
<1>5. QED
  BY <1>1, <1>4 DEF Tables, Running, Waiting

---------------------------------------------------------------------------
(* The table in memory and the one on the device *)

(* The table in memory has been changed and is not yet on the device.       *)
Dirty ==
    \/ cmd = "rm" /\ at = 5
    \/ cmd = "resizepart" /\ at \in {8, 9}
    \/ cmd = "mkpart" /\ at \in {5, 6, 7}
    \/ cmd = "set" /\ at = 6
    \/ cmd \in {"toggle", "disk_set", "name", "type"} /\ at = 5
    \/ cmd = "disk_toggle" /\ at = 4

(* How it may differ from what is there.                                    *)
Edited ==
    /\ cmd \in {"set", "toggle", "disk_set", "name", "type", "disk_toggle"} =>
          disk.size = medium[dev].size
    /\ cmd \in {"rm", "resizepart"} =>
          \A n \in Nums : n # Target => disk.size[n] = medium[dev].size[n]
    /\ cmd = "mkpart" => \A n \in Nums : disk.size[n] >= medium[dev].size[n]
    /\ cmd = "resizepart" /\ at = 8 => local = medium[dev]

(* The table in memory is the one on the device, but for the changes of a   *)
(* command between its first change and its commit.                         *)
Coherent ==
    pc # "end" /\ disk # None /\ ~ignored => (Dirty \/ disk = medium[dev]) /\ Edited

(* The last step of such a command is its commit.                           *)
LEMMA CommitSteps ==
    ASSUME NEW step, AtStep(step),
           \/ cmd = "rm" /\ at = 5
           \/ cmd = "resizepart" /\ at = 9
           \/ cmd = "mkpart" /\ at = 7
           \/ cmd = "set" /\ at = 6
           \/ cmd \in {"toggle", "disk_set", "name", "type"} /\ at = 5
           \/ cmd = "disk_toggle" /\ at = 4
    PROVE  step = "commit"
<1>1. PICK s : s = Steps[cmd]
  OBVIOUS
<1>2. step = s[at]
  BY <1>1 DEF AtStep, Step
<1>3. CASE cmd = "rm"
  <2>1. s = <<"open", "num", "busy", "delete", "commit">>
    BY <1>1, <1>3 DEF Steps
  <2>2. s[5] = "commit"
    BY <2>1
  <2>3. QED
    BY <1>2, <1>3, <2>2
<1>4. CASE cmd = "resizepart"
  <2>1. s = <<"open", "num", "save", "busy", "restore", "end", "geom", "shrink", "commit">>
    BY <1>1, <1>4 DEF Steps
  <2>2. s[9] = "commit"
    BY <2>1
  <2>3. QED
    BY <1>2, <1>4, <2>2
<1>5. CASE cmd = "mkpart"
  <2>1. s = <<"open", "end", "fetch", "place", "elsewhere", "unaligned", "commit">>
    BY <1>1, <1>5 DEF Steps
  <2>2. s[7] = "commit"
    BY <2>1
  <2>3. QED
    BY <1>2, <1>5, <2>2
<1>6. CASE cmd = "set"
  <2>1. s = <<"open", "num", "flag", "state", "assign", "commit">>
    BY <1>1, <1>6 DEF Steps
  <2>2. s[6] = "commit"
    BY <2>1
  <2>3. QED
    BY <1>2, <1>6, <2>2
<1>7. CASE cmd = "toggle"
  <2>1. s = <<"open", "num", "flag", "assign", "commit">>
    BY <1>1, <1>7 DEF Steps
  <2>2. s[5] = "commit"
    BY <2>1
  <2>3. QED
    BY <1>2, <1>7, <2>2
<1>8. CASE cmd = "disk_set"
  <2>1. s = <<"open", "flag", "state", "assign", "commit">>
    BY <1>1, <1>8 DEF Steps
  <2>2. s[5] = "commit"
    BY <2>1
  <2>3. QED
    BY <1>2, <1>8, <2>2
<1>9. CASE cmd = "disk_toggle"
  <2>1. s = <<"open", "flag", "assign", "commit">>
    BY <1>1, <1>9 DEF Steps
  <2>2. s[4] = "commit"
    BY <2>1
  <2>3. QED
    BY <1>2, <1>9, <2>2
<1>10. CASE cmd = "name"
  <2>1. s = <<"open", "num", "text", "assign", "commit">>
    BY <1>1, <1>10 DEF Steps
  <2>2. s[5] = "commit"
    BY <2>1
  <2>3. QED
    BY <1>2, <1>10, <2>2
<1>11. CASE cmd = "type"
  <2>1. s = <<"open", "num", "text", "assign", "commit">>
    BY <1>1, <1>11 DEF Steps
  <2>2. s[5] = "commit"
    BY <2>1
  <2>3. QED
    BY <1>2, <1>11, <2>2
<1>12. QED
  BY <1>3, <1>4, <1>5, <1>6, <1>7, <1>8, <1>9, <1>10, <1>11

(* A table that is the one on the device differs from it in no way.         *)
LEMMA CleanEdited ==
    ASSUME MediumOk', disk' = medium'[dev'], cmd' = "resizepart" => at' # 8 PROVE Edited'
<1>1. IsTable(medium'[dev'])
  BY DEF MediumOk, Labelled
<1>2. \A n \in Nums : medium'[dev'].size[n] \in Nat
  BY <1>1 DEF IsTable
<1>3. \A n \in Nums : medium'[dev'].size[n] >= medium'[dev'].size[n]
  BY <1>2
<1>4. QED
  BY <1>3 DEF Edited

(* Coherent holds when the two tables are the same,                         *)
LEMMA CleanCoherent ==
    ASSUME Tables', ~Dirty', disk' # None /\ ~ignored' => disk' = medium'[dev'] PROVE Coherent'
<1>1. MediumOk'
  BY DEF Tables
<1>2. cmd' = "resizepart" => at' # 8
  BY DEF Dirty
<1>3. disk' = medium'[dev'] => Edited'
  BY <1>1, <1>2, CleanEdited
<1>4. QED
  BY <1>3 DEF Coherent

(* when nothing of them changes,                                            *)
LEMMA FrameCoherent == ASSUME Coherent, pc # "end", UNCHANGED sesvars PROVE Coherent'
  BY DEF Coherent, Edited, Dirty, Target, sesvars

(* and when there is no table in memory.                                    *)
LEMMA GoneCoherent == ASSUME pc' = "end" \/ disk' = None PROVE Coherent'
  BY DEF Coherent

(* A step that leaves both tables alone keeps it.                           *)
LEMMA StepCoherent ==
    ASSUME Control, Tables', Coherent, NEW step, AtStep(step), step # "commit", step # "geom",
           at' = at + 1, UNCHANGED <<disk, medium, dev, ignored, cmd>>,
           Dirty => UNCHANGED arg
    PROVE  Coherent'
<1>1. pc # "end" /\ at \in Nat
  BY DEF AtStep, Control
<1>2. CASE Dirty
  <2>1. Dirty'
    BY <1>1, <1>2, CommitSteps DEF Dirty
  <2>2. Edited => Edited'
    BY <1>1, <1>2 DEF Edited, Dirty, Target
  <2>3. QED
    BY <1>1, <2>1, <2>2 DEF Coherent
<1>3. CASE ~Dirty /\ cmd = "resizepart" /\ at = 7
  <2>1. PICK s : s = Steps[cmd]
    OBVIOUS
  <2>2. s = <<"open", "num", "save", "busy", "restore", "end", "geom", "shrink", "commit">>
    BY <1>3, <2>1 DEF Steps
  <2>3. step = "geom"
    BY <1>3, <2>1, <2>2 DEF AtStep, Step
  <2>4. QED
    BY <2>3
<1>4. CASE ~Dirty /\ ~(cmd = "resizepart" /\ at = 7)
  <2>1. MediumOk' /\ (cmd' = "resizepart" => at' # 8)
    BY <1>1, <1>4 DEF Tables
  <2>2. disk' = medium'[dev'] => Edited'
    BY <2>1, CleanEdited
  <2>3. disk # None /\ ~ignored => disk = medium[dev]
    BY <1>1, <1>4 DEF Coherent
  <2>4. QED
    BY <2>2, <2>3 DEF Coherent
<1>5. QED
  BY <1>2, <1>3, <1>4

(* Nothing is read while the table in memory is ahead of the device.        *)
LEMMA ReadClean == ASSUME Control, NEW step, Reading(step) PROVE ~Dirty
<1>1. cmd \in Commands /\ at \in Nat \ {0} /\ AtStep(step) /\ step \in ReadSteps
  BY DEF Reading, AtStep, Control
<1>2. step = "label" => cmd = "mklabel" /\ at = 4
  BY <1>1, StepAt
<1>3. step = "num" => \/ cmd \in {"rm", "resizepart", "set", "toggle", "name", "type"} /\ at = 2
                      \/ cmd \in {"align_check", "print"}
  BY <1>1, StepAt
<1>4. step = "end" => \/ cmd = "mkpart" /\ at = 2
                      \/ cmd = "rescue"
                      \/ cmd = "resizepart" /\ at = 6
  BY <1>1, StepAt
<1>5. step = "flag" => (cmd \in {"disk_set", "disk_toggle"} /\ at = 2)
                       \/ (cmd \in {"set", "toggle"} /\ at = 3)
  BY <1>1, StepAt
<1>6. step = "state" => (cmd = "disk_set" /\ at = 3) \/ (cmd = "set" /\ at = 4)
  BY <1>1, StepAt
<1>7. step = "text" => cmd \in {"name", "type"} /\ at = 3
  BY <1>1, StepAt
<1>8. step \in {"min or opt", "unit", "device"} => cmd \in {"align_check", "unit", "select"}
  BY <1>1, StepAt
<1>9. \/ cmd = "mklabel" \/ cmd = "rescue" \/ cmd = "unit" \/ cmd = "select"
      \/ cmd = "align_check" \/ cmd = "print"
      \/ at = 2 /\ cmd \in {"rm", "resizepart", "set", "toggle", "name", "type", "mkpart",
                            "disk_set", "disk_toggle"}
      \/ at = 3 /\ cmd \in {"set", "toggle", "disk_set", "name", "type"}
      \/ at = 4 /\ cmd = "set"
      \/ at = 6 /\ cmd = "resizepart"
  BY <1>1, <1>2, <1>3, <1>4, <1>5, <1>6, <1>7, <1>8 DEF ReadSteps
<1>10. QED
  BY <1>9 DEF Dirty

(* A command that fails drops the table, or ends the program.               *)
LEMMA FailCoherent == ASSUME NEW table, Fails(table) PROVE Coherent'
  BY GoneCoherent DEF Fails

(* Coherent is kept by the steps that read words,                           *)
LEMMA ReadCoherent ==
    ASSUME Control, Tables', Coherent, NEW step, Reading(step) PROVE Coherent'
<1>1. pc = "run" /\ AtStep(step) /\ ~Dirty /\ step # "commit" /\ step # "geom"
  BY ReadClean DEF Reading, AtStep, ReadSteps
<1>2. CASE UNCHANGED sesvars
  BY <1>1, <1>2, FrameCoherent
<1>3. CASE Fail
  BY <1>3, FailCoherent DEF Fail
<1>4. CASE Continue /\ UNCHANGED <<disk, medium, dev, ignored, cmd>>
  BY <1>1, <1>4, StepCoherent DEF Continue
<1>5. QED
  BY <1>2, <1>3, <1>4 DEF Reading

(* by the questions,                                                        *)
LEMMA AskCoherent ==
    ASSUME Control, Tables, Tables', Coherent, do_questions PROVE Coherent'
<1>1. CASE UNCHANGED sesvars /\ pc = "run"
  BY <1>1, FrameCoherent
<1>2. ASSUME NEW step \in {"disk busy", "loss", "busy", "shrink", "elsewhere", "unaligned", "found"},
             AtStep(step), at' = at + 1, UNCHANGED <<disk, medium, dev, ignored, cmd, arg>>
      PROVE  Coherent'
  BY <1>2, StepCoherent
<1>3. ASSUME NEW step \in {"disk busy", "loss", "busy", "shrink"}, NEW applies, NEW options,
             NEW yes, Question(step, applies, options, yes)
      PROVE  Coherent'
  BY <1>1, <1>2, <1>3, FailCoherent DEF Question, Continue, Fail, AtStep
<1>4. ASSUME NEW step \in {"elsewhere", "unaligned"}, NEW options, NEW yes,
             AskLocation(step, options, yes)
      PROVE  Coherent'
  BY <1>1, <1>2, <1>4, FailCoherent DEF AskLocation, SkipTo, AtStep
<1>5. CASE _rescue_add_partition
  <2>1. PICK step \in {"found"} : AtStep(step)
    BY <1>5 DEF _rescue_add_partition
  <2>2. pc = "run" /\ cmd = "rescue" /\ at = 5
    BY <2>1, StepAt DEF Control, AtStep
  <2>3. disk = None
    BY <2>2 DEF Tables, Running, InHand
  <2>4. CASE NextCandidate
    BY <2>3, <2>4, GoneCoherent DEF NextCandidate
  <2>5. QED
    BY <1>1, <1>2, <1>5, <2>1, <2>2, <2>4, FailCoherent DEF _rescue_add_partition, Continue, Fail
<1>6. QED
  BY <1>3, <1>4, <1>5 DEF do_questions, _disk_warn_busy, _disk_warn_loss,
     _partition_warn_busy, WarnShrink, AskElsewhere, AskUnaligned

(* by reading *diskp, which writes back what it put right,                  *)
LEMMA OpenCoherent ==
    ASSUME Control, Tables, Tables', Coherent, OpenDisk PROVE Coherent'
<1>1. /\ pc = "run" /\ AtStep("open")
      /\ \/ cmd \in Editing /\ at = 1
         \/ cmd = "align_check" /\ at = 1
         \/ cmd = "print" /\ at = 2
  BY StepAt DEF OpenDisk, AtStep, Control, Editing
<1>2. CASE UNCHANGED sesvars
  BY <1>1, <1>2, FrameCoherent
<1>3. CASE Fail
  BY <1>3, FailCoherent DEF Fail
<1>4. CASE Advance /\ UNCHANGED <<disk, local, medium, freed, ignored>>
  BY <1>1, <1>4, StepCoherent DEF Advance, Continue
<1>5. CASE disk = None /\ SkipTo(Len(Steps[cmd]) + 1)
  BY <1>5, GoneCoherent DEF SkipTo
<1>6. CASE \E b, t : /\ t = Fixed(medium[dev], b) /\ medium[dev].label # None
                    /\ medium' = [medium EXCEPT ![dev] = t] /\ Advance /\ disk' = t
  <2>1. PICK b, t : /\ t = Fixed(medium[dev], b) /\ medium[dev].label # None
                    /\ medium' = [medium EXCEPT ![dev] = t] /\ Advance /\ disk' = t
    BY <1>6
  <2>2. dev' = dev /\ cmd' = cmd /\ at' = at + 1
    BY <2>1 DEF Advance, Continue
  <2>3. medium'[dev] = t
    BY <2>1, <2>2, NewDisk DEF Tables
  <2>4. ~Dirty'
    BY <1>1, <2>2 DEF Dirty
  <2>5. QED
    BY <2>1, <2>2, <2>3, <2>4, CleanCoherent
<1>7. QED
  BY <1>2, <1>3, <1>4, <1>5, <1>6 DEF OpenDisk, ped_disk_new, NoTable, Fixed

(* by reading the command's own table,                                      *)
LEMMA ProbeCoherent ==
    ASSUME Control, Tables, Tables', Coherent, ProbeDisk PROVE Coherent'
<1>1. pc = "run" /\ AtStep("probe") /\ cmd \in {"mklabel", "rescue"} /\ at = 2
  BY StepAt DEF ProbeDisk, AtStep, Control
<1>2. cmd = "rescue" => disk = None
  BY <1>1 DEF Tables, Running, InHand
<1>3. CASE UNCHANGED sesvars
  BY <1>1, <1>3, FrameCoherent
<1>4. CASE Fail
  BY <1>4, FailCoherent DEF Fail
<1>5. CASE Advance /\ UNCHANGED <<disk, medium, freed, ignored>>
  BY <1>1, <1>5, StepCoherent DEF Advance, Continue
<1>6. CASE disk = None /\ UNCHANGED disk
  BY <1>6, GoneCoherent
<1>7. QED
  BY <1>2, <1>3, <1>4, <1>5, <1>6 DEF ProbeDisk, ped_disk_new

(* Where *diskp is changed, and that it was as on the device before.        *)
LEMMA EditAt ==
    ASSUME Control,
           \/ DeletePartition \/ SetGeom \/ PlacePartition
           \/ do_set \/ do_disk_set \/ do_toggle \/ do_name \/ do_type
    PROVE  /\ pc = "run" /\ at \in Nat
           /\ DeletePartition => cmd = "rm" /\ at = 4
           /\ SetGeom => cmd = "resizepart" /\ at = 7
           /\ PlacePartition => cmd = "mkpart" /\ at = 4
           /\ do_set \/ do_disk_set \/ do_toggle \/ do_name \/ do_type =>
                 \/ cmd = "disk_toggle" /\ at = 3
                 \/ cmd \in {"toggle", "disk_set", "name", "type"} /\ at = 4
                 \/ cmd = "set" /\ at = 5
           /\ ~Dirty /\ cmd \in Editing /\ at >= 2
<1>1. pc = "run" /\ cmd \in Commands /\ at \in Nat \ {0}
  BY DEF Control, DeletePartition, SetGeom, PlacePartition, do_set, do_disk_set, do_toggle,
         do_name, do_type, Assign, WorkStep, AtStep
<1>2. DeletePartition => cmd = "rm" /\ at = 4
  BY <1>1, StepAt DEF DeletePartition, WorkStep
<1>3. SetGeom => cmd = "resizepart" /\ at = 7
  BY <1>1, StepAt DEF SetGeom, WorkStep
<1>4. PlacePartition => cmd = "mkpart" /\ at = 4
  BY <1>1, StepAt DEF PlacePartition
<1>5. do_set \/ do_disk_set \/ do_toggle \/ do_name \/ do_type =>
         \/ cmd = "disk_toggle" /\ at = 3
         \/ cmd \in {"toggle", "disk_set", "name", "type"} /\ at = 4
         \/ cmd = "set" /\ at = 5
  <2>1. do_set \/ do_disk_set \/ do_toggle \/ do_name \/ do_type => AtStep("assign")
    BY DEF do_set, do_disk_set, do_toggle, do_name, do_type, Assign, WorkStep
  <2>2. QED
    BY <1>1, <2>1, StepAt
<1>6. \/ cmd = "rm" /\ at = 4
      \/ cmd = "resizepart" /\ at = 7
      \/ cmd = "mkpart" /\ at = 4
      \/ cmd = "disk_toggle" /\ at = 3
      \/ cmd \in {"toggle", "disk_set", "name", "type"} /\ at = 4
      \/ cmd = "set" /\ at = 5
  BY <1>2, <1>3, <1>4, <1>5
<1>7. ~Dirty /\ cmd \in Editing /\ at >= 2
  BY <1>6 DEF Dirty, Editing
<1>8. QED
  BY <1>1, <1>2, <1>3, <1>4, <1>5, <1>7

(* Coherent is kept by the changes to *diskp, which are what Edited says,   *)
LEMMA EditCoherent ==
    ASSUME NoneIsNoRecord, Control, Tables, Tables', Coherent,
           \/ DeletePartition \/ SetGeom \/ PlacePartition
           \/ do_set \/ do_disk_set \/ do_toggle \/ do_name \/ do_type
    PROVE  Coherent'
<1>1. /\ pc = "run" /\ at \in Nat
      /\ DeletePartition => cmd = "rm" /\ at = 4
      /\ SetGeom => cmd = "resizepart" /\ at = 7
      /\ PlacePartition => cmd = "mkpart" /\ at = 4
      /\ do_set \/ do_disk_set \/ do_toggle \/ do_name \/ do_type =>
            \/ cmd = "disk_toggle" /\ at = 3
            \/ cmd \in {"toggle", "disk_set", "name", "type"} /\ at = 4
            \/ cmd = "set" /\ at = 5
      /\ ~Dirty /\ cmd \in Editing /\ at >= 2
  BY EditAt
<1>2. InHand /\ MediumOk
  BY <1>1 DEF Tables, Running
<1>3. IsTable(disk) /\ \A n \in Nums : disk.size[n] \in Nat
  BY <1>1, <1>2 DEF InHand, Tables, IsTable
<1>4. ~ignored => disk = medium[dev]
  BY <1>1, <1>3, TableIs DEF Coherent
<1>5. SUFFICES ASSUME ~ignored', disk' # None, pc' # "end" PROVE Dirty' /\ Edited'
  BY DEF Coherent
<1>6. CASE do_set \/ do_disk_set \/ do_toggle \/ do_name \/ do_type
  <2>1. UNCHANGED <<cmd, dev, medium, ignored>> /\ at' = at + 1
    BY <1>6 DEF do_set, do_disk_set, do_toggle, do_name, do_type, Assign, WorkStep, Advance,
                Continue
  <2>2. PICK f : disk' = Marked(disk, f)
    BY <1>6 DEF do_set, do_disk_set, do_toggle, do_name, do_type, Assign, Marked
  <2>3. disk'.size = disk.size
    BY <1>3, <2>2, MarkedIs
  <2>4. Dirty'
    BY <1>1, <1>6, <2>1 DEF Dirty
  <2>5. Edited'
    BY <1>1, <1>4, <1>5, <1>6, <2>1, <2>3 DEF Edited
  <2>6. QED
    BY <2>4, <2>5
<1>7. CASE DeletePartition
  <2>1. UNCHANGED <<cmd, dev, medium, ignored, arg>> /\ at' = 5 /\ cmd = "rm"
    BY <1>1, <1>7 DEF DeletePartition, WorkStep, Advance, Continue
  <2>2. PICK n, f, u : n = Target /\ u = disk' /\ u = Deleted(disk, n, f)
    BY <1>7 DEF DeletePartition, Deleted
  <2>3. \A m \in Nums : u.size[m] = IF m = n THEN 0 ELSE disk.size[m]
    BY <1>3, <2>2, DeletedIs
  <2>4. Target' = Target
    BY <2>1 DEF Target
  <2>5. Dirty'
    BY <2>1 DEF Dirty
  <2>6. Edited'
    BY <1>4, <1>5, <2>1, <2>2, <2>3, <2>4 DEF Edited
  <2>7. QED
    BY <2>5, <2>6
<1>8. CASE SetGeom
  <2>1. /\ UNCHANGED <<cmd, dev, medium, ignored, arg>> /\ at' = 8 /\ cmd = "resizepart"
        /\ local' = disk
    BY <1>1, <1>8 DEF SetGeom, WorkStep, Advance, Continue
  <2>2. Numeral[arg[2]] \in Nat
    BY <1>1, <1>2, <1>8 DEF InHand
  <2>3. PICK k \in Nat : disk' = Sized(disk, Target, k)
    BY <1>8, <2>2 DEF SetGeom, Sized
  <2>4. \A m \in Nums : disk'.size[m] = IF m = Target THEN k ELSE disk.size[m]
    BY <1>3, <2>3, SizedIs
  <2>5. Target' = Target
    BY <2>1 DEF Target
  <2>6. Dirty'
    BY <2>1 DEF Dirty
  <2>7. Edited'
    BY <1>4, <1>5, <2>1, <2>4, <2>5 DEF Edited
  <2>8. QED
    BY <2>6, <2>7
<1>9. CASE PlacePartition /\ ~Fails(disk)
  <2>1. /\ UNCHANGED <<cmd, dev, medium, ignored, arg>> /\ at' = 5 /\ cmd = "mkpart"
        /\ Free # {}
    BY <1>1, <1>9 DEF PlacePartition, Continue
  <2>2. Numeral[arg[1]] \in Nat
    BY <1>1, <1>2, <1>9 DEF InHand
  <2>3. PICK n, k : n = Min(Free) /\ k = Numeral[arg[1]] /\ disk' = Sized(disk, n, k)
    BY <1>9 DEF PlacePartition, Sized
  <2>4. n \in Free
    <3>1. Free \subseteq Nat
      BY SessionAssumption DEF Free
    <3>2. QED
      BY <2>1, <2>3, <3>1, MinIn
  <2>5. k \in Nat /\ \A m \in Nums : disk'.size[m] = IF m = n THEN k ELSE disk.size[m]
    <3>1. k \in Nat
      BY <2>2, <2>3
    <3>2. QED
      BY <1>3, <2>3, <3>1, SizedIs
  <2>6. n \in Nums /\ disk.size[n] = 0
    BY <1>3, <2>4 DEF Free, Parts
  <2>7. Dirty'
    BY <2>1 DEF Dirty
  <2>8. \A m \in Nums : disk'.size[m] >= disk.size[m]
    BY <1>3, <2>5, <2>6
  <2>9. Edited'
    BY <1>4, <1>5, <2>1, <2>8 DEF Edited
  <2>10. QED
    BY <2>7, <2>9
<1>10. CASE PlacePartition /\ Fails(disk)
  BY <1>5, <1>10 DEF Fails
<1>11. QED
  BY <1>6, <1>7, <1>8, <1>9, <1>10

(* Where the commits are, and what they write.                              *)
LEMMA CommitAt ==
    ASSUME Control, Tables, CommitDisk \/ CommitLabel \/ CommitRescued
    PROVE  /\ pc = "run" /\ at \in Nat /\ InHand /\ MediumOk
           /\ CommitDisk => cmd \in Editing /\ at >= 2 /\ IsTable(disk) /\ disk.label # None
                            /\ (cmd = "resizepart" => at = 9)
           /\ CommitLabel => cmd = "mklabel" /\ at = 8 /\ IsTable(local) /\ local.label # None
           /\ CommitRescued => cmd = "rescue" /\ at = 6 /\ IsTable(local) /\ disk = None
<1>1. pc = "run" /\ at \in Nat \ {0} /\ InHand /\ MediumOk /\ AtStep("commit")
  BY DEF Control, Tables, Running, CommitDisk, CommitLabel, CommitRescued, AtStep
<1>2. \/ cmd = "disk_toggle" /\ at = 4
      \/ cmd \in {"rm", "toggle", "disk_set", "name", "type"} /\ at = 5
      \/ cmd \in {"set", "rescue"} /\ at = 6
      \/ cmd = "mkpart" /\ at = 7
      \/ cmd = "mklabel" /\ at = 8
      \/ cmd = "resizepart" /\ at = 9
  BY <1>1, StepAt DEF Control
<1>3. CommitDisk => cmd \in Editing /\ at >= 2 /\ (cmd = "resizepart" => at = 9)
  BY <1>2 DEF CommitDisk, Editing
<1>4. CommitDisk => IsTable(disk) /\ disk.label # None
  BY <1>1, <1>3 DEF InHand, Tables
<1>5. CommitLabel => cmd = "mklabel" /\ at = 8
  BY <1>2 DEF CommitLabel
<1>6. CommitRescued => cmd = "rescue" /\ at = 6
  BY <1>2 DEF CommitRescued
<1>7. (CommitLabel => IsTable(local) /\ local.label # None)
      /\ (CommitRescued => IsTable(local) /\ disk = None)
  BY <1>1, <1>5, <1>6 DEF InHand
<1>8. QED
  BY <1>1, <1>3, <1>4, <1>5, <1>6, <1>7

(* by the commits, which put *diskp on the device or, ignored by            *)
(* do_resizepart, nothing,                                                  *)
LEMMA CommitCoherent ==
    ASSUME Control, Tables, Tables', Coherent, CommitDisk \/ CommitLabel \/ CommitRescued
    PROVE  Coherent'
<1>1. /\ pc = "run" /\ at \in Nat /\ InHand /\ MediumOk
      /\ CommitDisk => cmd \in Editing /\ at >= 2 /\ IsTable(disk) /\ disk.label # None
                       /\ (cmd = "resizepart" => at = 9)
      /\ CommitLabel => cmd = "mklabel" /\ at = 8 /\ IsTable(local) /\ local.label # None
      /\ CommitRescued => cmd = "rescue" /\ at = 6 /\ IsTable(local) /\ disk = None
  BY CommitAt
<1>2. CASE CommitDisk
  <2>1. PICK outcome : /\ medium' = IF Stored(outcome) THEN [medium EXCEPT ![dev] = disk] ELSE medium
                       /\ \/ /\ outcome = "ok" \/ cmd = "resizepart"
                             /\ ignored' = ~Stored(outcome)
                             /\ Advance /\ UNCHANGED <<disk, local, freed>>
                          \/ \E table : Fails(table)
    BY <1>2 DEF CommitDisk
  <2>2. CASE \E table : Fails(table)
    BY <2>2, FailCoherent
  <2>3. CASE ignored' = ~Stored(outcome) /\ Advance /\ UNCHANGED <<disk, local, freed>>
    <3>1. dev' = dev /\ cmd' = cmd /\ at' = at + 1
      BY <2>3 DEF Advance, Continue
    <3>2. ~ignored' => medium'[dev] = disk
      BY <1>1, <1>2, <2>1, <2>3, <3>1, Store DEF Labelled
    <3>3. ~Dirty'
      <4>1. AtStep("commit") /\ cmd \in Commands /\ at \in Nat \ {0}
        BY <1>1, <1>2 DEF CommitDisk, Control
      <4>2. \/ cmd = "disk_toggle" /\ at = 4
            \/ cmd \in {"rm", "toggle", "disk_set", "name", "type"} /\ at = 5
            \/ cmd \in {"set", "rescue"} /\ at = 6
            \/ cmd = "mkpart" /\ at = 7
            \/ cmd = "mklabel" /\ at = 8
            \/ cmd = "resizepart" /\ at = 9
        BY <4>1, StepAt
      <4>3. QED
        BY <3>1, <4>2 DEF Dirty
    <3>4. QED
      BY <2>3, <3>1, <3>2, <3>3, CleanCoherent
  <2>4. QED
    BY <2>1, <2>2, <2>3
<1>3. CASE CommitLabel
  <2>1. PICK outcome : /\ medium' = IF Stored(outcome) THEN [medium EXCEPT ![dev] = local] ELSE medium
                       /\ \/ outcome = "ok" /\ Advance /\ disk' = local
                          \/ Fails(None)
    BY <1>3 DEF CommitLabel
  <2>2. CASE Fails(None)
    BY <2>2, FailCoherent
  <2>3. CASE outcome = "ok" /\ Advance /\ disk' = local
    <3>1. dev' = dev /\ cmd' = "mklabel"
      BY <1>1, <1>3, <2>3 DEF Advance
    <3>2. medium'[dev] = local
      BY <1>1, <1>3, <2>1, <2>3, <3>1, Store DEF Labelled, Stored
    <3>3. ~Dirty'
      BY <3>1 DEF Dirty
    <3>4. QED
      BY <2>3, <3>1, <3>2, <3>3, CleanCoherent
  <2>4. QED
    BY <2>1, <2>2, <2>3
<1>4. CASE CommitRescued
  BY <1>1, <1>4, GoneCoherent DEF CommitRescued, NextCandidate
<1>5. QED
  BY <1>2, <1>3, <1>4

(* At the end of a command nothing is waiting to be written.                *)
LEMMA DoneClean == ASSUME Control, Done PROVE ~Dirty
<1>1. at \in Nat /\ at > Len(Steps[cmd])
  BY DEF Control, Done
<1>2. CASE cmd = "rm"
  <2>1. at > 5
    BY <1>1, <1>2, Lengths
  <2>2. QED
    BY <1>1, <1>2, <2>1 DEF Dirty
<1>3. CASE cmd = "resizepart"
  <2>1. at > 9
    BY <1>1, <1>3, Lengths
  <2>2. QED
    BY <1>1, <1>3, <2>1 DEF Dirty
<1>4. CASE cmd = "mkpart"
  <2>1. at > 7
    BY <1>1, <1>4, Lengths
  <2>2. QED
    BY <1>1, <1>4, <2>1 DEF Dirty
<1>5. CASE cmd = "set"
  <2>1. at > 6
    BY <1>1, <1>5, Lengths
  <2>2. QED
    BY <1>1, <1>5, <2>1 DEF Dirty
<1>6. CASE cmd = "toggle"
  <2>1. at > 5
    BY <1>1, <1>6, Lengths
  <2>2. QED
    BY <1>1, <1>6, <2>1 DEF Dirty
<1>7. CASE cmd = "disk_set"
  <2>1. at > 5
    BY <1>1, <1>7, Lengths
  <2>2. QED
    BY <1>1, <1>7, <2>1 DEF Dirty
<1>8. CASE cmd = "name"
  <2>1. at > 5
    BY <1>1, <1>8, Lengths
  <2>2. QED
    BY <1>1, <1>8, <2>1 DEF Dirty
<1>9. CASE cmd = "type"
  <2>1. at > 5
    BY <1>1, <1>9, Lengths
  <2>2. QED
    BY <1>1, <1>9, <2>1 DEF Dirty
<1>10. CASE cmd = "disk_toggle"
  <2>1. at > 4
    BY <1>1, <1>10, Lengths
  <2>2. QED
    BY <1>1, <1>10, <2>1 DEF Dirty
<1>11. QED
  BY <1>2, <1>3, <1>4, <1>5, <1>6, <1>7, <1>8, <1>9, <1>10 DEF Dirty

(* and by everything else.                                                  *)
LEMMA OtherCoherent ==
    ASSUME Control, Tables, Tables', Coherent,
           \/ FetchAll \/ LeaveAll \/ FreshLabel \/ SaveEnd \/ RestoreEnd \/ DropDisk
           \/ SwitchDevice \/ FindFileSystem
           \/ PrintDevices \/ PrintWhich \/ AlignCheck \/ do_resize \/ Refused
           \/ UseAfterFree \/ do_quit \/ Done
    PROVE  Coherent'
<1>1. pc = "run" /\ cmd \in Commands /\ at \in Nat \ {0}
  BY DEF Control, FetchAll, LeaveAll, FreshLabel, SaveEnd, RestoreEnd, DropDisk, SwitchDevice,
         FindFileSystem, PrintDevices, PrintWhich, AlignCheck, do_resize, UseAfterFree, do_quit,
         Done, Refused, WorkStep, AtStep
<1>2. ASSUME NEW step \in {"fetch", "leave", "fresh", "save", "restore", "aligned"}, AtStep(step),
             at' = at + 1, UNCHANGED <<disk, medium, dev, ignored, cmd, arg>>
      PROVE  Coherent'
  BY <1>2, StepCoherent
<1>3. CASE FetchAll \/ LeaveAll
  BY <1>2, <1>3 DEF FetchAll, LeaveAll, Continue
<1>4. CASE FreshLabel \/ SaveEnd \/ RestoreEnd
  BY <1>2, <1>4 DEF FreshLabel, WorkStep, Advance, SaveEnd, RestoreEnd, Continue
<1>5. CASE DropDisk \/ SwitchDevice
  BY <1>5, GoneCoherent DEF DropDisk, SwitchDevice
<1>6. CASE FindFileSystem
  <2>1. cmd = "rescue" /\ at = 4
    BY <1>1, <1>6, StepAt DEF FindFileSystem
  <2>2. disk = None /\ disk' = disk
    BY <1>1, <1>6, <2>1 DEF FindFileSystem, SkipTo, Tables, Running, InHand
  <2>3. QED
    BY <2>2, GoneCoherent
<1>7. CASE PrintDevices \/ PrintWhich
  <2>1. cmd = "print"
    BY <1>1, <1>7, StepAt DEF PrintDevices, PrintWhich
  <2>2. UNCHANGED <<disk, medium, dev, ignored, cmd>>
    BY <1>7 DEF PrintDevices, PrintWhich, SkipTo
  <2>3. ~Dirty /\ ~Dirty'
    BY <2>1, <2>2 DEF Dirty
  <2>4. QED
    BY <1>1, <2>2, <2>3, CleanCoherent DEF Coherent
<1>8. CASE AlignCheck
  <2>1. CASE SkipTo(at + 1)
    BY <1>2, <1>8, <2>1 DEF AlignCheck, SkipTo
  <2>2. CASE Fail
    BY <2>2, FailCoherent DEF Fail
  <2>3. QED
    BY <1>8, <2>1, <2>2 DEF AlignCheck
<1>9. CASE do_resize \/ Refused
  BY <1>9, FailCoherent DEF do_resize, Refused, Fail
<1>10. CASE UseAfterFree \/ do_quit
  BY <1>10, GoneCoherent DEF UseAfterFree, do_quit
<1>11. CASE Done
  <2>1. UNCHANGED <<disk, medium, dev, ignored>> /\ cmd' = None /\ at' = 1
    BY <1>11 DEF Done
  <2>2. ~Dirty /\ ~Dirty'
    BY <1>11, <2>1, DoneClean DEF Dirty
  <2>3. QED
    BY <1>1, <2>1, <2>2, CleanCoherent DEF Coherent
<1>12. QED
  BY <1>3, <1>4, <1>5, <1>6, <1>7, <1>8, <1>9, <1>10, <1>11

(* Coherent is inductive, given Control and Tables.                         *)
LEMMA NextCoherent ==
    ASSUME NoneIsNoRecord, Control, Tables, Tables', Coherent, [Next]_vars PROVE Coherent'
<1>1. CASE UNCHANGED vars
  BY <1>1 DEF vars, cmdvars, sesvars, Coherent, Edited, Dirty, Target
<1>2. CASE do_work
  BY <1>2, OpenCoherent, ProbeCoherent, EditCoherent, CommitCoherent, OtherCoherent DEF do_work
<1>3. CASE interactive_mode \/ non_interactive_mode
  <2>1. pc = "loop" /\ UNCHANGED <<disk, medium, dev, ignored>> /\ at = 1 /\ at' = 1
    BY <1>3 DEF interactive_mode, non_interactive_mode, Start, Control, Idle
  <2>2. ~Dirty /\ ~Dirty'
    BY <2>1 DEF Dirty
  <2>3. QED
    BY <2>1, <2>2, CleanCoherent DEF Coherent
<1>4. CASE Prompts \/ User
  BY <1>4, PromptsKeep, FrameCoherent
<1>5. QED
  BY <1>1, <1>2, <1>3, <1>4, AskCoherent, ReadCoherent, ArgsRead DEF Next, Program, Ended

(* In the loop no command is at a step where Dirty or Fetching holds.       *)
LEMMA LeavesClean == Control /\ Fetched /\ Coherent => CommandsLeaveClean
<1> SUFFICES ASSUME Control, Fetched, Coherent PROVE CommandsLeaveClean
  OBVIOUS
<1>1. pc = "loop" => at = 1
  BY DEF Control, Idle
<1>2. FetchBalanced
  BY <1>1 DEF Fetched, Fetching, FetchBalanced
<1>3. CacheCoherent
  BY <1>1 DEF Coherent, Dirty, CacheCoherent
<1>4. QED
  BY <1>2, <1>3 DEF CommandsLeaveClean

(* Between two commands the table in memory is the one on the device in use *)
(* and no exceptions are fetched, after any command, failed at any step:    *)
(* the failure paths of interactive_mode and of each do_* drop what they    *)
(* did not write.                                                           *)
THEOREM CommandsClean == ASSUME NoneIsNoRecord PROVE Spec => []CommandsLeaveClean
<1> DEFINE Inv == Control /\ Asking /\ AnswersFresh /\ Answers /\ Fetched /\ Tables /\ Coherent
<1>1. Init => Inv
  BY InitControl, InitTables DEF Init, Answers, Waiting, Fetched, Fetching, Coherent
<1>2. Inv /\ [Next]_vars => Inv'
  BY NextControl, NextAsking, NextAnswers, NextFetched, NextTables, NextCoherent
<1>3. Inv => CommandsLeaveClean
  BY LeavesClean
<1>4. QED
  BY <1>1, <1>2, <1>3, PTL DEF Spec

---------------------------------------------------------------------------
(* What is lost *)

(* What do_mklabel goes by, local, is what is on the device, unless the     *)
(* label there cannot be read.                                              *)
Before ==
    /\ local = None => medium[dev].bad \/ \A n \in Nums : medium[dev].size[n] = 0
    /\ local # None => local.size = medium[dev].size

(* do_mklabel at the steps after it has looked for the old table: it asked  *)
(* before it replaces what is there, and a script replaces nothing that is  *)
(* busy, but for a label that cannot be read: it finds no table then.       *)
LabelLoss ==
    cmd = "mklabel" /\ (disk = None \/ ~ignored) =>
        /\ at \in {3, 4, 5, 6, 7} => Before
        /\ at \in {6, 7, 8} /\ ~medium[dev].bad =>
              ~mode.script \/ Busy \cap Parts(medium[dev]) = {}
        /\ at \in {7, 8} /\ ~medium[dev].bad =>
              mode.script \/ "yes" \in said \/ \A n \in Nums : medium[dev].size[n] = 0

(* do_rm asked about a busy partition, and do_resizepart about one that     *)
(* gets smaller.                                                            *)
PartLoss ==
    /\ cmd = "rm" /\ at \in {4, 5} /\ Target \in Busy => "yes" \in said
    /\ cmd = "resizepart" /\ at = 9 /\ ~ignored =>
          \A n \in Nums : disk.size[n] < medium[dev].size[n] => "yes" \in said

(* Who was asked what before what is lost is written.                       *)
Loss == Running => LabelLoss /\ PartLoss

(* The steps Loss says nothing of.                                          *)
Plain ==
    /\ cmd = "mklabel" => at \notin {3, 4, 5, 6, 7, 8}
    /\ cmd = "rm" => at \notin {4, 5}
    /\ cmd = "resizepart" => at # 9

(* There is nothing to show where Loss says nothing,                        *)
LEMMA PlainLoss == ASSUME Plain' \/ ~Running' PROVE Loss'
  BY DEF Loss, Plain, LabelLoss, PartLoss

(* nor where only prompts change,                                           *)
LEMMA FrameLoss ==
    ASSUME Loss, UNCHANGED <<mode, sesvars>>, Running' => Running PROVE Loss'
  BY DEF Loss, LabelLoss, PartLoss, Before, Target, Parts, sesvars

(* nor after a failure.                                                     *)
LEMMA FailLoss == ASSUME NEW table, Fails(table) PROVE Loss'
  BY PlainLoss DEF Fails, Running, Waiting, Plain

(* A question that needed the user's word was answered by the user, at a    *)
(* terminal.                                                                *)
LEMMA Replied ==
    ASSUME Answers, pc = "run", AtQuestion, NEW option, option # "unhandled", Answered({option})
    PROVE  ~mode.script /\ Typed = {option}
<1>1. got \notin {Nothing, None} /\ got.text = option
  BY DEF Answered
<1>2. got # UNHANDLED
  BY <1>1 DEF UNHANDLED
<1>3. got.line \in Nat \ {0} /\ ~mode.script
  BY <1>1, <1>2 DEF Answers
<1>4. QED
  BY <1>1, <1>3 DEF Typed

(* How a question goes on.                                                  *)
LEMMA QuestionGoes ==
    ASSUME Answers, AtQuestion, NEW step, NEW applies, NEW options, NEW option,
           option # "unhandled", Question(step, applies, options, {option})
    PROVE  \/ UNCHANGED <<mode, sesvars>> /\ pc = "run"
           \/ Fail
           \/ /\ at' = at + 1
              /\ UNCHANGED <<mode, pc, dev, disk, local, medium, cmd, arg, ignored>>
              /\ said \subseteq said'
              /\ applies => ~mode.script /\ option \in said'
<1>1. pc = "run"
  BY DEF Question, AtStep
<1>2. CASE applies /\ Answered({option}) /\ said' = said \cup Typed /\ Continue /\ Keep
           /\ UNCHANGED <<dev, disk, local, medium, cmd, arg, status, failed, freed, ignored>>
  BY <1>1, <1>2, Replied DEF Continue, Keep
<1>3. CASE ~applies /\ Continue /\ Keep
           /\ UNCHANGED <<dev, disk, local, medium, cmd, arg, status, said, failed, freed, ignored>>
  BY <1>3 DEF Continue, Keep
<1>4. CASE ped_exception_throw(options) /\ UNCHANGED sesvars
  BY <1>1, <1>4 DEF ped_exception_throw, command_line_get_ex_opt
<1>5. QED
  BY <1>2, <1>3, <1>4 DEF Question

(* Loss is kept by the questions of do_mklabel,                             *)
LEMMA AskLabelLoss ==
    ASSUME Control, Tables, Answers, Loss, _disk_warn_busy \/ _disk_warn_loss PROVE Loss'
<1>1. pc = "run" /\ at \in Nat /\ cmd = "mklabel"
      /\ (_disk_warn_busy => at = 5) /\ (_disk_warn_loss => at = 6 \/ at = 5)
      /\ (_disk_warn_loss /\ ~_disk_warn_busy => at = 6)
  <2>1. pc = "run" /\ cmd \in Commands /\ at \in Nat \ {0}
    BY DEF _disk_warn_busy, _disk_warn_loss, Question, AtStep, Control
  <2>2. _disk_warn_busy => cmd = "mklabel" /\ at = 5
    BY <2>1, StepAt DEF _disk_warn_busy, Question
  <2>3. _disk_warn_loss => cmd = "mklabel" /\ at = 6
    BY <2>1, StepAt DEF _disk_warn_loss, Question
  <2>4. QED
    BY <2>1, <2>2, <2>3
<1>2. AtQuestion /\ Running
  BY <1>1 DEF AtQuestion, Running
<1>3. CASE UNCHANGED <<mode, sesvars>>
  BY <1>2, <1>3, FrameLoss
<1>4. CASE Fail
  BY <1>4, FailLoss DEF Fail
<1>5. ASSUME at' = at + 1, UNCHANGED <<mode, pc, dev, disk, local, medium, cmd, arg, ignored>>,
             said \subseteq said',
             at = 5 => ~(local # None /\ Busy \cap Parts(local) # {}) \/ ~mode.script,
             at = 6 => ~(local # None /\ ~mode.script) \/ "yes" \in said'
      PROVE  Loss'
  <2>1. SUFFICES ASSUME disk = None \/ ~ignored PROVE LabelLoss'
    BY <1>1, <1>5 DEF Loss, LabelLoss, PartLoss
  <2>2. Before
    BY <1>1, <1>2, <2>1 DEF Loss, LabelLoss
  <2>3. Before'
    BY <1>5, <2>2 DEF Before
  <2>4. ~medium[dev].bad => Parts(medium[dev]) = IF local = None THEN {} ELSE Parts(local)
    BY <2>2 DEF Before, Parts
  <2>5. Parts(medium'[dev']) = Parts(medium[dev]) /\ medium'[dev'].bad = medium[dev].bad
    BY <1>5
  <2>6. CASE at = 5
    BY <1>1, <1>5, <2>3, <2>4, <2>5, <2>6 DEF LabelLoss
  <2>7. CASE at = 6
    <3>1. medium[dev].bad \/ ~mode.script \/ Busy \cap Parts(medium[dev]) = {}
      BY <1>1, <1>2, <2>1, <2>7 DEF Loss, LabelLoss
    <3>2. medium[dev].bad \/ mode.script \/ "yes" \in said'
             \/ \A n \in Nums : medium[dev].size[n] = 0
      BY <1>5, <2>2, <2>7 DEF Before
    <3>3. QED
      BY <1>1, <1>5, <2>3, <2>5, <2>7, <3>1, <3>2 DEF LabelLoss
  <2>8. QED
    BY <1>1, <2>6, <2>7
<1>6. CASE _disk_warn_busy
  <2>1. PICK applies : /\ applies = (local # None /\ Busy \cap Parts(local) # {})
                       /\ Question("disk busy", applies, {"ignore", "cancel"}, {"ignore"})
    BY <1>6 DEF _disk_warn_busy
  <2>2. "ignore" # "unhandled"
    OBVIOUS
  <2>3. \/ UNCHANGED <<mode, sesvars>>
        \/ Fail
        \/ /\ at' = at + 1
           /\ UNCHANGED <<mode, pc, dev, disk, local, medium, cmd, arg, ignored>>
           /\ said \subseteq said'
           /\ applies => ~mode.script
    BY <1>2, <2>1, <2>2, QuestionGoes
  <2>4. at = 5 /\ (~applies => ~(local # None /\ Busy \cap Parts(local) # {}))
    BY <1>1, <1>6, <2>1
  <2>5. CASE /\ at' = at + 1
             /\ UNCHANGED <<mode, pc, dev, disk, local, medium, cmd, arg, ignored>>
             /\ said \subseteq said'
             /\ applies => ~mode.script
    <3>1. ~(local # None /\ Busy \cap Parts(local) # {}) \/ ~mode.script
      BY <2>4, <2>5
    <3>2. QED
      BY <1>5, <2>4, <2>5, <3>1
  <2>6. QED
    BY <1>3, <1>4, <2>3, <2>5
<1>7. CASE _disk_warn_loss /\ ~_disk_warn_busy
  <2>1. PICK applies : /\ applies = (local # None /\ ~mode.script)
                       /\ Question("loss", applies, {"yes", "no"}, {"yes"})
    BY <1>7 DEF _disk_warn_loss
  <2>2. "yes" # "unhandled"
    OBVIOUS
  <2>3. \/ UNCHANGED <<mode, sesvars>>
        \/ Fail
        \/ /\ at' = at + 1
           /\ UNCHANGED <<mode, pc, dev, disk, local, medium, cmd, arg, ignored>>
           /\ said \subseteq said'
           /\ applies => "yes" \in said'
    BY <1>2, <2>1, <2>2, QuestionGoes
  <2>4. at = 6 /\ (~applies => ~(local # None /\ ~mode.script))
    BY <1>1, <1>7, <2>1
  <2>5. CASE /\ at' = at + 1
             /\ UNCHANGED <<mode, pc, dev, disk, local, medium, cmd, arg, ignored>>
             /\ said \subseteq said'
             /\ applies => "yes" \in said'
    <3>1. ~(local # None /\ ~mode.script) \/ "yes" \in said'
      BY <2>4, <2>5
    <3>2. QED
      BY <1>5, <2>4, <2>5, <3>1
  <2>6. QED
    BY <1>3, <1>4, <2>3, <2>5
<1>8. QED
  BY <1>6, <1>7

(* by those about a partition,                                              *)
LEMMA AskPartLoss ==
    ASSUME NoneIsNoRecord, Control, Tables, Coherent, Answers, Loss,
           _partition_warn_busy \/ WarnShrink
    PROVE  Loss'
<1>1. /\ pc = "run" /\ at \in Nat
      /\ _partition_warn_busy => (cmd = "rm" /\ at = 3) \/ (cmd = "resizepart" /\ at = 4)
      /\ WarnShrink => cmd = "resizepart" /\ at = 8
  <2>1. pc = "run" /\ cmd \in Commands /\ at \in Nat \ {0}
    BY DEF _partition_warn_busy, WarnShrink, Question, AtStep, Control
  <2>2. _partition_warn_busy => (cmd = "rm" /\ at = 3) \/ (cmd = "resizepart" /\ at = 4)
    BY <2>1, StepAt DEF _partition_warn_busy, Question
  <2>3. WarnShrink => cmd = "resizepart" /\ at = 8
    BY <2>1, StepAt DEF WarnShrink, Question
  <2>4. QED
    BY <2>1, <2>2, <2>3
<1>2. AtQuestion /\ Running
  BY <1>1 DEF AtQuestion, Running
<1>3. CASE UNCHANGED <<mode, sesvars>>
  BY <1>2, <1>3, FrameLoss
<1>4. CASE Fail
  BY <1>4, FailLoss DEF Fail
<1>5. ASSUME _partition_warn_busy, at' = at + 1, UNCHANGED <<cmd, arg>>,
             Target \in Busy => "yes" \in said'
      PROVE  Loss'
  <2>1. Target' = Target
    BY <1>5 DEF Target
  <2>2. QED
    BY <1>1, <1>5, <2>1 DEF Loss, LabelLoss, PartLoss
<1>6. ASSUME WarnShrink, at' = at + 1, UNCHANGED <<cmd, arg, disk, medium, dev, ignored>>,
             disk.size[Target] < local.size[Target] => "yes" \in said'
      PROVE  Loss'
  <2>1. cmd = "resizepart" /\ at = 8 /\ disk # None
    <3>1. cmd = "resizepart" /\ at = 8 /\ InHand
      BY <1>1, <1>2, <1>6 DEF Tables
    <3>2. QED
      BY <3>1 DEF InHand, Editing
  <2>2. ASSUME ~ignored, NEW n \in Nums, disk.size[n] < medium[dev].size[n] PROVE "yes" \in said'
    <3>1. /\ n # Target => disk.size[n] = medium[dev].size[n]
          /\ local = medium[dev]
      BY <1>1, <2>1, <2>2 DEF Coherent, Edited
    <3>2. medium[dev].size[n] \in Nat
      BY DEF Tables, MediumOk, Labelled, IsTable
    <3>3. QED
      BY <1>6, <2>2, <3>1, <3>2
  <2>3. QED
    BY <1>6, <2>1, <2>2 DEF Loss, LabelLoss, PartLoss
<1>7. CASE _partition_warn_busy
  BY <1>2, <1>3, <1>4, <1>5, <1>7, QuestionGoes DEF _partition_warn_busy
<1>8. CASE WarnShrink
  BY <1>2, <1>3, <1>4, <1>6, <1>8, QuestionGoes DEF WarnShrink
<1>9. QED
  BY <1>7, <1>8

(* by the other questions,                                                  *)
LEMMA AskLoss ==
    ASSUME NoneIsNoRecord, Control, Tables, Coherent, Answers, Loss, do_questions PROVE Loss'
<1>1. ASSUME NEW step, step \in {"elsewhere", "unaligned"}, NEW options, NEW yes,
             AskLocation(step, options, yes)
      PROVE  Loss'
  <2>1. pc = "run" /\ cmd = "mkpart"
    BY <1>1, StepAt DEF AskLocation, AtStep, Control
  <2>2. CASE cmd' = cmd
    BY <2>1, <2>2, PlainLoss DEF Plain
  <2>3. CASE \E table : Fails(table)
    BY <2>3, FailLoss
  <2>4. cmd' = cmd \/ \E table : Fails(table)
    BY <1>1 DEF AskLocation, SkipTo, sesvars
  <2>5. QED
    BY <2>2, <2>3, <2>4
<1>2. CASE _rescue_add_partition
  <2>1. pc = "run" /\ cmd = "rescue"
    BY <1>2, StepAt DEF _rescue_add_partition, AtStep, Control
  <2>2. CASE cmd' = cmd
    BY <2>1, <2>2, PlainLoss DEF Plain
  <2>3. CASE Fail
    BY <2>3, FailLoss DEF Fail
  <2>4. cmd' = cmd \/ Fail
    BY <1>2 DEF _rescue_add_partition, NextCandidate, sesvars
  <2>5. QED
    BY <2>2, <2>3, <2>4
<1>3. QED
  BY <1>1, <1>2, AskLabelLoss, AskPartLoss DEF do_questions, AskElsewhere, AskUnaligned

(* by the steps that read words,                                            *)
LEMMA ReadLoss ==
    ASSUME Control, Loss, NEW step, Reading(step) PROVE Loss'
<1>1. pc = "run" /\ Running /\ at \in Nat
  BY DEF Reading, AtStep, Running, Control
<1>2. CASE UNCHANGED sesvars
  <2>1. UNCHANGED mode
    BY DEF Reading, command_line_get_word, Keep, Fail, Fails
  <2>2. QED
    BY <1>1, <1>2, <2>1, FrameLoss
<1>3. CASE Fail
  BY <1>3, FailLoss DEF Fail
<1>4. CASE Continue /\ Keep
           /\ UNCHANGED <<dev, disk, local, medium, cmd, status, said, failed, freed, ignored>>
  <2>1. /\ cmd = "mklabel" => at = 4
        /\ cmd = "rm" => at = 2
        /\ cmd = "resizepart" => at = 2 \/ at = 6
    BY ReadAt
  <2>2. at' = at + 1 /\ UNCHANGED <<mode, pc, dev, disk, local, medium, cmd, said, ignored>>
    BY <1>4 DEF Continue, Keep
  <2>3. CASE cmd = "mklabel"
    <3>1. LabelLoss
      BY <1>1 DEF Loss
    <3>2. LabelLoss'
      BY <2>1, <2>2, <2>3, <3>1 DEF LabelLoss, Before
    <3>3. QED
      BY <2>2, <2>3, <3>2 DEF Loss, PartLoss
  <2>4. CASE cmd # "mklabel"
    <3>1. Plain'
      BY <1>1, <2>1, <2>2, <2>4 DEF Plain
    <3>2. QED
      BY <3>1, PlainLoss
  <2>5. QED
    BY <2>3, <2>4
<1>5. QED
  BY <1>2, <1>3, <1>4 DEF Reading

(* by the look for the old table, which finds what is on the device,        *)
LEMMA ProbeLoss ==
    ASSUME NoneIsNoRecord, Control, Tables, Coherent, Loss, ProbeDisk PROVE Loss'
<1>1. pc = "run" /\ AtStep("probe") /\ cmd \in {"mklabel", "rescue"} /\ at = 2 /\ Running
  BY StepAt DEF ProbeDisk, AtStep, Control, Running
<1>2. CASE UNCHANGED sesvars
  <2>1. UNCHANGED mode
    BY <1>2 DEF ProbeDisk, ped_disk_new, ped_exception_throw, command_line_get_ex_opt, Advance,
                Keep, Fail, Fails
  <2>2. QED
    BY <1>1, <1>2, <2>1, FrameLoss
<1>3. CASE Fail
  BY <1>3, FailLoss DEF Fail
<1>4. CASE Advance /\ cmd = "rescue"
  BY <1>4, PlainLoss DEF Advance, Plain
<1>5. ASSUME Advance, cmd = "mklabel", disk = None \/ ~ignored => Before', UNCHANGED <<disk, ignored>>
      PROVE  Loss'
  <2>1. at' = 3 /\ cmd' = "mklabel"
    BY <1>1, <1>5 DEF Advance, Continue
  <2>2. QED
    BY <1>5, <2>1 DEF Loss, LabelLoss, PartLoss
<1>6. CASE /\ cmd = "mklabel" /\ (disk # None \/ NoTable)
           /\ local' = disk
           /\ Advance /\ UNCHANGED <<disk, medium, freed, ignored>>
  <2>1. dev' = dev
    BY <1>6 DEF Advance
  <2>2. Labelled(medium[dev])
    BY DEF Tables, MediumOk
  <2>3. disk = None => medium[dev].bad \/ \A n \in Nums : medium[dev].size[n] = 0
    BY <1>6, <2>2 DEF Labelled, NoTable
  <2>4. disk # None /\ ~ignored => disk = medium[dev]
    BY <1>1, <1>6 DEF Coherent, Dirty
  <2>5. disk = None \/ ~ignored => Before'
    BY <1>6, <2>1, <2>3, <2>4 DEF Before
  <2>6. QED
    BY <1>5, <1>6, <2>5
<1>7. CASE /\ cmd = "mklabel"
           /\ \E b, t : /\ t = Fixed(medium[dev], b) /\ medium[dev].label # None
                        /\ medium' = [medium EXCEPT ![dev] = t] /\ Advance /\ local' = t
                        /\ UNCHANGED <<disk, ignored>>
  <2>1. PICK b, t : /\ t = Fixed(medium[dev], b) /\ medium[dev].label # None
                    /\ medium' = [medium EXCEPT ![dev] = t] /\ Advance /\ local' = t
                    /\ UNCHANGED <<disk, ignored>>
    BY <1>7
  <2>2. dev' = dev
    BY <2>1 DEF Advance
  <2>3. IsTable(t) /\ medium'[dev] = t
    BY <2>1, <2>2, NewDisk DEF Tables
  <2>4. Before'
    BY <2>1, <2>2, <2>3, TableIs DEF Before
  <2>5. QED
    BY <1>5, <1>7, <2>1, <2>4
<1>8. QED
  BY <1>1, <1>2, <1>3, <1>4, <1>6, <1>7 DEF ProbeDisk, ped_disk_new, NoTable, Fixed

(* and by the work.                                                         *)
LEMMA WorkLoss ==
    ASSUME NoneIsNoRecord, Control, Tables, Coherent, Loss, do_work PROVE Loss'
<1>1. pc = "run" /\ cmd \in Commands /\ at \in Nat \ {0}
  BY StepPauses DEF Control
<1>2. Running
  BY <1>1 DEF Running
<1>3. CASE FetchAll
  <2>1. (cmd = "mklabel" /\ at = 1) \/ cmd = "mkpart"
    BY <1>1, <1>3, StepAt DEF FetchAll
  <2>2. cmd' = cmd /\ at' = at + 1
    BY <1>3 DEF FetchAll, Continue
  <2>3. QED
    BY <2>1, <2>2, PlainLoss DEF Plain
<1>4. CASE LeaveAll
  <2>1. cmd = "mklabel" /\ at = 3
    BY <1>1, <1>4, StepAt DEF LeaveAll
  <2>2. at' = 4 /\ UNCHANGED <<mode, dev, disk, local, medium, cmd, ignored>>
    BY <1>4, <2>1 DEF LeaveAll, Continue
  <2>3. LabelLoss'
    BY <1>2, <2>1, <2>2 DEF Loss, LabelLoss, Before
  <2>4. QED
    BY <2>1, <2>2, <2>3 DEF Loss, PartLoss
<1>5. CASE OpenDisk
  <2>1. cmd # "mklabel" /\ at \in {1, 2}
        /\ (cmd \in {"rm", "resizepart"} => at = 1)
    BY <1>1, <1>5, StepAt DEF OpenDisk
  <2>2. CASE UNCHANGED sesvars
    BY <2>1, <2>2, PlainLoss DEF Plain, sesvars
  <2>3. CASE Advance
    BY <2>1, <2>3, PlainLoss DEF Plain, Advance, Continue
  <2>4. CASE cmd = "print" /\ UNCHANGED cmd
    BY <2>4, PlainLoss DEF Plain
  <2>5. CASE Fail
    BY <2>5, FailLoss DEF Fail
  <2>6. QED
    BY <1>5, <2>2, <2>3, <2>4, <2>5 DEF OpenDisk, ped_disk_new, SkipTo
<1>6. CASE FreshLabel
  <2>1. cmd = "mklabel" /\ at = 7
    BY <1>1, <1>6, StepAt DEF FreshLabel, WorkStep
  <2>2. at' = 8 /\ UNCHANGED <<mode, dev, disk, medium, cmd, said, ignored>>
    BY <1>6, <2>1 DEF FreshLabel, WorkStep, Advance, Continue, Keep
  <2>3. LabelLoss'
    BY <1>2, <2>1, <2>2 DEF Loss, LabelLoss, Parts
  <2>4. QED
    BY <2>1, <2>2, <2>3 DEF Loss, PartLoss
<1>7. CASE DeletePartition
  <2>1. cmd = "rm" /\ at = 4
    BY <1>1, <1>7, StepAt DEF DeletePartition, WorkStep
  <2>2. at' = 5 /\ UNCHANGED <<cmd, arg, said>>
    BY <1>7, <2>1 DEF DeletePartition, WorkStep, Advance, Continue
  <2>3. Target' = Target
    BY <2>2 DEF Target
  <2>4. QED
    BY <1>2, <2>1, <2>2, <2>3 DEF Loss, LabelLoss, PartLoss
<1>8. CASE SetGeom \/ PlacePartition \/ do_set \/ do_disk_set \/ do_toggle \/ do_name \/ do_type
  <2>1. /\ SetGeom => cmd = "resizepart" /\ at = 7
        /\ PlacePartition => cmd = "mkpart"
        /\ do_set \/ do_disk_set \/ do_toggle \/ do_name \/ do_type =>
              cmd \in {"set", "disk_toggle", "toggle", "disk_set", "name", "type"}
    <3>1. /\ SetGeom => cmd = "resizepart" /\ at = 7
          /\ PlacePartition => cmd = "mkpart" /\ at = 4
          /\ do_set \/ do_disk_set \/ do_toggle \/ do_name \/ do_type =>
                \/ cmd = "disk_toggle" /\ at = 3
                \/ cmd \in {"toggle", "disk_set", "name", "type"} /\ at = 4
                \/ cmd = "set" /\ at = 5
      BY <1>8, EditAt
    <3>2. QED
      BY <3>1
  <2>2. CASE \E table : Fails(table)
    BY <2>2, FailLoss
  <2>3. CASE cmd' = cmd /\ at' = at + 1
    BY <1>8, <2>1, <2>3, PlainLoss DEF Plain
  <2>4. QED
    BY <1>8, <2>2, <2>3 DEF SetGeom, PlacePartition, do_set, do_disk_set, do_toggle, do_name,
       do_type, Assign, WorkStep, Advance, Continue
<1>9. CASE SaveEnd \/ RestoreEnd
  <2>1. cmd = "resizepart" /\ at \in {3, 5}
    BY <1>1, <1>9, StepAt DEF SaveEnd, RestoreEnd
  <2>2. cmd' = cmd /\ at' = at + 1
    BY <1>9 DEF SaveEnd, RestoreEnd, Continue
  <2>3. QED
    BY <2>1, <2>2, PlainLoss DEF Plain
<1>10. CASE CommitDisk \/ CommitLabel \/ CommitRescued
  <2>1. AtStep("commit")
    BY <1>10 DEF CommitDisk, CommitLabel, CommitRescued
  <2>2. \/ cmd \in {"disk_toggle", "toggle", "disk_set", "name", "type", "set", "rescue", "mkpart"}
        \/ cmd = "rm" /\ at = 5
        \/ cmd = "mklabel" /\ at = 8
        \/ cmd = "resizepart" /\ at = 9
    BY <1>1, <2>1, StepAt
  <2>3. CASE \E table : Fails(table)
    BY <2>3, FailLoss
  <2>4. CASE cmd' = cmd /\ at' = at + 1
    BY <2>2, <2>4, PlainLoss DEF Plain
  <2>5. CASE cmd = "rescue" /\ cmd' = cmd
    BY <2>5, PlainLoss DEF Plain
  <2>6. QED
    BY <1>10, <2>3, <2>4, <2>5 DEF CommitDisk, CommitLabel, CommitRescued, Advance, Continue,
       NextCandidate
<1>11. CASE DropDisk \/ FindFileSystem \/ PrintDevices \/ PrintWhich \/ SwitchDevice \/ AlignCheck
  <2>1. cmd \in {"rescue", "print", "select", "align_check"}
    BY <1>1, <1>11, StepAt DEF DropDisk, WorkStep, FindFileSystem, PrintDevices, PrintWhich,
       SwitchDevice, AlignCheck
  <2>2. CASE Fail
    BY <2>2, FailLoss DEF Fail
  <2>3. CASE cmd' = cmd
    BY <2>1, <2>3, PlainLoss DEF Plain
  <2>4. QED
    BY <1>11, <2>2, <2>3 DEF DropDisk, WorkStep, Advance, FindFileSystem, PrintDevices, PrintWhich,
       SwitchDevice, AlignCheck, SkipTo
<1>12. CASE UseAfterFree \/ do_quit \/ Done \/ do_resize \/ Refused
  BY <1>12, PlainLoss, FailLoss DEF UseAfterFree, do_quit, Done, do_resize, Refused, Fail, Running, Waiting
<1>13. QED
  BY <1>3, <1>4, <1>5, <1>6, <1>7, <1>8, <1>9, <1>10, <1>11, <1>12, ProbeLoss DEF do_work

(* Loss is inductive, given Answers, Tables and Coherent.                   *)
LEMMA NextLoss ==
    ASSUME NoneIsNoRecord, Control, Answers, Tables, Coherent, Loss, [Next]_vars PROVE Loss'
<1>1. CASE UNCHANGED vars
  BY <1>1, FrameLoss DEF vars, cmdvars, Running, Waiting
<1>2. CASE interactive_mode \/ non_interactive_mode
  <2>1. pc = "loop" /\ at = 1 /\ at' = 1
    BY <1>2 DEF interactive_mode, non_interactive_mode, Start, Control, Idle
  <2>2. QED
    BY <2>1, PlainLoss DEF Plain
<1>3. CASE Prompts \/ User
  BY <1>3, PromptsKeep, PromptRunning, FrameLoss
<1>4. QED
  BY <1>1, <1>2, <1>3, WorkLoss, AskLoss, ReadLoss, ArgsRead DEF Next, Program, Ended

(* Only what opens a table and what commits one writes to a device.         *)
LEMMA MediumKept ==
    ASSUME [Next]_vars, ~OpenDisk, ~ProbeDisk, ~CommitDisk, ~CommitLabel, ~CommitRescued
    PROVE  UNCHANGED medium
<1>1. CASE do_args
  BY <1>1, ArgsRead DEF Reading, Fail, sesvars
<1>2. CASE do_questions
  BY <1>2 DEF do_questions, _disk_warn_busy, _disk_warn_loss, _partition_warn_busy, WarnShrink,
     Question, AskElsewhere, AskUnaligned, AskLocation, _rescue_add_partition, SkipTo, Fail, sesvars
<1>3. CASE do_work
  BY <1>3 DEF do_work, FetchAll, LeaveAll, FreshLabel, DeletePartition, SetGeom,
     do_set, do_disk_set, do_toggle, do_name, do_type, SaveEnd, RestoreEnd, PlacePartition,
     DropDisk, FindFileSystem, PrintDevices, PrintWhich, UseAfterFree, SwitchDevice, AlignCheck,
     do_resize, do_quit, Done, Refused, Assign, SkipTo, Fail
<1>4. CASE Prompts \/ User
  BY <1>4, PromptsKeep DEF sesvars
<1>5. CASE interactive_mode \/ non_interactive_mode
  BY <1>5 DEF interactive_mode, non_interactive_mode
<1>6. QED
  BY <1>1, <1>2, <1>3, <1>4, <1>5 DEF Next, Program, Ended, vars, sesvars

(* Nothing is lost where sizes stay.                                        *)
LEMMA NoLoss ==
    ASSUME MediumOk, \A n \in Nums : medium'[dev].size[n] = medium[dev].size[n]
    PROVE  LossConfirmed
<1>1. \A n \in Nums : medium[dev].size[n] \in Nat
  BY DEF MediumOk, Labelled, IsTable
<1>2. \A n \in Nums : ~Loses(n)
  BY <1>1 DEF Loses
<1>3. QED
  BY <1>2 DEF LossConfirmed

(* What ped_disk_new writes back has the sizes it read.                     *)
LEMMA OpenConfirmed ==
    ASSUME Tables, OpenDisk \/ ProbeDisk PROVE LossConfirmed
<1>1. MediumOk
  BY DEF Tables
<1>2. CASE UNCHANGED medium
  BY <1>1, <1>2, NoLoss
<1>3. CASE \E b, t : /\ t = Fixed(medium[dev], b) /\ medium[dev].label # None
                    /\ medium' = [medium EXCEPT ![dev] = t] /\ Advance
  <2>1. PICK b, t : /\ t = Fixed(medium[dev], b) /\ medium[dev].label # None
                    /\ medium' = [medium EXCEPT ![dev] = t] /\ Advance
    BY <1>3
  <2>2. medium'[dev] = t /\ t.size = medium[dev].size
    BY <1>1, <2>1, NewDisk DEF Advance
  <2>3. QED
    BY <1>1, <2>2, NoLoss
<1>4. QED
  BY <1>2, <1>3 DEF OpenDisk, ProbeDisk, ped_disk_new, NoTable, Fixed, Fail, SkipTo, sesvars

(* A commit loses only what Loss accounts for.                              *)
LEMMA CommitConfirmed ==
    ASSUME NoneIsNoRecord, Control, Tables, Coherent, Loss,
           CommitDisk \/ CommitLabel \/ CommitRescued
    PROVE  LossConfirmed
<1>1. /\ pc = "run" /\ at \in Nat /\ InHand /\ MediumOk
      /\ CommitDisk => cmd \in Editing /\ at >= 2 /\ IsTable(disk) /\ disk.label # None
                       /\ (cmd = "resizepart" => at = 9)
      /\ CommitLabel => cmd = "mklabel" /\ at = 8 /\ IsTable(local) /\ local.label # None
      /\ CommitRescued => cmd = "rescue" /\ at = 6 /\ IsTable(local) /\ disk = None
  BY CommitAt
<1>2. Running
  BY <1>1 DEF Running
<1>3. CASE UNCHANGED medium
  BY <1>1, <1>3, NoLoss
<1>4. CASE CommitDisk /\ ~UNCHANGED medium
  <2>1. medium' = [medium EXCEPT ![dev] = disk] /\ dev \in Devices
    BY <1>1, <1>4 DEF CommitDisk, MediumOk
  <2>2. medium'[dev] = disk
    BY <1>1, <2>1 DEF MediumOk
  <2>3. SUFFICES ASSUME NEW n \in Nums, Loses(n), ~ignored
                 PROVE  (cmd = "rm" /\ n \notin Busy) \/ "yes" \in said
    <3>1. disk # None
      BY <1>1, <1>4 DEF InHand
    <3>2. QED
      BY <3>1 DEF LossConfirmed
  <2>4. disk.size[n] \in Nat /\ medium[dev].size[n] \in Nat
    BY <1>1, <1>4 DEF IsTable, MediumOk, Labelled
  <2>5. disk.size[n] < medium[dev].size[n]
    BY <2>2, <2>3, <2>4 DEF Loses
  <2>6. disk # None /\ Edited
    BY <1>1, <1>4, <2>3 DEF InHand, Coherent
  <2>7. cmd \in {"rm", "resizepart"}
    <3>1. cmd \notin {"set", "toggle", "disk_set", "name", "type", "disk_toggle"}
      BY <2>4, <2>5, <2>6 DEF Edited
    <3>2. cmd # "mkpart"
      BY <2>4, <2>5, <2>6 DEF Edited
    <3>3. QED
      BY <1>1, <1>4, <3>1, <3>2 DEF Editing
  <2>8. CASE cmd = "rm"
    <3>1. at = 5
      BY <1>1, <1>4, <2>8, StepAt DEF CommitDisk, Control
    <3>2. n = Target
      BY <2>4, <2>5, <2>6, <2>8 DEF Edited
    <3>3. Target \in Busy => "yes" \in said
      BY <1>2, <2>8, <3>1 DEF Loss, PartLoss
    <3>4. QED
      BY <2>8, <3>2, <3>3
  <2>9. CASE cmd = "resizepart"
    BY <1>1, <1>2, <1>4, <2>3, <2>5, <2>9 DEF Loss, PartLoss
  <2>10. QED
    BY <2>7, <2>8, <2>9
<1>5. CASE CommitLabel /\ ~UNCHANGED medium
  <2>1. SUFFICES ASSUME NEW n \in Nums, Loses(n), disk = None \/ ~ignored,
                        ~medium[dev].bad
                 PROVE  (mode.script /\ Busy \cap Parts(medium[dev]) = {}) \/ "yes" \in said
    BY <1>1, <1>5 DEF LossConfirmed
  <2>2. medium' = [medium EXCEPT ![dev] = local] /\ dev \in Devices
    BY <1>1, <1>5 DEF CommitLabel, MediumOk
  <2>3. medium'[dev] = local
    BY <1>1, <2>2 DEF MediumOk
  <2>4. local.size[n] \in Nat /\ medium[dev].size[n] \in Nat
    BY <1>1, <1>5 DEF IsTable, MediumOk, Labelled
  <2>5. medium[dev].size[n] # 0
    BY <2>1, <2>3, <2>4 DEF Loses
  <2>6. /\ ~mode.script \/ Busy \cap Parts(medium[dev]) = {}
        /\ mode.script \/ "yes" \in said
    BY <1>1, <1>2, <1>5, <2>1, <2>5 DEF Loss, LabelLoss
  <2>7. QED
    BY <2>6
<1>6. CASE CommitRescued
  BY <1>1, <1>6 DEF LossConfirmed
<1>7. QED
  BY <1>3, <1>4, <1>5, <1>6

(* Each step that loses something was confirmed, and none writes after a    *)
(* failure.                                                                 *)
LEMMA NextConfirmed ==
    ASSUME NoneIsNoRecord, Control, Tables, Coherent, Loss, [Next]_vars
    PROVE  LossConfirmed /\ FailureStops
<1>1. LossConfirmed
  <2>1. CASE OpenDisk \/ ProbeDisk
    BY <2>1, OpenConfirmed
  <2>2. CASE CommitDisk \/ CommitLabel \/ CommitRescued
    BY <2>2, CommitConfirmed
  <2>3. CASE UNCHANGED medium
    BY <2>3, NoLoss DEF Tables
  <2>4. QED
    BY <2>1, <2>2, <2>3, MediumKept
<1>2. FailureStops
  <2>1. SUFFICES ASSUME pc = "end" PROVE UNCHANGED medium
    BY DEF FailureStops, Control
  <2>2. QED
    BY <2>1, MediumKept DEF OpenDisk, ProbeDisk, CommitDisk, CommitLabel, CommitRescued, AtStep
<1>3. QED
  BY <1>1, <1>2

(* Nothing that cannot be undone reaches a device without the user's yes,   *)
(* and nothing at all after a failure: in every run, with any devices,      *)
(* sizes, input and outcomes of the commits.                                *)
THEOREM Justified == ASSUME NoneIsNoRecord PROVE Spec => WritesJustified
<1> DEFINE Inv == Control /\ Asking /\ AnswersFresh /\ Answers /\ Tables /\ Coherent /\ Loss
<1>1. Init => Inv
  BY InitControl, InitTables DEF Init, Answers, Running, Waiting, Coherent, Loss
<1>2. Inv /\ [Next]_vars => Inv'
  BY NextControl, NextAsking, NextAnswers, NextTables, NextCoherent, NextLoss
<1>3. Inv /\ [Next]_vars => [LossConfirmed /\ FailureStops]_vars
  BY NextConfirmed
<1>4. QED
  BY <1>1, <1>2, <1>3, PTL DEF Spec, WritesJustified

=============================================================================
