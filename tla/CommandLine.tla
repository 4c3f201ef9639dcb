---------------------------- MODULE CommandLine ----------------------------
(***************************************************************************)
(* The words the user typed (ui.c, strlist.c) and the exceptions of        *)
(* libparted that become questions to the user (exception.c).              *)
(*                                                                         *)
(* A word is a record of its text and of the line it came on; line 0 is    *)
(* the program's arguments.  A prompt is a state in which the program      *)
(* waits: whoever asked has its answer in got when pc is "run" again.      *)
(***************************************************************************)
EXTENDS Naturals, FiniteSets, Sequences

CONSTANTS
    None,
    AnyWord,        \* no list of possibilities: every word will do
    Nothing,        \* got before anything was asked
    Abbreviations,  \* text |-> the possibilities it is a proper prefix of
    Initials,       \* text |-> the letter it begins with
    Lines,          \* the lines the user types, sequences of texts
    MaxLines        \* bound: lines typed

ASSUME CommandLineAssumption ==
    /\ MaxLines \in Nat
    /\ Lines \subseteq Seq(STRING)
    /\ None \notin {"yes", "no", "ok", "fix", "ignore", "cancel", "unhandled"}

VARIABLES
    mode,   \* opt_script_mode, opt_fix_mode, isatty(0), arguments given
    words,  \* command_line
    lines,  \* lines typed so far
    eof,    \* the input has ended
    ctrl_c, \* got_ctrl_c
    fetch,  \* ex_fetch_count
    req,    \* what command_line_get_word waits for, None when it does not
    got,    \* what it, or ped_exception_throw, returned
    pc      \* "loop", "run", "word", "line" or "end"

cmdvars == <<mode, words, lines, eof, ctrl_c, fetch, req, got, pc>>

---------------------------------------------------------------------------
(* A full match wins, then the only partial one. *)
str_list_match(list, text) ==
    LET partial == IF text \in DOMAIN Abbreviations
                   THEN Abbreviations[text] \cap list ELSE {}
    IN IF text \in list THEN text
       ELSE IF Cardinality(partial) = 1 THEN CHOOSE name \in partial : TRUE
       ELSE None

Initial(text) == IF text \in DOMAIN Initials THEN Initials[text] ELSE text

(* A word that matches nothing is matched again as wide characters read as *)
(* narrow ones: by its first letter, after which the string ends.          *)
Matches(r, text) ==
    IF r.poss = AnyWord THEN text
    ELSE IF str_list_match(r.poss, text) # None THEN str_list_match(r.poss, text)
         ELSE str_list_match(r.poss, Initial(text))

(* The only possibility is a default. *)
Default(r) ==
    IF r.def = None /\ r.poss # AnyWord /\ Cardinality(r.poss) = 1
    THEN CHOOSE text \in r.poss : TRUE ELSE r.def

command_line_push_line(line, stamp) ==
    [i \in DOMAIN line |-> [text |-> line[i], line |-> stamp]]

---------------------------------------------------------------------------
(* command_line_get_word: the program asks for a word and waits in "word". *)
command_line_get_word(r) ==
    /\ req' = r
    /\ pc' = "word"
    /\ UNCHANGED <<mode, words, lines, eof, ctrl_c, fetch, got>>

Return(text) ==
    /\ got' = text
    /\ req' = None
    /\ pc' = "run"

GetWord_Take ==
    /\ pc = "word" /\ words # <<>>
    /\ \E text \in {Matches(req, Head(words).text)} :
        \/ /\ text # None
           /\ Return([text |-> text, line |-> Head(words).line])
           /\ words' = Tail(words)
        \/ /\ text = None
           /\ words' = <<>>
           /\ IF mode.script THEN Return(None) ELSE pc' = "line" /\ UNCHANGED <<got, req>>
    /\ UNCHANGED <<mode, lines, eof, ctrl_c, fetch>>

(* In a script the default is the answer, and no prompt is shown. *)
GetWord_Prompt ==
    /\ pc = "word" /\ words = <<>>
    /\ CASE ~mode.script -> pc' = "line" /\ UNCHANGED <<words, got, req>>
         [] mode.script /\ Default(req) # None ->
                /\ words' = command_line_push_line(<<Default(req)>>, lines)
                /\ UNCHANGED <<pc, got, req>>
         [] OTHER -> Return(None) /\ UNCHANGED words
    /\ UNCHANGED <<mode, lines, eof, ctrl_c, fetch>>

(* command_line_prompt_words; the main loop prompts with req = None. *)
PromptDefault == IF req = None THEN None ELSE Default(req)

PromptWords_Line(line) ==
    /\ pc = "line" /\ ~eof /\ lines < MaxLines
    /\ lines' = lines + 1
    /\ \E said \in {IF line = <<>> /\ PromptDefault # None THEN <<PromptDefault>> ELSE line} :
        /\ words' = command_line_push_line(said, lines + 1)
        /\ pc' = IF said = <<>> THEN "line" ELSE IF req = None THEN "loop" ELSE "word"
    /\ UNCHANGED <<mode, eof, ctrl_c, fetch, req, got>>

(* Mutant: the end of the input leaves the prompt waiting for a word. *)
Mut_PromptWords_Eof ==
    /\ pc = "line" /\ eof
    /\ IF req = None
       THEN ctrl_c' = TRUE /\ pc' = "loop"
       ELSE ctrl_c' = TRUE /\ pc' = "word"
    /\ UNCHANGED <<mode, words, lines, eof, fetch, req, got>>

(* The end of the input is taken for an interrupt. *)
PromptWords_Eof ==
    /\ pc = "line" /\ eof
    /\ IF req = None
       THEN ctrl_c' = TRUE /\ pc' = "loop" /\ UNCHANGED <<req, got>>
       ELSE ctrl_c' = FALSE /\ Return(None)
    /\ UNCHANGED <<mode, words, lines, eof, fetch>>

CloseInput ==
    /\ pc # "end" /\ ~eof
    /\ eof' = TRUE
    /\ UNCHANGED <<mode, words, lines, ctrl_c, fetch, req, got, pc>>

---------------------------------------------------------------------------
(* ped_exception_throw with exception_handler.  A question that nobody     *)
(* answers is "unhandled".                                                 *)
UNHANDLED == [text |-> "unhandled", line |-> 0]

Chosen(text) == [text |-> text, line |-> 0]

exception_handler(options) ==
    CASE Cardinality(options) = 1 -> {Chosen(opt) : opt \in options}
      [] Cardinality(options) > 1 /\ mode.script /\ mode.fix /\ "fix" \in options ->
            {Chosen("fix")}
      [] Cardinality(options) > 1 /\ ~(mode.script /\ mode.fix /\ "fix" \in options)
            /\ (mode.script \/ ~mode.tty) -> {UNHANDLED}
      [] OTHER -> {}

(* Mutant: what was typed ahead is left to answer the question. *)
Mut_command_line_get_ex_opt(options) ==
    /\ ctrl_c' = FALSE
    /\ req' = [def |-> None, poss |-> options, asked |-> lines, question |-> TRUE]
    /\ pc' = "word"
    /\ UNCHANGED <<mode, words, lines, eof, fetch, got>>

(* command_line_get_ex_opt drops what was typed before the question. *)
command_line_get_ex_opt(options) ==
    /\ words' = <<>>
    /\ ctrl_c' = FALSE
    /\ req' = [def |-> None, poss |-> options, asked |-> lines, question |-> TRUE]
    /\ pc' = "word"
    /\ UNCHANGED <<mode, lines, eof, fetch, got>>

ped_exception_throw(options) ==
    LET answers == IF fetch > 0 THEN {UNHANDLED} ELSE exception_handler(options)
    IN \/ /\ got' \in answers
          /\ UNCHANGED <<mode, words, lines, eof, ctrl_c, fetch, req, pc>>
       \/ answers = {} /\ command_line_get_ex_opt(options)

---------------------------------------------------------------------------
(* The environment and the prompts *)
CommandLineNext ==
    \/ GetWord_Take \/ GetWord_Prompt
    \/ \E line \in Lines : PromptWords_Line(line)
    \/ PromptWords_Eof \/ CloseInput
=============================================================================
