----------------------------- MODULE MCProgram -----------------------------
(***************************************************************************)
(* The program: its sessions, and the screens on which a table is printed   *)
(* and a partition typed.  task says which of the two a behaviour           *)
(* exercises, the other keeps its first state.                              *)
(***************************************************************************)
EXTENDS Session, Printing

(* Sessions: two partition numbers, two devices; partition 1 is in use.     *)
MCNumeral == [text \in {"1", "2"} |-> IF text = "1" THEN 1 ELSE 2]

(* Words that answer a question they were not typed for begin with these.   *)
MCAbbreviations ==
    [r |-> {"rm", "rescue", "resize", "resizepart"}, y |-> {"yes"}, n |-> {"no", "name"},
     m |-> {"mklabel", "mkpart", "min", "MB"}, o |-> {"on", "off", "opt", "ok"},
     i |-> {"ignore"}, s |-> {"set", "select"}]

MCInitials ==
    [name |-> "n", mklabel |-> "m", mkpart |-> "m", no |-> "n", ignore |-> "i",
     set |-> "s", select |-> "s", yelp |-> "y"]

Table(label, odd, one, two) ==
    [label |-> label, odd |-> odd, bad |-> FALSE, attr |-> {},
     size |-> [n \in Nums |-> IF n = 1 THEN one ELSE two]]

MCMedia ==
    {[device \in Devices |-> IF device = "a" THEN on_a ELSE Table("gpt", FALSE, 0, 1)] :
        on_a \in {Table("gpt", TRUE, 2, 0), Table("gpt", FALSE, 2, 2), Table(None, FALSE, 0, 0),
                  [Table("gpt", FALSE, 2, 1) EXCEPT !.bad = TRUE]}}

MCLines == {
    <<>>, <<"1">>, <<"y">>, <<"no">>, <<"ignore">>, <<"cancel">>, <<"fix", "y">>,
    <<"mklabel", "gpt", "y">>, <<"mkpart", "1", "no">>, <<"rm", "1", "y">>, <<"rm", "2">>,
    <<"resizepart", "1", "1">>, <<"resizepart", "2", "1">>, <<"resizepart">>,
    <<"set", "1", "boot", "on">>, <<"toggle", "1", "boot">>, <<"disk_set", "boot">>,
    <<"disk_toggle">>, <<"name", "1", "x">>, <<"type", "2">>, <<"align_check", "min", "1">>,
    <<"print", "devices">>, <<"print", "1">>, <<"print">>, <<"select", "b">>, <<"rescue", "1">>,
    <<"unit", "s">>, <<"help">>, <<"resize">>, <<"r">>, <<"yelp">>,
    <<"quit">>}

MCArguments == {
    <<"rm", "1">>, <<"rm", "2", "rm", "1", "mklabel", "gpt">>, <<"mklabel", "gpt", "mkpart", "2">>,
    <<"mkpart", "1", "resizepart", "2", "2">>, <<"resizepart", "2", "bad", "rm", "2">>,
    <<"resizepart", "1", "1", "print">>, <<"rescue", "1", "print">>, <<"what", "rm", "2">>,
    <<"set", "1", "boot", "on", "align_check", "opt", "1", "rm", "2">>, <<"quit">>,
    <<"disk_toggle", "select", "b", "print", "2">>}

MCModes ==
    {[argv |-> FALSE, script |-> FALSE, fix |-> FALSE, tty |-> TRUE],
     [argv |-> FALSE, script |-> FALSE, fix |-> FALSE, tty |-> FALSE],
     [argv |-> TRUE, script |-> FALSE, fix |-> FALSE, tty |-> TRUE],
     [argv |-> TRUE, script |-> TRUE, fix |-> FALSE, tty |-> FALSE],
     [argv |-> TRUE, script |-> TRUE, fix |-> TRUE, tty |-> FALSE]}

(* Screens: a device of 25 sectors of 2 bytes; a kB is 16 bytes, a kiB 18.  *)
MCBytes == [u \in {"B", "kB", "kiB"} |-> CASE u = "B" -> 1 [] u = "kB" -> 16 [] OTHER -> 18]

MCTexts ==
    {[num |-> n, neg |-> neg, suffix |-> s] :
        n \in {0, 50, 100, 150, 200, 400, 700}, neg \in BOOLEAN, s \in {"", "s", "kB", "kiB"}}

R(s, e) == [start |-> s, end |-> e]
MCLayouts == {
    <<R(0, 24)>>, <<R(0, 1), R(2, 9), R(10, 24)>>, <<R(0, 4), R(5, 9), R(10, 12), R(13, 24)>>,
    <<R(0, 10), R(11, 11), R(12, 24)>>}

FreeRegion == [type |-> "free", name |-> <<>>]
Part(name) == [type |-> "part", name |-> name]
MCListed == {FreeRegion, [type |-> "metadata", name |-> <<>>], Part(<<>>), Part(<<":">>),
             Part(<<"x", "\\">>), Part(<<"\\", ":">>)}
MCLists == {<<a>> : a \in MCListed} \cup {<<a, b>> : a, b \in MCListed}

VARIABLE task

ProgramInit ==
    /\ task \in {"session", "screen"}
    /\ Init /\ UiInit
    /\ task = "session" => unit = CHOOSE u \in Defaults : TRUE
    /\ task = "session" => tiles = CHOOSE l \in Layouts : TRUE
    /\ task = "screen" => mode = CHOOSE m \in Modes : ~ m.argv
    /\ task = "screen" => dev = CHOOSE v \in Devices : TRUE
    /\ task = "screen" => medium = CHOOSE m \in Media : TRUE

ProgramNext ==
    \/ task = "session" /\ Next /\ UNCHANGED <<input_vars, printvars, task>>
    \/ task = "screen" /\ UiNext /\ UNCHANGED <<vars, task>>

ProgramSpec == ProgramInit /\ [][ProgramNext]_<<vars, input_vars, printvars, task>> /\ WF_vars(Program)
=============================================================================
