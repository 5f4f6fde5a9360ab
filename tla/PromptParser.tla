---------------------------- MODULE PromptParser ----------------------------
(***************************************************************************)
(* DirectorPromptParser.extract_options (parsers/__init__.py), which the   *)
(* prompt dialog uses to turn a Director prompt into (text, options,       *)
(* prompt).  A line is abstracted to what the two regular expressions      *)
(* look at:                                                                *)
(*   n    the menu number N of a line "N: label" (0: no such pattern),     *)
(*   sel  whether the line contains "Select"/"select".                     *)
(* The result refers to lines by their position in the message.            *)
(***************************************************************************)
EXTENDS Naturals, Sequences

CONSTANT MaxOpt   \* largest menu number in a message

Line == [n : 0..MaxOpt, sel : BOOLEAN]

\* The option pattern of extract_options is  ^ .* ([0-9]+): (.*) $  and its
\* greedy leading .* leaves only the last decimal digit of N to the group.
OptionNumber(n) == n % 10

(* The order of the tests in the loop body: the option pattern first, the *)
(* 'Select' search only for lines that are no option.                      *)
ClassifyLine(l) ==
    IF l.n > 0 THEN "option" ELSE IF l.sel THEN "select" ELSE "text"

(* The loop over message.split("\n"), from line i on.                      *)
RECURSIVE ExtractFrom(_, _, _)
ExtractFrom(msg, i, acc) ==
    IF i > Len(msg) THEN acc
    ELSE LET kind == ClassifyLine(msg[i]) IN
         ExtractFrom(msg, i + 1,
            CASE kind = "option" ->
                   [acc EXCEPT !.options =
                       Append(@, [num |-> OptionNumber(msg[i].n), label |-> i])]
              [] kind = "select" -> [acc EXCEPT !.prompt = i]
              [] OTHER -> [acc EXCEPT !.text = Append(@, i)])

NoPrompt == 0
extract_options(msg) ==
    ExtractFrom(msg, 1, [text |-> <<>>, options |-> <<>>, prompt |-> NoPrompt])

-----------------------------------------------------------------------------
(* What spec 4.1 and 8 ask of the parser: every "N: label" line is option *)
(* (N, label), the last 'select' line is the prompt label, and every other *)
(* line is free text.                                                      *)
Positions(msg) == [i \in 1..Len(msg) |-> i]
IsOption(msg, i) == msg[i].n > 0

RefOptions(msg) ==
    LET idx == SelectSeq(Positions(msg), LAMBDA i : IsOption(msg, i))
    IN [j \in DOMAIN idx |-> [num |-> msg[idx[j]].n, label |-> idx[j]]]

-----------------------------------------------------------------------------
(* Messages shaped like the Director's menus: up to two lines of text,     *)
(* the options 1..k (at most one of whose labels says "Select", as in     *)
(* "5: Select the most recent backup for a client"), and a final line.    *)
TextLine(s) == [n |-> 0, sel |-> s]
Menu(k, s) == [i \in 1..k |-> [n |-> i, sel |-> (i = s)]]

Messages ==
    { pre \o Menu(k, s) \o post :
        pre \in {<<>>} \cup {<<TextLine(a)>> : a \in BOOLEAN}
                       \cup {<<TextLine(a), TextLine(b)>> : a, b \in BOOLEAN},
        k \in 0..MaxOpt, s \in 0..MaxOpt,
        post \in {<<>>, <<TextLine(TRUE)>>, <<TextLine(FALSE)>>} }

VARIABLE msg

Init == msg \in Messages
Next == UNCHANGED msg
Spec == Init /\ [][Next]_msg

-----------------------------------------------------------------------------
(* The dialog offers each menu entry under its own number: the parser     *)
(* reads every "N: label" line as option (N, label), including entries    *)
(* whose label contains "Select".                                          *)
OptionsReadAsNumbered == extract_options(msg).options = RefOptions(msg)
=============================================================================
