------------------------------- MODULE Console -------------------------------
(***************************************************************************)
(* The text console: the input entry and its controller                    *)
(* (ConsoleController.on_input_activate, on_input_entry_key_press_event,   *)
(* the input and history_index notifications) and the Console model       *)
(* (execute, _cb_execute, cmd_history_up/down) over the DirectorConnection *)
(* pipeline.  The model's properties are gtkmvc observable properties:     *)
(* assigning one notifies the controller, synchronously.  Whether a       *)
(* notification is delivered when the value assigned equals the old one   *)
(* depends on the gtkmvc build; SpuriousNotify says which.                 *)
(***************************************************************************)
EXTENDS Integers, Sequences

CONSTANTS
    Texts,          \* non-empty lines the user may type (model values)
    PromptingTexts, \* those whose reply the daemon may end with a prompt
    NL,             \* the command "\n" sent for an empty line
    Dot,            \* the "." cancel command of the connection
    MaxEnq,         \* bound on Enter presses
    SpuriousNotify  \* gtkmvc notifies an assignment of an unchanged value

VARIABLES
    queue, running, atPrompt, reply, watches, toDir, fromDir, dmode, nsent,
    consolePrompt, dialog, promptCb, lastCall, nenq, nfail,
    entry,     \* the text of the input-entry widget ("" when empty)
    input,     \* Console.input, the last line activated
    history,   \* Console.cmd_history (a class attribute)
    hidx,      \* Console.history_index: 0, or -k for the k-th last command
    nenter,    \* Enter presses so far
    nexec      \* Director.exec_cmd calls so far

conVars == <<entry, input, history, hidx, nenter, nexec>>
vars == <<queue, running, atPrompt, reply, watches, toDir, fromDir, dmode,
          nsent, consolePrompt, dialog, promptCb, lastCall, nenq, nfail,
          entry, input, history, hidx, nenter, nexec>>

DC == INSTANCE DirectorConnection
        WITH Background <- {}, ConsoleCmds <- Texts \cup {NL},
             ConsoleAnswer <- NL, Choice <- NL, Cancel <- Dot,
             PromptingCmds <- PromptingTexts, RaisingCmds <- {},
             MaxFailures <- 0, ExtraCmds <- {}, ExtraCbs <- {}

-----------------------------------------------------------------------------
(* self.cmd_history[new], new <= 0, with Python's negative indexing; a    *)
(* value out of range raises IndexError, which leaves the entry as it was. *)
Recall(i) ==
    CASE i = 0                       -> ""
      [] -Len(history) <= i /\ i < 0 -> history[Len(history) + i + 1]
      [] OTHER                       -> entry

(* Console.execute(command): record a typed command (not an answer, not   *)
(* blank) and reset the history index, then exec_cmd with priority, as an *)
(* answer iff at_prompt, then clear at_prompt.                             *)
execute(cmd) ==
    LET records == ~consolePrompt /\ cmd # NL IN
    /\ history' = IF records THEN Append(history, cmd) ELSE history
    /\ hidx' = IF records THEN 0 ELSE hidx
    /\ nexec' = nexec + 1
    /\ DC!CallAsync([cmd |-> cmd, cb |-> "console"], TRUE, consolePrompt)
    /\ consolePrompt' = FALSE

(* property_input_change_notification: the command for a new input line; *)
(* an empty one is sent as "\n".                                           *)
property_input_change_notification(new) == IF new = "" THEN NL ELSE new

(* ConsoleView.retrieve_command and reset_prompt: the entry's text.       *)
retrieve_command(t) == entry' = t
reset_prompt == entry' = ""

(* The user edits the entry.                                               *)
TypeLine(t) ==
    /\ entry' = t
    /\ UNCHANGED <<queue, running, atPrompt, reply, watches, toDir, fromDir,
                   dmode, nsent, consolePrompt, dialog, promptCb, lastCall,
                   nenq, nfail, input, history, hidx, nenter, nexec>>

(* on_input_activate: echo, self.model.input = view.input (whose          *)
(* notification executes the line, "\n" for an empty one, when the        *)
(* connection is up), then reset_prompt.                                   *)
on_input_activate ==
    /\ nenter < MaxEnq
    /\ nenter' = nenter + 1
    /\ input' = entry
    /\ reset_prompt
    /\ IF (entry # input \/ SpuriousNotify) /\ ~DC!Dead
         THEN execute(property_input_change_notification(entry))
         ELSE UNCHANGED <<queue, running, atPrompt, reply, watches, toDir,
                          fromDir, dmode, nsent, consolePrompt, nenq, nfail,
                          history, hidx, nexec>>
    /\ UNCHANGED <<dialog, promptCb, lastCall>>

(* Up key: cmd_history_up, whose index notification retrieves the command.*)
cmd_history_up ==
    /\ -hidx < Len(history)
    /\ hidx' = hidx - 1
    /\ retrieve_command(Recall(hidx - 1))
    /\ UNCHANGED <<queue, running, atPrompt, reply, watches, toDir, fromDir,
                   dmode, nsent, consolePrompt, dialog, promptCb, lastCall,
                   nenq, nfail, input, history, nenter, nexec>>

(* Down key: cmd_history_down; index 0 clears the entry.                   *)
cmd_history_down ==
    /\ hidx # 0
    /\ hidx' = hidx + 1
    /\ retrieve_command(Recall(hidx + 1))
    /\ UNCHANGED <<queue, running, atPrompt, reply, watches, toDir, fromDir,
                   dmode, nsent, consolePrompt, dialog, promptCb, lastCall,
                   nenq, nfail, input, history, nenter, nexec>>

(* on_input_entry_key_press_event: Up or KP_Up, Down or KP_Down.           *)
on_input_entry_key_press_event == cmd_history_up \/ cmd_history_down

-----------------------------------------------------------------------------
Init ==
    /\ DC!Init
    /\ entry = "" /\ input = "" /\ history = <<>> /\ hidx = 0
    /\ nenter = 0 /\ nexec = 0

DirReply == DC!DirReply /\ UNCHANGED conVars

Handler ==
    \E w \in watches : (DC!RecvData(w) \/ DC!RecvSignal(w))
                        /\ UNCHANGED conVars

Next ==
    \/ \E t \in Texts : TypeLine(t)
    \/ on_input_activate
    \/ on_input_entry_key_press_event
    \/ DirReply
    \/ Handler

Spec == Init /\ [][Next]_vars /\ WF_vars(Handler) /\ WF_vars(DirReply)

-----------------------------------------------------------------------------
(* Every line the user activates is handed to Director.exec_cmd: the      *)
(* console never swallows an Enter, also when the line equals the previous *)
(* one (a command repeated with the Up key, the same answer to two         *)
(* prompts, two empty lines).                                              *)
EveryEnterExecuted == nexec = nenter
=============================================================================
