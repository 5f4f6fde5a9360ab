---------------------------- MODULE PromptDialog ----------------------------
(***************************************************************************)
(* The Director prompt dialog: Director.prompt (Models.py) parses the      *)
(* prompt into prompt_data; DirectorPromptController (Controllers.py)      *)
(* shows it through DirectorPromptView.update_options (Views.py), keeps    *)
(* the toggled option number in its attribute prompt_answer, and on OK     *)
(* sends it with Director.prompt_answer.  One controller lives as long as  *)
(* the console window, across all the prompts it shows.                    *)
(***************************************************************************)
EXTENDS Naturals, Sequences

CONSTANTS
    MaxOpt,       \* largest menu number in a prompt
    MaxPrompts,   \* bound on the prompts shown
    SpuriousNotify \* gtkmvc notifies an assignment of an unchanged value

VARIABLES
    promptMsg,    \* the prompt text last passed to Director.prompt
    shown,        \* the dialog window is visible
    options,      \* prompt_data's options, one radio button each
    active,       \* index in options of the active radio button
    promptAnswer, \* DirectorPromptController.prompt_answer
    sent,         \* answers sent by OK: [ans, seen] (seen: the active radio's number)
    nprompts

vars == <<promptMsg, shown, options, active, promptAnswer, sent, nprompts>>

PP == INSTANCE PromptParser WITH msg <- promptMsg

FirstOption == 1   \* the class attribute prompt_answer = '1'

(* DirectorPromptView.update_options: a new radio group whose first       *)
(* button starts active (no 'toggled' is emitted, the handler is connected *)
(* after the button is made).                                              *)
update_options(opts) == options' = opts /\ active' = 1

(* DirectorPromptController.property_prompt_data_change_notification:     *)
(* update the view, then view.show().  gtkmvc calls it when prompt_data   *)
(* changes, and for an equal value only if it delivers spurious changes.  *)
property_prompt_data_change_notification(old, new) ==
    IF old # new \/ SpuriousNotify
      THEN update_options(new.options) /\ shown' = TRUE
      ELSE UNCHANGED <<options, active, shown>>

(* Director.prompt(data): prompt_data = DirectorPromptParser().parse(data).*)
Prompt(m) ==
    /\ nprompts < MaxPrompts
    /\ PP!extract_options(m).options # <<>>
    /\ nprompts' = nprompts + 1
    /\ promptMsg' = m
    /\ property_prompt_data_change_notification(PP!extract_options(promptMsg),
                                                PP!extract_options(m))
    /\ UNCHANGED <<promptAnswer, sent>>

(* The user activates radio button k: 'toggled' reaches                     *)
(* on_selection_toggled for the old button (inactive, ignored) and for the *)
(* new one, which stores its number.                                       *)
on_selection_toggled(k) ==
    /\ shown /\ k \in DOMAIN options /\ k # active
    /\ active' = k
    /\ promptAnswer' = options[k].num
    /\ UNCHANGED <<promptMsg, shown, options, sent, nprompts>>

(* on_ok_button_clicked: hide and Director.prompt_answer(prompt_answer).  *)
on_ok_button_clicked ==
    /\ shown
    /\ shown' = FALSE
    /\ sent' = Append(sent, [ans |-> promptAnswer, seen |-> options[active].num])
    /\ UNCHANGED <<promptMsg, options, active, promptAnswer, nprompts>>

(* on_cancel_button_clicked: hide and Director.prompt_cancel().            *)
on_cancel_button_clicked ==
    /\ shown
    /\ shown' = FALSE
    /\ UNCHANGED <<promptMsg, options, active, promptAnswer, sent, nprompts>>

Init ==
    /\ promptMsg = <<>>
    /\ shown = FALSE
    /\ options = <<>>
    /\ active = 0
    /\ promptAnswer = FirstOption
    /\ sent = <<>>
    /\ nprompts = 0

Next ==
    \/ \E m \in PP!Messages : Prompt(m)
    \/ \E k \in 1..MaxOpt : on_selection_toggled(k)
    \/ on_ok_button_clicked
    \/ on_cancel_button_clicked

Spec == Init /\ [][Next]_vars

-----------------------------------------------------------------------------
(* "prompt_answer = '1' # First option always selected" (Controllers.py): *)
(* OK answers the option whose radio button the user sees active, the     *)
(* first one unless another was toggled in this prompt.                    *)
AnswerIsSelectedOption ==
    \A i \in DOMAIN sent : sent[i].ans = sent[i].seen
=============================================================================
