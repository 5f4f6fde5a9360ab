------------------------ MODULE MCDirectorConnection ------------------------
(* Model values for the commands of DirectorConnection, and the packages   *)
(* the Director's wrappers enqueue in the background.                      *)
EXTENDS DirectorConnection

CONSTANTS ListJobs, Time, GuiOn, Messages, Restore, Run, Ans, One, Dot

(* Director.update_jobs_list: "list jobs" with the TableParser.             *)
update_jobs_list ==
    [pkg |-> [cmd |-> ListJobs, cb |-> "plain"], priority |-> FALSE]

(* Director.update: "time" with priority (the collections' status queries *)
(* are those of the Collections module).                                   *)
update_time == [pkg |-> [cmd |-> Time, cb |-> "plain"], priority |-> TRUE]

(* Director.gui_mode(True), from Console.__init__: _execute('gui on', None).*)
gui_mode == [pkg |-> [cmd |-> GuiOn, cb |-> "none"], priority |-> FALSE]

(* The 10 s messages_updater: Console.update_messages, while connected and *)
(* auto-updating, calls Director.get_messages(_cb_update_messages).         *)
get_messages ==
    [pkg |-> [cmd |-> Messages, cb |-> "plain"], priority |-> FALSE]

(* DirectorObjectBrowserController.on_restore_all_files_activate ->        *)
(* Director.do_full_restore: the restore command, whose reply may be a     *)
(* prompt that _cb_do_full_restore leaves to the dialog.                   *)
do_full_restore ==
    [pkg |-> [cmd |-> Restore, cb |-> "plain"], priority |-> FALSE]

MCBackground ==
    {update_jobs_list, update_time, gui_mode, get_messages, do_full_restore}
=============================================================================
