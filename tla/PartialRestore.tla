--------------------------- MODULE PartialRestore ---------------------------
(***************************************************************************)
(* A partial restore session: Director.do_partial_restore and its         *)
(* callback, the FileSelector model and the FileSelectorController        *)
(* handlers that drive it (Models.py, Controllers.py), composed with the   *)
(* command pipeline of DirectorConnection.  The restore command puts the   *)
(* daemon in tree mode, where it waits at a "$" prompt; every command the  *)
(* selector sends is an answer (priority=True, answer=True), so it skips   *)
(* both the prompt lock and the "one command running" test of             *)
(* _process_pending_command.  The selector's own interlock is allow_input, *)
(* cleared when a command is sent and set again by its callback.          *)
(*                                                                         *)
(* The daemon (not in this repository) is modelled from spec 4.2 and 6:   *)
(* dmode "ask" is a restore question, "tree" the file selection prompt,   *)
(* where it keeps a current directory and the set of marked files; a      *)
(* ".dir" reply carries the listing of its current directory and an      *)
(* "estimate" reply the number of files and of marked files.  Files are   *)
(* leaves of the directories in Dirs; marking a directory (recursive at   *)
(* the daemon) is left out.                                                *)
(***************************************************************************)
EXTENDS Naturals, Sequences, FiniteSets

CONSTANTS
    Background,   \* packages the timers enqueue meanwhile: [pkg, priority]
    Choice,       \* the option number the prompt dialog sends
    Cancel,       \* "."
    RestoreCmd,   \* "restore client=... select current yes"
    DotDir,       \* ".dir"
    Dirs,         \* "cd <dir>", one command per directory
    Mark,         \* "mark <file>"
    Estimate,     \* "estimate"
    Find,         \* "find <term>"
    Done,         \* "done"
    Quit,         \* "quit"
    MaxEnq,       \* bound on do_async calls made by the user and timers
    PatientUser,  \* the user waits for the busy cursor before any click
    Files,        \* the files of the backup
    FileDir       \* the directory of Dirs each file is in

ASSUME FileDir \in [Files -> Dirs]

NoPath == "None"   \* FileSelector.cwd_path before the first cd
Root   == "/"      \* the daemon's directory once the tree is built

(* "mark <file>" (restore TRUE) or "unmark <file>".                        *)
MarkCmd(f, restore) == <<Mark, f, restore>>
MarkCmds == {MarkCmd(f, r) : f \in Files, r \in BOOLEAN}

TreeCmds == {DotDir, Estimate, Find, Done, Quit} \cup Dirs \cup MarkCmds

(* A listing, as GetDirContentParser returns it: each file of a directory *)
(* with its "marked" flag (the "*" the daemon prints).  None is a value   *)
(* no listing equals.                                                      *)
FilesIn(d)   == {f \in Files : FileDir[f] = d}
NoListing    == [x \in {NoPath} |-> FALSE]
EmptyListing == [f \in {} |-> FALSE]
(* An estimate: the counts EstimateParser reads ("<total> total files;    *)
(* <marked> marked to be restored; <bytes> bytes"); the bytes are left   *)
(* out.  None is the value before the first estimate.                      *)
NoEstimate == [none |-> TRUE]
SelCbs   == {"partial", "list", "cd", "mark", "estimate", "search"}

VARIABLES
    queue, running, atPrompt, reply, watches, toDir, fromDir, dmode, nsent,
    consolePrompt, dialog, promptCb, lastCall, nenq, nfail,
    active,       \* FileSelector.active (the selection window is shown)
    allowInput,   \* FileSelector.allow_input
    cwd,          \* FileSelector.cwd_path
    started,      \* do_partial_restore has been called
    info,         \* the DirectorNoticeView window is shown
    contents,     \* FileSelector.cwd_contents (NoListing: None)
    fileList,     \* FileSelectorView.list_model: file -> check box (column 8)
    dcwd,         \* daemon: the tree's current directory
    dmarked,      \* daemon: the files marked for restore
    estimation    \* FileSelector.last_estimation (NoEstimate: None)

listVars == <<contents, fileList, dcwd, dmarked, estimation>>
selVars  == <<active, allowInput, cwd, started, info, listVars>>
vars == <<queue, running, atPrompt, reply, watches, toDir, fromDir, dmode,
          nsent, consolePrompt, dialog, promptCb, lastCall, nenq, nfail,
          active, allowInput, cwd, started, info, contents, fileList,
          dcwd, dmarked, estimation>>

DC == INSTANCE DirectorConnection
        WITH ConsoleCmds <- {}, ConsoleAnswer <- Cancel,
             PromptingCmds <- {RestoreCmd}, RaisingCmds <- {},
             MaxFailures <- 0,
             ExtraCmds <- TreeCmds \cup {RestoreCmd}, ExtraCbs <- SelCbs

-----------------------------------------------------------------------------
(* The daemon reads the next line and writes a data message and a signal. *)
(* A data message is abstracted to what the parsers look for in it.       *)
Outcomes(m) ==
    CASE dmode = "tree" /\ m.pkg.cmd \in {Done, Quit}
            -> {<<"text", "eod", "idle">>}
      [] dmode = "tree" /\ m.pkg.cmd \in Dirs
            -> {<<"cwd", "prompt", "tree">>, <<"invalid", "prompt", "tree">>}
      \* a name is looked up in the current directory only
      [] dmode = "tree" /\ m.pkg.cmd \in MarkCmds
            -> IF FileDir[m.pkg.cmd[2]] = dcwd
                 THEN {<<"count", "prompt", "tree">>}
                 ELSE {<<"nomatch", "prompt", "tree">>}
      [] dmode = "tree" /\ m.pkg.cmd = Estimate
            -> {<<"estimate", "prompt", "tree">>}
      \* a listing, find results, or "Invalid command" for any other line
      [] dmode = "tree"
            -> {<<"text", "prompt", "tree">>}
      [] dmode = "ask" /\ m.pkg.cmd = Cancel
            -> {<<"text", "eod", "idle">>}
      \* the restore command or the answer to one of its questions: the
      \* tree is built ("cwd is: /"), another question, or an error
      [] dmode = "ask" \/ m.pkg.cmd = RestoreCmd
            -> {<<"cwd", "prompt", "tree">>, <<"text", "prompt", "ask">>,
                <<"text", "eod", "idle">>}
      [] OTHER
            -> {<<"text", "eod", "idle">>}

(* The daemon's tree after the reply: "cwd is:" after a cd moves it, the  *)
(* tree built by the restore starts at "/" with nothing marked, and a     *)
(* mark or unmark that found its file changes the mark set.                *)
TreeAfter(m, tag) ==
    LET f == m.pkg.cmd[2] IN
    CASE tag = "cwd" /\ m.pkg.cmd \in Dirs
            -> [cwd |-> m.pkg.cmd, marked |-> dmarked]
      [] tag = "cwd"
            -> [cwd |-> Root, marked |-> {}]
      [] tag = "count" /\ m.pkg.cmd[3]
            -> [cwd |-> dcwd, marked |-> dmarked \cup {f}]
      [] tag = "count"
            -> [cwd |-> dcwd, marked |-> dmarked \ {f}]
      [] OTHER
            -> [cwd |-> dcwd, marked |-> dmarked]

(* The listing a ".dir" in tree mode writes: the current directory's files *)
(* with their marks as they are when the daemon answers.                   *)
ListingNow(m) ==
    IF dmode = "tree" /\ m.pkg.cmd = DotDir
      THEN [f \in FilesIn(dcwd) |-> f \in dmarked] ELSE NoListing

(* The counts an "estimate" in tree mode writes: all files of the tree    *)
(* and the marked ones.                                                    *)
EstimateNow(m) ==
    IF dmode = "tree" /\ m.pkg.cmd = Estimate
      THEN [total |-> Cardinality(Files), marked |-> Cardinality(dmarked)]
      ELSE NoEstimate

DirReplyTree ==
    /\ toDir # <<>>
    /\ LET m == Head(toDir) IN
       \E o \in Outcomes(m) :
          /\ toDir' = Tail(toDir)
          /\ fromDir' = fromDir \o
                <<[kind |-> "data", id |-> m.id, tag |-> o[1],
                   ls |-> ListingNow(m), est |-> EstimateNow(m)],
                  [kind |-> o[2], id |-> m.id, tag |-> "text",
                   ls |-> NoListing, est |-> NoEstimate]>>
          /\ dmode' = o[3]
          /\ dcwd' = TreeAfter(m, o[1]).cwd
          /\ dmarked' = TreeAfter(m, o[1]).marked
    /\ UNCHANGED <<queue, running, atPrompt, reply, watches, nsent,
                   consolePrompt, dialog, promptCb, lastCall, nenq, nfail,
                   active, allowInput, cwd, started, info, contents, fileList,
                   estimation>>

-----------------------------------------------------------------------------
(* User actions.                                                           *)

(* Director.do_partial_restore: the restore command, no priority, with   *)
(* _cb_do_partial_restore and the selector as its data.                   *)
do_partial_restore ==
    DC!CallAsync([cmd |-> RestoreCmd, cb |-> "partial"], FALSE, FALSE)

(* DirectorObjectBrowserController.on_restore_some_files_activate on a     *)
(* client: a new FileSelector (with its controller and hidden view), and   *)
(* do_partial_restore.  One partial restore per run.                      *)
on_restore_some_files_activate ==
    /\ ~started
    /\ started' = TRUE
    /\ do_partial_restore
    /\ UNCHANGED <<consolePrompt, dialog, promptCb, active, allowInput, cwd,
                   info, listVars>>

(* FileSelector methods send through Director._execute with priority and  *)
(* answer set.                                                             *)
SelectorCall(c, cb) == DC!CallAsync([cmd |-> c, cb |-> cb], TRUE, TRUE)

(* The handlers without an allow_input test are used only while the      *)
(* cursor is not busy when the user is patient.                            *)
Patient == allowInput \/ ~PatientUser

change_dir(d) ==
    /\ allowInput' = FALSE
    /\ SelectorCall(d, "cd")
    /\ UNCHANGED <<consolePrompt, dialog, promptCb, active, cwd, started, info,
                   listVars>>

(* on_directory_tree_button_press_event: tests allow_input.                *)
on_directory_tree_button_press_event(d) ==
    /\ active /\ allowInput
    /\ change_dir(d)

(* on_file_list_button_press_event (double click on a directory): no test. *)
on_file_list_button_press_event(d) ==
    /\ active /\ Patient
    /\ change_dir(d)

(* FileSelector.mark(filename, restore): allow_input cleared, "mark" or   *)
(* "unmark" of the file sent with priority as an answer.                   *)
mark(f, restore) ==
    /\ allowInput' = FALSE
    /\ SelectorCall(MarkCmd(f, restore), "mark")
    /\ UNCHANGED <<consolePrompt, dialog, promptCb, active, cwd, started, info,
                   contents, dcwd, dmarked, estimation>>

\* Mutant: the toggle handler leaves the check box as it was.
update_mark_Skipped(f, marked) == fileList

(* FileSelectorView.update_mark: column 8 of the file's row.               *)
update_mark(f, marked) == [fileList EXCEPT ![f] = marked]

\* Mutant: on_filelist_toggled without its allow_input test.
on_filelist_toggled_NoCheck(f) ==
    /\ active /\ f \in DOMAIN fileList
    /\ mark(f, ~fileList[f])
    /\ fileList' = update_mark(f, ~fileList[f])

(* on_filelist_toggled on the row of file f (get_filename_from_path): if  *)
(* input is allowed, mark it when its box was clear and unmark it when it *)
(* was set, then update_mark flips the box at once, before the daemon has  *)
(* answered.                                                               *)
on_filelist_toggled(f) ==
    /\ active /\ allowInput /\ f \in DOMAIN fileList
    /\ mark(f, ~fileList[f])
    /\ fileList' = update_mark(f, ~fileList[f])

(* FileSelector.search.                                                    *)
search ==
    /\ allowInput' = FALSE
    /\ SelectorCall(Find, "search")
    /\ UNCHANGED <<consolePrompt, dialog, promptCb, active, cwd, started, info,
                   listVars>>

\* Mutant: cancel_operation leaves the selector active.
cancel_operation_KeepsActive ==
    /\ SelectorCall(Quit, "none")
    /\ UNCHANGED <<consolePrompt, dialog, promptCb, selVars>>

(* FileSelector.cancel_operation: the window hides and "quit" is sent     *)
(* (reset only clears the listing cache).                                  *)
cancel_operation ==
    /\ active' = FALSE
    /\ SelectorCall(Quit, "none")
    /\ UNCHANGED <<consolePrompt, dialog, promptCb, allowInput, cwd, started,
                   info, listVars>>

(* FileSelector.confirm_operation: hide, send "done".                    *)
confirm_operation ==
    /\ active' = FALSE
    /\ SelectorCall(Done, "none")
    /\ UNCHANGED <<consolePrompt, dialog, promptCb, allowInput, cwd, started,
                   info, listVars>>

(* FileSelectorController.on_cancel_button_clicked, and the window's      *)
(* delete event: cancel_operation, without an allow_input test.            *)
on_cancel_button_clicked == active /\ Patient /\ cancel_operation

(* on_restore_button_clicked: confirm_operation, no allow_input test.      *)
on_restore_button_clicked == active /\ Patient /\ confirm_operation

(* on_search_button_clicked and on_search_entry_activate -> _search: a    *)
(* non-empty search term goes to search, without an allow_input test.     *)
on_search_button_clicked == active /\ Patient /\ search

-----------------------------------------------------------------------------
(* _cb_async_read on a signal for a selector command: the parser, the     *)
(* callback (with the change notifications it triggers and the commands   *)
(* it sends from inside the handler), then the rest of the handler.       *)

(* What the parsers find in the reply text read so far.                    *)
ReplyTags == {reply[i].tag : i \in DOMAIN reply}

Signalled(w) ==
    /\ w \in watches
    /\ fromDir # <<>> /\ Head(fromDir).kind \in {"eod", "prompt"}

(* ChangeDirParser raises (no "cwd is:" to take .groups() of) unless the   *)
(* reply says "Invalid path given"; MarkFileParser raises without its      *)
(* "N files ..." count; EstimateParser without its three fields.           *)
Raises(cb, tags) ==
    \/ cb = "cd" /\ "invalid" \notin tags /\ "cwd" \notin tags
    \/ cb = "mark" /\ "count" \notin tags
    \/ cb = "estimate" /\ "estimate" \notin tags

SelectorRaise(w) ==
    /\ Signalled(w)
    /\ w.pkg.cb \in SelCbs /\ Raises(w.pkg.cb, ReplyTags)
    /\ DC!SignalRaise(w)
    /\ UNCHANGED <<consolePrompt, dialog, promptCb, selVars>>

(* PartialRestoreParser: None when the file selection is ready.            *)
FileSelectionReady(tags) == "cwd" \in tags

(* The error branch of _cb_do_partial_restore: show_info_data and        *)
(* show_info = True, whose notification (DirectorNoticeController) fills  *)
(* and shows the notice window.                                            *)
show_info == info' = TRUE

(* DirectorNoticeController.on_close_button_clicked and the window's      *)
(* delete event hide the notice.                                           *)
on_close_button_clicked ==
    /\ info /\ info' = FALSE
    /\ UNCHANGED <<queue, running, atPrompt, reply, watches, toDir, fromDir,
                   dmode, nsent, consolePrompt, dialog, promptCb, lastCall,
                   nenq, nfail, active, allowInput, cwd, started, listVars>>

(* _cb_do_partial_restore: at the tree prompt (parsed reply None)         *)
(* selector.active = True, whose notification resets and shows the window; *)
(* another prompt goes to Director.prompt with this callback; returns     *)
(* at_prompt.                                                              *)
cb_do_partial_restore(w) ==
    /\ Signalled(w) /\ w.pkg.cb = "partial"
    /\ IF FileSelectionReady(ReplyTags) \/ reply = <<>>
         THEN active' = TRUE /\ UNCHANGED <<dialog, promptCb, info>>
       ELSE IF DC!Prompted
         THEN DC!DirectorPrompt("partial") /\ UNCHANGED <<active, info>>
       ELSE show_info /\ UNCHANGED <<active, dialog, promptCb>>
    /\ DC!SignalStep(w, DC!Unwatched(w))
    /\ UNCHANGED <<consolePrompt, allowInput, cwd, started, listVars>>

(* FileSelector.get_list: ".dir" through _execute, with priority, as an  *)
(* answer, and allow_input cleared.                                        *)
get_list(l) ==
    DC!do_async(l, DC!Prompted, [cmd |-> DotDir, cb |-> "list"], TRUE, TRUE)

(* FileSelectorController.property_cwd_path_change_notification: a new    *)
(* path, while input is allowed, calls get_list (from inside the handler  *)
(* whose callback assigned cwd_path).                                      *)
CwdChanged(path) == path # NoPath /\ path # cwd
property_cwd_path_change_notification(l, path) ==
    IF CwdChanged(path) THEN get_list(l) ELSE l

(* _cb_change_dir: allow_input = True; a parsed path becomes cwd_path,     *)
(* whose notification may call get_list, which clears allow_input again.  *)
cb_change_dir(w) ==
    /\ Signalled(w) /\ w.pkg.cb = "cd"
    /\ ~Raises("cd", ReplyTags)
    /\ LET path == IF "invalid" \in ReplyTags THEN NoPath ELSE w.pkg.cmd
       IN /\ cwd' = IF path # NoPath THEN path ELSE cwd
          /\ allowInput' = ~CwdChanged(path)
          /\ DC!SignalStep(w, property_cwd_path_change_notification(
                                 DC!Unwatched(w), path))
    /\ UNCHANGED <<consolePrompt, dialog, promptCb, active, started, info,
                   listVars>>

(* GetDirContentParser: the listing in the reply read, or [] when no     *)
(* line of it has the listing's form (it skips such lines).               *)
ListingOf(r) ==
    LET ls == {r[i].ls : i \in DOMAIN r} \ {NoListing}
    IN IF ls = {} THEN EmptyListing ELSE CHOOSE x \in ls : TRUE

(* FileSelectorView.update_filelist_contents: the list is cleared and     *)
(* filled with the listing's rows, column 8 from afile['marked'].          *)
update_filelist_contents(new) == new

(* FileSelectorController.property_cwd_contents_change_notification, for  *)
(* the file list: a listing different from the previous one, with input   *)
(* allowed, refills the list (the tree part is DirTree's).                 *)
property_cwd_contents_change_notification(new) ==
    IF new # contents /\ allowInput'
      THEN update_filelist_contents(new) ELSE fileList

(* _cb_get_list: allow_input = True, then cwd_contents = the listing,      *)
(* whose notification refills the file list.                               *)
cb_get_list(w) ==
    /\ Signalled(w) /\ w.pkg.cb = "list"
    /\ allowInput' = TRUE
    /\ contents' = ListingOf(reply)
    /\ fileList' = property_cwd_contents_change_notification(ListingOf(reply))
    /\ DC!SignalStep(w, DC!Unwatched(w))
    /\ UNCHANGED <<consolePrompt, dialog, promptCb, active, cwd, started, info,
                   dcwd, dmarked, estimation>>

(* _cb_mark: stores the count and sends "estimate"; allow_input stays     *)
(* cleared until the estimate arrives.                                     *)
cb_mark(w) ==
    /\ Signalled(w) /\ w.pkg.cb = "mark"
    /\ ~Raises("mark", ReplyTags)
    /\ DC!SignalStep(w, DC!do_async(DC!Unwatched(w), DC!Prompted,
                                    [cmd |-> Estimate, cb |-> "estimate"],
                                    TRUE, TRUE))
    /\ UNCHANGED <<consolePrompt, dialog, promptCb, selVars>>

\* Mutant: _cb_estimate without "self.allow_input = True".
cb_estimate_KeepsBusy(w) ==
    /\ Signalled(w) /\ w.pkg.cb = "estimate"
    /\ ~Raises("estimate", ReplyTags)
    /\ DC!SignalStep(w, DC!Unwatched(w))
    /\ UNCHANGED <<consolePrompt, dialog, promptCb, selVars>>

\* Mutant: EstimateParser reads the two counts into each other's key.
EstimateParser_Swapped(r) ==
    LET e == CHOOSE x \in {r[i].est : i \in DOMAIN r} : x # NoEstimate
    IN [total |-> e.marked, marked |-> e.total]

(* EstimateParser.parse: the reply split at ';', the leading integer of    *)
(* each part (the callback runs only when the three parts are there).      *)
EstimateParser(r) ==
    LET e == CHOOSE x \in {r[i].est : i \in DOMAIN r} : x # NoEstimate
    IN [total |-> e.total, marked |-> e.marked]

(* _cb_estimate: allow_input = True, last_estimation = the parsed reply,  *)
(* whose notification draws the file-count bar (update_estimation).        *)
cb_estimate(w) ==
    /\ Signalled(w) /\ w.pkg.cb = "estimate"
    /\ ~Raises("estimate", ReplyTags)
    /\ allowInput' = TRUE
    /\ estimation' = EstimateParser(reply)
    /\ DC!SignalStep(w, DC!Unwatched(w))
    /\ UNCHANGED <<consolePrompt, dialog, promptCb, active, cwd, started, info,
                   contents, fileList, dcwd, dmarked>>

\* Mutant: _cb_search without "self.allow_input = True".
cb_search_KeepsBusy(w) ==
    /\ Signalled(w) /\ w.pkg.cb = "search"
    /\ DC!SignalStep(w, DC!Unwatched(w))
    /\ UNCHANGED <<consolePrompt, dialog, promptCb, selVars>>

(* _cb_search: allow_input = True (search_result is DirTree's).            *)
cb_search(w) ==
    /\ Signalled(w) /\ w.pkg.cb = "search"
    /\ allowInput' = TRUE
    /\ DC!SignalStep(w, DC!Unwatched(w))
    /\ UNCHANGED <<consolePrompt, dialog, promptCb, active, cwd, started, info,
                   listVars>>

-----------------------------------------------------------------------------
Init ==
    /\ DC!Init
    /\ active = FALSE
    /\ allowInput = TRUE
    /\ cwd = NoPath
    /\ started = FALSE
    /\ info = FALSE
    /\ contents = NoListing
    /\ fileList = EmptyListing
    /\ dcwd = Root
    /\ dmarked = {}
    /\ estimation = NoEstimate

Handler ==
    \E w \in watches :
        \/ DC!RecvData(w) /\ UNCHANGED selVars
        \/ DC!RecvSignal(w) /\ UNCHANGED selVars
        \/ SelectorRaise(w)
        \/ cb_do_partial_restore(w)
        \/ cb_change_dir(w)
        \/ cb_get_list(w)
        \/ cb_mark(w)
        \/ cb_estimate(w)
        \/ cb_search(w)

Next ==
    \/ \E b \in Background : DC!BackgroundCmd(b) /\ UNCHANGED selVars
    \/ on_restore_some_files_activate
    \/ (DC!DialogAnswer \/ DC!DialogCancel) /\ UNCHANGED selVars
    \/ \E d \in Dirs : on_directory_tree_button_press_event(d)
    \/ \E d \in Dirs : on_file_list_button_press_event(d)
    \/ \E f \in Files : on_filelist_toggled(f)
    \/ on_search_button_clicked
    \/ on_cancel_button_clicked
    \/ on_restore_button_clicked
    \/ on_close_button_clicked
    \/ DirReplyTree
    \/ Handler

(* The GLib main loop dispatches ready watches and the daemon answers;    *)
(* the user is under no obligation.                                        *)
Spec == Init /\ [][Next]_vars /\ WF_vars(Handler) /\ WF_vars(DirReplyTree)

-----------------------------------------------------------------------------
(* Properties.                                                             *)

(* The selector's interlock keeps the connection half duplex: its answer  *)
(* commands, sent past the running test, never overlap another command.   *)
MutualExclusion == DC!MutualExclusion

(* Each callback, the selector's included, gets its own command's reply.  *)
ReplyIntegrity == DC!ReplyIntegrity

(* The daemon reads the selector's commands (cd, .dir, mark, estimate,    *)
(* find, done, quit) only in tree mode: none is left to arrive after the  *)
(* session was ended by "done" or "quit".                                  *)
TreeCommandsOnlyInTreeMode ==
    [][toDir # <<>> /\ toDir' = Tail(toDir) /\ Head(toDir).pkg.cmd \in TreeCmds
         => dmode = "tree"]_vars

(* A selector command not yet answered: transmitted with its watch still  *)
(* registered, or queued.                                                  *)
SelectorPending ==
    \/ \E w \in watches : w.pkg.cb \in SelCbs \ {"partial"}
    \/ \E i \in DOMAIN queue : queue[i].cb \in SelCbs \ {"partial"}

(* While the window is shown, the busy cursor (allow_input False) is up   *)
(* exactly while a selector command is outstanding: every command clears  *)
(* allow_input and the callbacks set it again only when no follow-up       *)
(* (the .dir after a cd, the estimate after a mark) is still to come.     *)
BusyCursorMatchesPending == active => (allowInput <=> ~SelectorPending)

(* While the window is shown and the cursor is not busy, the file list    *)
(* shows the daemon's current directory and every check box is the        *)
(* daemon's mark for its file.  The toggle handler flips the box before    *)
(* the daemon has answered, _cb_get_list refills the list only with a     *)
(* listing different from the last one, and the daemon looks names up in  *)
(* its own current directory: across cd, .dir, mark and estimate replies  *)
(* these never leave a box that the restore will not honour.               *)
FileListShowsMarks ==
    active /\ allowInput => fileList = [f \in FilesIn(dcwd) |-> f \in dmarked]

(* FileSelectorView.update_estimation: the file-count bar's fraction,     *)
(* marked / total, as the pair it is computed from.                        *)
update_estimation(marked, total) == <<marked, total>>

(* While the window is shown and the cursor is not busy, the file-count   *)
(* bar, once drawn, is the share of the tree the daemon will restore.  It  *)
(* is drawn from the estimate _cb_mark sends from inside its callback,     *)
(* after the mark it follows was applied, and through EstimateParser's     *)
(* reading of the reply; a later cd or .dir must not leave it stale.       *)
EstimateShowsMarks ==
    active /\ allowInput /\ estimation # NoEstimate =>
        LET bar == update_estimation(estimation.marked, estimation.total)
        IN bar[1] * Cardinality(Files) = Cardinality(dmarked) * bar[2]

(* Whenever the window is shown with the busy cursor up, the cursor is    *)
(* eventually cleared: every command the selector sends, and every        *)
(* follow-up a callback sends from inside the handler (the .dir after a    *)
(* cd, the estimate after a mark), is answered and its callback sets       *)
(* allow_input again.  Only the main loop and the daemon are assumed fair. *)
SelectorEventuallyReady == active /\ ~allowInput ~> allowInput
=============================================================================
