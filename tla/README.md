# TLA+ models of the Bacula pygtk console

This directory holds TLA+ models of the Python console in `src/src/pygtk-console/`.
The console is a GTK client for the Bacula Director. Every module is written from the
source, and `PROJECT.json` "map" names the lines each definition translates. The Director
daemon on the other side of the socket is not in this repository. Its behaviour is
modelled from `spec.md` §6, and those definitions are marked `spec_modelled`.

## 1. The system

| Component | Source | State | Operations |
|---|---|---|---|
| **DirectorConnection** (queue, dispatcher, reply accumulator, prompt flag) | `Models.py` 512-672 | `_command_queue` (a class attribute), `_running_command`, `_at_prompt`, `reply`, the gobject io watches | `do_async`, `_process_pending_command`, `_cb_async_read` (data, notice, signal, error) |
| **Director** model | `Models.py` 252-510 | prompt callback and data, `prompt_data`, `jobs_done`, the collections | `update`, `update_jobs_list`, `gui_mode`, `get_messages`, `exec_cmd`, `prompt`, `prompt_answer`, `prompt_cancel`, `do_full_restore`, `do_partial_restore` and their callbacks |
| **Console** model and controller | `Models.py` 133-249, `Controllers.py` 132-430 | `at_prompt`, `input`, `cmd_history` (a class attribute), `history_index`, `auto_update`, timers | `execute`, `update`, `update_messages`, `cmd_history_up/down`, `post_init`, `disconnect`; input, key-press, toolbar handlers |
| **Collections and entities** | `Models.py` 674-1084 | Client, Storage, Job and Pool dictionaries and fields, `Client.jobs_done` | the constructors' listings, `.defaults` and `status` queries and their callbacks, `Client.update` with `get_jobs_done` |
| **Object browser and pages** | `Controllers.py` 132-185, 647-753, `Views.py` 249-347, 680-809 | the browser's rows, the `*list_updated` flags, the notebook's object pages | the list-updated notifications, the browser click, `show_client`, `show_storage`, `add_page`, `remove_page` |
| **FileSelector** (partial restore) | `Models.py` 1086-1235, `Controllers.py` 755-948, `Views.py` 875-1229 | `active`, `allow_input`, `cwd_path`, `cwd_contents`, `_visited`, the directory tree store | `get_list`, `change_dir`, `mark` (chaining `estimate`), `search`, `cancel_operation`, `confirm_operation`, `expand_to_dir`, `update_dir_contents` |
| **Prompt dialog** | `Controllers.py` 434-466, `Views.py` 378-393 | `prompt_answer`, the radio buttons | prompt shown, `on_selection_toggled`, OK, Cancel |
| **Reply parsers** | `parsers/__init__.py` | the shared class dict `Parser.data` | pure `parse` functions |
| **Login and Application** | `Models.py` 50-131, `Controllers.py` 48-130, `pygtk-console.py` | the config, the servers list, the name entry, the current console, the panels' show options | `authenticate`, `login_connected`, `console_disconnected`, the combo box, `registerView`, the panel toggles, `quit` |

**How they interact.** Everything runs on the GTK main loop's single thread. The timers,
the collection constructors, the console, the prompt dialog and the file selector call
`do_async`. It sends the command at once or queues it. A sent command registers an io
watch, whose callback `_cb_async_read` reads one bnet message per call. On the final
signal it calls the command's parser and callback. It then either hands a prompt to
`Director.prompt` or cancels it with `.`, and releases the next queued command. Callbacks
enqueue further commands from inside the handler. Answers (`answer=True`) skip both the
prompt lock and the "one command running" test. gtkmvc model properties notify their
controllers synchronously when they are assigned. So an assignment inside a callback can
send a command, or change the view, before the callback returns.

## 2. The modules

**DirectorConnection.tla** models the connection, its callers and, from the spec, the
daemon.
- Variables:
  - `queue`, `running`, `atPrompt` and `reply` are the four fields of the connection;
  - `watches` holds the io watches;
  - `toDir` and `fromDir` are the two directions of the socket;
  - `dmode` is the daemon's state;
  - `consolePrompt`, `dialog` and `promptCb` are the console and dialog state.
- `do_async` is a pure operator over a link record. Several calls made inside one handler
  therefore compose, including the `_process_pending_command` each call ends with.
- Actions:
  - `RecvData`, `RecvSignal`, `RecvError` and `RecvSignalRaise` are the branches of
    `_cb_async_read`.
  - `RecvSignal` is one step. It covers the callback's effect, the automatic `.` (itself a
    full `do_async`), the buffer reset and the release of the next command.
  - `BackgroundCmd`, `ConsoleExecute`, `DialogAnswer` and `DialogCancel` are the callers.
    MCDirectorConnection names the background callers after the code: `update_jobs_list`,
    `update_time`, `gui_mode`, `get_messages` and `do_full_restore`.
  - `DirReply` and `TransportFailure` model the daemon and are spec-modelled.
- `FaultySpec` adds the raising parser or callback and the receive error.

**HalfDuplex.tla** is the abstract pipeline of spec 3, 4.3-4.4 and 5: pending requests,
one request in flight and a prompt flag. DirectorConnection implements it under a
refinement mapping, and `HalfDuplexSpec` is checked as a PROPERTY.

**Console.tla** composes the input entry and its controller with the pipeline:
`on_input_activate` (with `reset_prompt`), the input notification, `execute`,
`on_input_entry_key_press_event` → `cmd_history_up/down` → `retrieve_command`.

**PromptParser.tla** and **PromptDialog.tla**:
- `extract_options` is a RECURSIVE operator over lines, each abstracted to its menu number
  and "select" word, and checked against the spec's reference.
- The dialog: `Prompt` (`Director.prompt` plus `property_prompt_data_change_notification`
  plus `update_options`), the radio toggle, OK and Cancel.

**PartialRestore.tla** composes the selector, its controller handlers and callbacks, and
the tree-mode daemon with the pipeline. A restore the Director refuses shows the notice
window (`show_info`), which the user closes. The daemon keeps a current directory and a
mark set; `.dir` returns the current directory's files with their marks, which
`_cb_get_list` stores in `cwd_contents` and whose notification rebuilds the file list.
A check-box toggle sends `mark`/`unmark` and flips the box at once (`update_mark`); a
mark of a file outside the daemon's directory matches nothing. After a `mark` the
selector chains `estimate`: the daemon's reply carries the number of files and of marked
files, `EstimateParser` reads it into `last_estimation`, and `_cb_estimate` gives input
back. The file-count bar (`update_estimation`) shows that ratio.

**DirTree.tla** models the selector's directory tree on its own. A path string is a
sequence of tokens (`"/"` and names), so `split('/')`, `'/'.join` and concatenation are
modelled by what they do. A tree-store row is its columns 0 and 1, its parent and whether
it is live.
- `expand_to_dir` and its child loop are RECURSIVE operators that return the new store.
- `update_dir_contents` is modelled with `_search`.
- The actions are:
  - the three double-click or click handlers;
  - `_cb_change_dir`, with the `cwd_path` notification that expands the tree and sends
    `.dir`;
  - `_cb_get_list`, with the `cwd_contents` notification, the `_visited` cache, and the
    TypeError of `get_value(None, 0)`.

**Collections.tla** covers the start-up cascade:
- the four listings and the object constructors enqueued from inside the listing
  callbacks;
- the `.defaults` callbacks, including `Job._cb_get_defaults`' lookups;
- the Console timer's `Director.update`, and `update_jobs_list` with `_cb_update_jobs_list`;
- the object browser: each listing callback sets its `<kind>list_updated` flag, whose
  notification (the constant `SpuriousNotify` says whether the gtkmvc build notifies an unchanged value; gtkmvc is not in this repository; `collections` checks the filtering build, where a row refresh needs the flag to change) replaces the
  category's rows;
- a left click on a client (`update_jobs_list`, then `show_client`: `Client.update`, which
  recomputes `jobs_done` with `get_jobs_done` and sends `status`, and `add_page`) or on a
  storage (`show_storage`), and the tab's close button (`remove_page`). `add_page` reuses a
  tab with the same label.
- The Director's job catalogue only grows, so a `list jobs` reply lists at least the jobs
  of the previous one. `awaiting` is an observation variable: the clicked objects whose
  status reply has not been handled since the click.

**TableParser.tla** models `TableParser.parse` as an operator. Its `list.remove` inside a
`for` loop is a RECURSIVE operator, checked against the spec's reference.

**Sessions.tla** has two DirectorConnection instances, one per login.
- They share one `queue` variable, because `_command_queue` is a class attribute mutated in
  place. Each instance has its own running flag, watches and socket.
- Actions: `on_login_button_ok_clicked` → `authenticate` (`_create_console`, Director and
  Console start-up, `post_init`), the two timers, the auto-update toggle,
  `on_toolbutton_disconnect_clicked` → `disconnect` → `console_disconnected`, and each connection's handler.
- The Director of a closed session is never collected: it is in reference cycles and has
  `__del__`, which CPython 2 does not collect. So its socket and watch live on.
- The Application's life cycle: the config read at start-up (`servers`, `last`, the panels'
  show options), the login screen (`Login.__init__`, whose class list `servers` is a bag,
  since the combo box shows it sorted), typing a name or picking one in the combo box,
  `login_connected` (the new server and `last` written to the config), `registerView`'s
  restore of the panels, the toolbar toggles and hide buttons, and `quit`, which saves the
  config.

## 3. Runs

| Run | Result | What it shows |
|---|---|---|
| `connection` | pass, 34,394 states | With the timers, console and dialog enqueuing, the connection keeps these properties: `MutualExclusion`, `ReplyIntegrity`, `DaemonReadsOnlyAnswersAtPrompt`, `QueueDrains` and `TransmittedAreHandled`. It also refines `HalfDuplex`. |
| `connection_faults_wedge` | violation of `QueueDrains` | A raising parser or callback, or a receive error, leaves `_running_command` set. Nothing queued is ever sent again, and no continuation hears of the failure (spec 4.1, 5, 7). |
| `prompt_parser_two_digit` | violation | With the greedy regex, menu entry 12 is read as 2. |
| `prompt_dialog_stale_answer` | violation | OK on a new prompt sends the option toggled in an earlier one. |
| `partial_restore` | pass, 148,755 states | A patient user's selector commands never overlap. Each callback gets its own reply, the busy cursor matches the outstanding commands, tree commands reach the daemon only in tree mode, and whenever input is allowed the file list's check boxes are exactly the daemon's marks in its current directory (`FileListShowsMarks`). The estimate shown agrees with the daemon's marks (`EstimateShowsMarks`), and a busy selector always becomes ready again (`SelectorEventuallyReady`). |
| `partial_restore_double_click` | violation | A file-list double click during a `cd` puts a second command on the socket. |
| `partial_restore_cancel_while_busy` | violation | Cancel during a `cd`: the late reply sends `.dir` after `quit`. |
| `collections` | pass, 57,002 states | Jobs find their client and storage. Every object built gets its defaults. The browser's rows are the collections' objects. Every clicked client or storage gets a status reply after the click. |
| `table_parser_preamble` | violation | Informational lines before a table yield a row without keys. |
| `console_repeat_swallowed` | violation | Conditional on the gtkmvc build: if it drops notifications of an unchanged value (`SpuriousNotify = FALSE`), Enter on a line equal to the last one, or the first Enter on an empty line since `input` starts as `''`, does nothing. gtkmvc is not in this repository; the many `old != new` tests in the handlers suggest the version the code was written against did deliver such notifications, in which case the finding does not apply. |
| `sessions_shared_queue` | violation | After a disconnect and a new login, the new socket carries the old session's commands. TLC finds it in 4 steps from some of the 325 start-up configs, with two server names. |
| `dir_tree_search_jump` | violation | A search-result double click adds tree rows whose column 0 is not their full path, so clicking them changes to another directory. |

**Bounds, and why they are enough.**
- `MaxEnq = 5` in `connection` allows a queued command behind a running one, a priority
  jump, a console prompt and its answer, a dialog answer that prompts again followed by
  the automatic cancel, and a rejected duplicate.
- `MaxFailures = 1`: after one error the stream stays in error.
- `MaxOpt = 13` is the size of the Director's restore menu.
- `MaxEnq = 10` in `partial_restore` allows restore, cd, `.dir`, two toggles of a file,
  an estimate, and done or quit, alongside a background command. Two files, one in each
  of the two directories, make a toggle of a file outside the daemon's directory possible.
- Two logins are enough for sessions to share the queue.
- `collections` has two clients, one storage, two jobs and one pool, one timer firing and one
  click. A click can then come while the constructor's `status` query is still queued, so
  the duplicate test discards the click's own query, or after that query was answered.
- `DirTree` uses the directories `/`, `/a/`, `/a/b/` and an empty `/c/`, with 4 clicks.
  That is two levels, so a relative remainder appears, and a sibling, so the child loop
  runs past a non-matching row.

**Fairness.** A ready io watch is dispatched by the GLib main loop, hence
`WF(Handler)`. The daemon answers every command it reads (spec 6), hence `WF(DirReply)`
(in `PartialRestore`, `WF(DirReplyTree)`). `SelectorEventuallyReady` needs only these two:
every selector command is answered and its callback runs.
Users and timers have no fairness. Deadlock is not checked where the client really idles
in the main loop once the callers' budget is spent.

**Mutants.** Every property of a passing run has a mutant: a plausible bug in the mapped
code under which TLC finds the property violated. The mutants:
- the notice filter dropped;
- the `not _running_command` test dropped;
- the next command released at a prompt;
- no automatic `.`;
- no io watch registered;
- `_running_command` kept after the signal;
- `on_filelist_toggled` without its `allow_input` test;
- `update_mark` not flipping the check box;
- `cancel_operation` not hiding the selector;
- `_cb_estimate` not restoring `allow_input`;
- `EstimateParser` with the total and marked counts swapped;
- `_cb_search` not restoring `allow_input`;
- a LIFO queue;
- a duplicate test that compares callbacks only;
- the `list_updated` flag set before the listing callback fills its dictionary;
- `show_client` without its `client.update()`.

## 4. Not modelled

- Widget layout, icons, status bar and text buffers in `Views.py`. They hold no protocol
  state. The panels' show/hide toggles are modelled only as the show options they save.
- Config-file I/O (the file itself), host, port and password, and bnet authentication
  (external C code). No crash or restart of the Application is modelled, so the loss of
  every config change when the process dies before `quit` is listed as a hazard only.
  Two defects of `Sessions` are in its state space but no run checks them. `Login.servers` is a class
  list that every new `Login` extends again, so the server combo box repeats entries after
  a disconnect. `registerView` stops restoring panels at the first missing option.
- `show_info` is set True on a refused restore and never reset, so a second refusal in
  the same session shows no notice. `PartialRestore` models one restore per session.
- `PartialRestore` marks files only; directories in the file list are not modelled.
- `FileSelectorController.on_estimate_button_clicked` calls `model.estimate()`, which
  does not exist. The AttributeError makes the button do nothing.
- The status and defaults regex parsers are modelled only by whether they raise.
  `Parser.data` is a class dict shared by every parser, but each callback reads it
  synchronously, so the sharing is not observable.
- Two stale views are not checked. Both are listed as hazards.
  - A client page's job list comes from `Client.update`. That runs before the `list jobs`
    of the same click is answered, and `_cb_update_jobs_list` never recomputes it. So the
    page shows the list from before the click. The model has the state for this, and the
    property fails.
  - The client status panel refreshes only when `clientlist_updated` changes. That flag
    turns True once, before any status reply. `Client.online` is reply data and is not
    modelled.
- `DirTree` answers the selector's commands one at a time. It leaves the pipeline to
  `PartialRestore`, and it does not model the `find` that fills the search results: any
  directory may be a result.
