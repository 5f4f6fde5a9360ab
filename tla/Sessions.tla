------------------------------ MODULE Sessions ------------------------------
(***************************************************************************)
(* The life cycle of console sessions (pygtk-console.py Application,       *)
(* Models.py Login.authenticate, Console.__init__/post_init/disconnect,    *)
(* Director.__init__) over two DirectorConnection objects, one per login.  *)
(*                                                                         *)
(* DirectorConnection._command_queue is a class attribute that do_async    *)
(* and _process_pending_command mutate in place (insert, append, pop), so  *)
(* every connection object shares it; _running_command, _at_prompt and     *)
(* reply become instance attributes at their first assignment.  Disconnect *)
(* drops the Console's reference to its Director, but the Director is in   *)
(* reference cycles with its connection and collections and has __del__,  *)
(* which CPython 2 never collects: close() never sends "quit", the old     *)
(* socket stays open and its io watch stays registered.                    *)
(*                                                                         *)
(* A package carries the session whose objects own its callback (owner);   *)
(* the owner is not part of _cmd_sig.                                      *)
(*                                                                         *)
(* The Application around them: the config file read at start and written *)
(* at quit, the login screen (Login.load_config fills the class attribute  *)
(* Login.servers and the servers combobox), login_connected recording the  *)
(* server, and the console's panels, restored from the config by          *)
(* ConsoleController.registerView and saved to it on every change.         *)
(***************************************************************************)
EXTENDS Naturals, Sequences, Bags

CONSTANTS
    ListJobs,   \* "list jobs" (Director.update_jobs_list)
    Clients,    \* ".clients" (ClientCollection.__init__)
    GuiOn,      \* "gui on" (Console.__init__: director.gui_mode(True))
    Time,       \* "time" (Director.update)
    Messages,   \* ".messages" (Console.update_messages)
    Dot,        \* the "." cancel command
    MaxLogins,  \* logins in a run (1 or 2)
    MaxEnq,     \* bound on the timer's do_async calls
    Names       \* server names the user may type (model values)

None == "None"

(* The panels, in the order registerView restores them.                   *)
Panels   == <<"console", "stats", "messages", "log">>
PanelSet == {Panels[i] : i \in DOMAIN Panels}

(* Application.config as the program writes it: the [server_<name>]       *)
(* sections, [global] last, and the [global] show_<panel> options set so  *)
(* far (a function on the panels that have one).  [global] exists once a  *)
(* server was recorded.                                                    *)
Configs ==
    {c \in [servers : SUBSET Names, last : Names \cup {None},
            show : UNION {[S -> BOOLEAN] : S \in SUBSET PanelSet}] :
        /\ (c.last = None) <=> (c.servers = {})
        /\ c.last \in c.servers \cup {None}
        /\ c.servers = {} => DOMAIN c.show = {}}

VARIABLES
    queue,        \* DirectorConnection._command_queue, shared
    lastCall, nenq,
    consolePrompt, dialog, promptCb, nfail, \* fixed: no prompt, no failure
    running1, atPrompt1, reply1, watches1, toDir1, fromDir1, dmode1, nsent1,
    running2, atPrompt2, reply2, watches2, toDir2, fromDir2, dmode2, nsent2,
    session,      \* the login whose Console is shown, 0 at the login screen
    nlogin,       \* logins so far
    autoUpdate,   \* Console.auto_update of the console shown
    config,       \* Application.config
    saved,        \* the config file ~/.bacula-pygtk-console.cfg
    name,         \* Login.name, mirrored by the login view's name entry
    servers,      \* Login.servers, a class attribute (sorted: a bag)
    combo,        \* the login view's servers combobox (a bag)
    show,         \* Console.show_<panel>, mirrored by the toggle buttons
    ended         \* Application.quit has exited the process

c1vars == <<running1, atPrompt1, reply1, watches1, toDir1, fromDir1, dmode1,
            nsent1>>
c2vars == <<running2, atPrompt2, reply2, watches2, toDir2, fromDir2, dmode2,
            nsent2>>
uiVars == <<consolePrompt, dialog, promptCb, nfail>>
appVars == <<config, saved, name, servers, combo, show, ended>>
vars == <<queue, lastCall, nenq, uiVars, c1vars, c2vars, session, nlogin,
          autoUpdate, appVars>>

Cbs == {"_cb_update_jobs_list", "_cb_get_clients", "_time_update_cb",
        "_cb_update_messages"}

C1 == INSTANCE DirectorConnection
        WITH running <- running1, atPrompt <- atPrompt1, reply <- reply1,
             watches <- watches1, toDir <- toDir1, fromDir <- fromDir1,
             dmode <- dmode1, nsent <- nsent1,
             Background <- {}, ConsoleCmds <- {}, ConsoleAnswer <- Dot,
             Choice <- Dot, Cancel <- Dot, PromptingCmds <- {},
             RaisingCmds <- {}, MaxFailures <- 0,
             ExtraCmds <- {ListJobs, Clients, GuiOn, Time, Messages}, ExtraCbs <- Cbs
C2 == INSTANCE DirectorConnection
        WITH running <- running2, atPrompt <- atPrompt2, reply <- reply2,
             watches <- watches2, toDir <- toDir2, fromDir <- fromDir2,
             dmode <- dmode2, nsent <- nsent2,
             Background <- {}, ConsoleCmds <- {}, ConsoleAnswer <- Dot,
             Choice <- Dot, Cancel <- Dot, PromptingCmds <- {},
             RaisingCmds <- {}, MaxFailures <- 0,
             ExtraCmds <- {ListJobs, Clients, GuiOn, Time, Messages}, ExtraCbs <- Cbs

Pkg(cmd, cb, s) == [cmd |-> cmd, cb |-> cb, owner |-> s]

(* The fields of connection s that do_async touches, and their update.     *)
Link(s) == IF s = 1 THEN C1!Link ELSE C2!Link
AtPrompt(s) == IF s = 1 THEN atPrompt1 ELSE atPrompt2
SetLink(s, l) ==
    IF s = 1
      THEN C1!SetLink(l) /\ UNCHANGED <<running2, watches2, toDir2, nsent2>>
      ELSE C2!SetLink(l) /\ UNCHANGED <<running1, watches1, toDir1, nsent1>>

-----------------------------------------------------------------------------
(* Login.load_config, from LoginController.registerView on a new Login:   *)
(* [global] last gives the name, every server section's name is appended *)
(* to Login.servers, which is sorted, and servers_loaded = True, whose     *)
(* notification fills the new view's combobox with Login.servers.  With   *)
(* no [global] section, NoSectionError leaves the new Login's name empty  *)
(* and the combobox empty.                                                 *)
load_config ==
    IF config.last = None
      THEN /\ name' = "" /\ combo' = EmptyBag
           /\ UNCHANGED servers
      ELSE /\ name' = config.last
           /\ servers' = servers (+) SetToBag(config.servers)
           /\ combo' = servers'

(* Application._create_login: Login, LoginController and LoginView, whose  *)
(* registerView runs load_config and shows the dialog.                    *)
create_login == load_config

(* Application.login_connected: the server's section and [global] last.    *)
login_connected(n) ==
    [config EXCEPT !.servers = @ \cup {n}, !.last = n]

(* The index in Panels of the first panel with no show_<panel> option.     *)
FirstUnset(c) ==
    LET unset == {i \in DOMAIN Panels : Panels[i] \notin DOMAIN c.show}
    IN IF unset = {} THEN Len(Panels) + 1
       ELSE CHOOSE i \in unset : \A j \in unset : i <= j

(* ConsoleController.registerView on a new Console (all panels hidden):   *)
(* show_console, show_stats, show_messages and show_log from the config,  *)
(* in turn, until getboolean raises NoOptionError; a notification only    *)
(* writes back the value it read.                                         *)
registerView(c) ==
    [p \in PanelSet |-> \E i \in 1..(FirstUnset(c) - 1) :
                           Panels[i] = p /\ c.show[p]]

(* config.set('global', 'show_<panel>', v) in the show notification.      *)
SetShow(c, p, v) ==
    [c EXCEPT !.show = [x \in DOMAIN c.show \cup {p} |->
                           IF x = p THEN v ELSE c.show[x]]]

(* The user types a server name in the login dialog's name entry.          *)
TypeName(n) ==
    /\ session = 0 /\ name' = n
    /\ UNCHANGED <<queue, lastCall, nenq, uiVars, c1vars, c2vars, session,
                   nlogin, autoUpdate, config, saved, servers, combo, show,
                   ended>>

(* LoginController.on_combobox_servers_changed -> Login.select_server: the *)
(* chosen server's section fills the name (and host, password, port).      *)
on_combobox_servers_changed(n) ==
    /\ session = 0 /\ n \in BagToSet(combo) /\ name' = n
    /\ UNCHANGED <<queue, lastCall, nenq, uiVars, c1vars, c2vars, session,
                   nlogin, autoUpdate, config, saved, servers, combo, show,
                   ended>>

(* A show_<panel> assignment, from a toggle button or a hide button: the  *)
(* notification sets the button and the panel and saves the option.       *)
ShowPanel(p, v) ==
    /\ session # 0
    /\ show' = [show EXCEPT ![p] = v]
    /\ config' = IF v # show[p] THEN SetShow(config, p, v) ELSE config
    /\ UNCHANGED <<queue, lastCall, nenq, uiVars, c1vars, c2vars, session,
                   nlogin, autoUpdate, saved, name, servers, combo, ended>>

(* on_toggletoolbutton_<panel>_toggled: show_<panel> = the button's state. *)
on_toggletoolbutton_toggled(p) == ShowPanel(p, ~show[p])

(* on_<panel>_hide_button_clicked (the panel's own close button).          *)
on_hide_button_clicked(p) == show[p] /\ ShowPanel(p, FALSE)

(* Application.quit, from Login.quit or Console.quit (the quit buttons and *)
(* the windows' destroy events): _write_config, then the process exits.    *)
quit ==
    /\ saved' = config /\ ended' = TRUE
    /\ UNCHANGED <<queue, lastCall, nenq, uiVars, c1vars, c2vars, session,
                   nlogin, autoUpdate, config, name, servers, combo, show>>

-----------------------------------------------------------------------------
(* Director.__init__: update_jobs_list, then the collections; of them    *)
(* ClientCollection's ".clients" stands for the four listings.            *)
Director_init(l, prompt, s) ==
    C1!do_async(C1!do_async(l, prompt, Pkg(ListJobs, "_cb_update_jobs_list", s),
                            FALSE, FALSE),
                prompt, Pkg(Clients, "_cb_get_clients", s), FALSE, FALSE)

(* Console.__init__: Director(connection), then gui_mode(True).            *)
Console_init(l, prompt, s) ==
    C1!do_async(Director_init(l, prompt, s), prompt, Pkg(GuiOn, "none", s),
                FALSE, FALSE)

(* Console.post_init: auto_update on, the two timers started.             *)
post_init == autoUpdate' = TRUE

(* Login.authenticate, once the daemon accepted the credentials:          *)
(* Application.login_connected -> _create_console on the new connection    *)
(* object (whose _at_prompt is still the class's False), and the console   *)
(* controller's registerView -> post_init starts the timers.               *)
authenticate ==
    LET s == nlogin + 1 IN
    /\ SetLink(s, Console_init(Link(s), AtPrompt(s), s))
    /\ session' = s /\ nlogin' = s
    /\ post_init

(* LoginController.on_login_button_ok_clicked: the entries become the     *)
(* Login's data and authenticate connects (a name the daemon accepts),    *)
(* login_connected records the server, _destroy_login, and the new       *)
(* ConsoleController's registerView restores the panels.                   *)
on_login_button_ok_clicked ==
    /\ session = 0 /\ nlogin < MaxLogins /\ name \in Names
    /\ authenticate
    /\ config' = login_connected(name)
    /\ show' = registerView(config')
    /\ UNCHANGED <<lastCall, nenq, uiVars, atPrompt1, reply1, fromDir1, dmode1,
                   atPrompt2, reply2, fromDir2, dmode2, saved, name, servers,
                   combo, ended>>

(* The timers post_init starts, while the console is connected and        *)
(* auto-updating: the 20 s console_updater, Console.update ->              *)
(* Director.update ("time" with priority, then the jobs list), and the    *)
(* 10 s messages_updater, Console.update_messages -> get_messages.         *)
Director_update(l, prompt, s) ==
    C1!do_async(C1!do_async(l, prompt, Pkg(Time, "_time_update_cb", s),
                            TRUE, FALSE),
                prompt, Pkg(ListJobs, "_cb_update_jobs_list", s), FALSE, FALSE)
update_messages(l, prompt, s) ==
    C1!do_async(l, prompt, Pkg(Messages, "_cb_update_messages", s),
                FALSE, FALSE)

Update ==
    /\ session # 0 /\ autoUpdate /\ nenq < MaxEnq
    /\ nenq' = nenq + 1
    /\ \/ SetLink(session, Director_update(Link(session), AtPrompt(session),
                                           session))
       \/ SetLink(session, update_messages(Link(session), AtPrompt(session),
                                           session))
    /\ UNCHANGED <<lastCall, uiVars, atPrompt1, reply1, fromDir1, dmode1,
                   atPrompt2, reply2, fromDir2, dmode2, session, nlogin,
                   autoUpdate, appVars>>

(* ConsoleController.on_toggletoolbutton_auto_update_toggled: the button's *)
(* state becomes Console.auto_update (the notification only re-syncs the  *)
(* button).                                                                *)
on_toggletoolbutton_auto_update_toggled(b) ==
    /\ session # 0
    /\ autoUpdate' = b
    /\ UNCHANGED <<queue, lastCall, nenq, uiVars, c1vars, c2vars, session,
                   nlogin, appVars>>

(* Application.console_disconnected: _destroy_console drops the console  *)
(* and _create_login shows a new login screen.                             *)
console_disconnected == session' = 0 /\ create_login

(* Console.disconnect: the timers are removed and the Director dropped,    *)
(* then the Application is told.  The connection object, its socket and   *)
(* its io watch live on.                                                   *)
disconnect == console_disconnected

(* ConsoleController.on_toolbutton_disconnect_clicked.                     *)
on_toolbutton_disconnect_clicked ==
    /\ session # 0
    /\ disconnect
    /\ UNCHANGED <<queue, lastCall, nenq, uiVars, c1vars, c2vars, nlogin,
                   autoUpdate, config, saved, show, ended>>

(* The daemon of each connection, and _cb_async_read on each socket: the   *)
(* GLib main loop dispatches a ready watch whichever session it belongs to.*)
Conn1 ==
    /\ ~ended
    /\ \/ C1!DirReply
       \/ \E w \in watches1 :
              C1!RecvData(w) \/ C1!SignalStep(w, C1!Unwatched(w))
    /\ UNCHANGED <<c2vars, uiVars, session, nlogin, autoUpdate, appVars>>
Conn2 ==
    /\ ~ended
    /\ \/ C2!DirReply
       \/ \E w \in watches2 :
              C2!RecvData(w) \/ C2!SignalStep(w, C2!Unwatched(w))
    /\ UNCHANGED <<c1vars, uiVars, session, nlogin, autoUpdate, appVars>>

Init ==
    /\ queue = <<>> /\ lastCall = C1!NoCall /\ nenq = 0
    /\ consolePrompt = FALSE /\ dialog = "hidden" /\ promptCb = "none"
    /\ nfail = 0
    /\ running1 = FALSE /\ atPrompt1 = FALSE /\ reply1 = <<>>
    /\ watches1 = {} /\ toDir1 = <<>> /\ fromDir1 = <<>> /\ dmode1 = "idle"
    /\ nsent1 = 0
    /\ running2 = FALSE /\ atPrompt2 = FALSE /\ reply2 = <<>>
    /\ watches2 = {} /\ toDir2 = <<>> /\ fromDir2 = <<>> /\ dmode2 = "idle"
    /\ nsent2 = 0
    /\ session = 0 /\ nlogin = 0 /\ autoUpdate = FALSE
    \* Application.__init__: _load_config, then _create_login
    /\ config \in Configs /\ saved = config
    /\ servers = IF config.last = None THEN EmptyBag
                  ELSE SetToBag(config.servers)
    /\ name = IF config.last = None THEN "" ELSE config.last
    /\ combo = servers
    /\ show = [p \in PanelSet |-> FALSE]
    /\ ended = FALSE

(* Every user and timer step runs in the GLib main loop, which ends with  *)
(* the process.                                                            *)
Next ==
    \/ /\ ~ended
       /\ \/ \E n \in Names : TypeName(n)
          \/ \E n \in Names : on_combobox_servers_changed(n)
          \/ on_login_button_ok_clicked
          \/ Update
          \/ \E b \in BOOLEAN : on_toggletoolbutton_auto_update_toggled(b)
          \/ \E p \in PanelSet : on_toggletoolbutton_toggled(p)
          \/ \E p \in PanelSet : on_hide_button_clicked(p)
          \/ on_toolbutton_disconnect_clicked
          \/ quit
    \/ Conn1
    \/ Conn2

Spec == Init /\ [][Next]_vars /\ WF_vars(Conn1) /\ WF_vars(Conn2)

-----------------------------------------------------------------------------
(* The commands a connection has on the wire or awaits the reply of.       *)
OnSocket(s) ==
    LET to == IF s = 1 THEN toDir1 ELSE toDir2
        ws == IF s = 1 THEN watches1 ELSE watches2
    IN {to[i].pkg : i \in DOMAIN to} \cup {w.pkg : w \in ws}

(* Sessions are isolated: every command is sent on the connection of the  *)
(* login whose objects issued it, and its reply goes back to them, also   *)
(* after a disconnect and a new login.                                     *)
SessionIsolation == \A s \in 1..2 : \A p \in OnSocket(s) : p.owner = s
=============================================================================
