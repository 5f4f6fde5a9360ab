---------------------------- MODULE Collections ----------------------------
(***************************************************************************)
(* The start-up cascade of the Director model (Models.py): Director       *)
(* .__init__ sends "list jobs" and builds the Client, Storage, Job and     *)
(* Pool collections, each of which enqueues its listing command; the      *)
(* listing callbacks build one object per name, and every object enqueues *)
(* its ".defaults" query (a Client also its "status") from inside the io  *)
(* handler.  Job._cb_get_defaults looks its client and storage up in the  *)
(* collections, which only the ".clients" and ".storage" callbacks fill.  *)
(* Meanwhile the Console timer runs Director.update.  All of it goes      *)
(* through the DirectorConnection pipeline, instantiated below.           *)
(*                                                                         *)
(* A command is a tuple <<verb>> or <<verb, object name>>; a callback is  *)
(* named as the code names it (the signature uses callback.__name__).     *)
(***************************************************************************)
EXTENDS Naturals, Sequences, FiniteSets
LOCAL INSTANCE SequencesExt

CONSTANTS
    ClientList,   \* the ".clients" reply, in its order
    StorageList,  \* the ".storage" reply
    JobList,      \* the ".jobs" reply
    PoolList,     \* the ".pools" reply
    JobClient,    \* the client named by each job's ".defaults job=" reply
    JobStorage,   \* the storage named by each job's ".defaults job=" reply
    MaxUpdates,   \* bound on Console.update timer firings
    MaxClicks,    \* bound on clicks in the object browser
    SpuriousNotify \* gtkmvc notifies an assignment of an unchanged value

Clients  == {ClientList[i] : i \in DOMAIN ClientList}
Storages == {StorageList[i] : i \in DOMAIN StorageList}
Jobs     == {JobList[i] : i \in DOMAIN JobList}
Pools    == {PoolList[i] : i \in DOMAIN PoolList}

ASSUME /\ JobClient \in [Jobs -> Clients]
       /\ JobStorage \in [Jobs -> Storages]

(* The commands and callbacks of Director, the collections and entities.  *)
Pkg(verb, obj, cb) == [cmd |-> <<verb, obj>>, cb |-> cb]
ListJobs == [cmd |-> <<"list jobs">>, cb |-> "_cb_update_jobs_list"]
TimeCmd  == [cmd |-> <<"time">>, cb |-> "plain"]
GuiOn    == [cmd |-> <<"gui on">>, cb |-> "none"]
Listing(verb, cb) == [cmd |-> <<verb>>, cb |-> cb]

ListCmds == {<<"list jobs">>, <<"time">>, <<"gui on">>, <<".clients">>,
             <<".storage">>, <<".jobs">>, <<".pools">>}
ObjCmds ==
    {<<v, c>> : v \in {".defaults client", "status client"}, c \in Clients}
    \cup {<<v, s>> : v \in {".defaults storage", "status storage"}, s \in Storages}
    \cup {<<".defaults job", j>> : j \in Jobs}
    \cup {<<".defaults pool", p>> : p \in Pools}
CollCbs == {"_cb_get_clients", "_cb_get_storage", "_cb_get_jobs",
            "_cb_get_pools", "_cb_get_defaults", "_cb_update",
            "_cb_update_jobs_list"}

VARIABLES
    queue, running, atPrompt, reply, watches, toDir, fromDir, dmode, nsent,
    consolePrompt, dialog, promptCb, lastCall, nenq, nfail,
    clients,      \* ClientCollection keys
    storages,     \* StorageCollection keys
    jobs,         \* JobCollection keys
    pools,        \* PoolCollection keys
    defaulted,    \* objects whose _cb_get_defaults has run: <<kind, name>>
    keyErrors,    \* jobs whose _cb_get_defaults raised KeyError
    nupdates,     \* Console.update firings so far
    jobsDone,     \* Director.jobs_done: the jobs of the last "list jobs"
    clientJobs,   \* Client.jobs_done of each client built
    updated,      \* the kinds whose Director.<kind>list_updated is True
    browser,      \* the object browser's rows: <<kind, name>>
    pages,        \* the notebook's object pages: <<kind, label>>
    awaiting,     \* objects clicked, their status reply not yet handled
    nclicks       \* object browser clicks so far

browserVars == <<jobsDone, clientJobs, updated, browser, pages, awaiting,
                 nclicks>>
collVars == <<clients, storages, jobs, pools, defaulted, keyErrors, nupdates,
              browserVars>>
vars == <<queue, running, atPrompt, reply, watches, toDir, fromDir, dmode,
          nsent, consolePrompt, dialog, promptCb, lastCall, nenq, nfail,
          clients, storages, jobs, pools, defaulted, keyErrors, nupdates,
          jobsDone, clientJobs, updated, browser, pages, awaiting, nclicks>>

DC == INSTANCE DirectorConnection
        WITH Background <- {}, ConsoleCmds <- {}, ConsoleAnswer <- <<"1">>,
             Choice <- <<"1">>, Cancel <- <<".">>, PromptingCmds <- {},
             RaisingCmds <- {}, MaxEnq <- 0, MaxFailures <- 0,
             ExtraCmds <- ListCmds \cup ObjCmds, ExtraCbs <- CollCbs

(* Plain do_async calls (no priority, no answer) made one after the other, *)
(* with _at_prompt equal to prompt.                                        *)
RECURSIVE DoAsyncAll(_, _, _)
DoAsyncAll(l, prompt, pkgs) ==
    IF pkgs = <<>> THEN l
    ELSE DoAsyncAll(DC!do_async(l, prompt, Head(pkgs), FALSE, FALSE),
                    prompt, Tail(pkgs))

(* Client.__init__: get_defaults, then update (notice_cb None).            *)
NewClient(c) == <<Pkg(".defaults client", c, "_cb_get_defaults"),
                  Pkg("status client", c, "_cb_update")>>
(* Storage, Job and Pool __init__: get_defaults.                           *)
NewStorage(s) == <<Pkg(".defaults storage", s, "_cb_get_defaults")>>
NewJob(j)     == <<Pkg(".defaults job", j, "_cb_get_defaults")>>
NewPool(p)    == <<Pkg(".defaults pool", p, "_cb_get_defaults")>>

(* Console.__init__: Director.__init__ (update_jobs_list and the four      *)
(* collection constructors), then gui_mode(True).                          *)
(* The collection constructors: each asks for its listing.                *)
ClientCollection_init  == Listing(".clients", "_cb_get_clients")
StorageCollection_init == Listing(".storage", "_cb_get_storage")
JobCollection_init     == Listing(".jobs", "_cb_get_jobs")
PoolCollection_init    == Listing(".pools", "_cb_get_pools")

Startup ==
    <<ListJobs, ClientCollection_init, StorageCollection_init,
      JobCollection_init, PoolCollection_init, GuiOn>>

EmptyLink == [queue |-> <<>>, running |-> FALSE, watches |-> {},
              toDir |-> <<>>, nsent |-> 0]

-----------------------------------------------------------------------------
(* JobCollection.get_jobs_for_client: the jobs whose Job.client is this    *)
(* client, an attribute only a successful Job._cb_get_defaults sets.       *)
get_jobs_for_client(c) ==
    {j \in jobs : <<".defaults job", j>> \in defaulted /\ JobClient[j] = c}

(* Client.get_jobs_done: the entries of Director.jobs_done named after one *)
(* of those jobs.  Client._update_jobs_done stores it for the clients cs.  *)
get_jobs_done(c) == get_jobs_for_client(c) \cap jobsDone
update_jobs_done(cs) ==
    [c \in Clients |-> IF c \in cs THEN get_jobs_done(c) ELSE clientJobs[c]]

ClientStatus(c)  == Pkg("status client", c, "_cb_update")
StorageStatus(s) == Pkg("status storage", s, "_cb_update")

(* Director.<kind>list_updated = True and the notification it triggers in *)
(* DirectorObjectBrowserController (delete_<kind>s, then insert_<kind> for *)
(* each object of the collection); gtkmvc notifies only a changed value   *)
(* unless SpuriousNotify.                                                  *)
BrowserRows(k, names) ==
    {r \in browser : r[1] # k} \cup {<<k, n>> : n \in names}

\* Mutant: the flag set before the listing callback fills the dictionary.
list_updated_BeforeFill(k, names) ==
    /\ updated' = updated \cup {k}
    /\ browser' = IF k \notin updated \/ SpuriousNotify
                    THEN BrowserRows(k, {}) ELSE browser

list_updated(k, names) ==
    /\ updated' = updated \cup {k}
    /\ browser' = IF k \notin updated \/ SpuriousNotify
                    THEN BrowserRows(k, names) ELSE browser

-----------------------------------------------------------------------------
(* Console.update (the 20 s timer) -> Director.update: every client's and  *)
(* storage's update, "time" with priority, then update_jobs_list.  The     *)
(* dictionaries are iterated in an order fixed by their hashes; the list   *)
(* order stands for it.                                                    *)
InOrder(seq, set) == SelectSeq(seq, LAMBDA x : x \in set)

(* ClientCollection.update / Client.update: one "status client" each.      *)
ClientCollection_update ==
    LET cs == InOrder(ClientList, clients)
    IN [i \in DOMAIN cs |-> ClientStatus(cs[i])]

(* StorageCollection.update / Storage.update: one "status storage" each.   *)
StorageCollection_update ==
    LET ss == InOrder(StorageList, storages)
    IN [i \in DOMAIN ss |-> StorageStatus(ss[i])]

(* Each Client.update also recomputes its jobs_done, and the loop sets    *)
(* clientlist_updated once there is a client.                              *)
Director_update ==
    /\ nupdates < MaxUpdates
    /\ nupdates' = nupdates + 1
    /\ LET l1 == DoAsyncAll(DC!Link, atPrompt,
                   ClientCollection_update \o StorageCollection_update)
           l2 == DC!do_async(l1, atPrompt, TimeCmd, TRUE, FALSE)
       IN DC!SetLink(DC!do_async(l2, atPrompt, ListJobs, FALSE, FALSE))
    /\ clientJobs' = update_jobs_done(clients)
    /\ IF clients # {} THEN list_updated("client", clients)
                       ELSE UNCHANGED <<updated, browser>>
    /\ UNCHANGED <<atPrompt, reply, fromDir, dmode, consolePrompt, dialog,
                   promptCb, lastCall, nenq, nfail, clients, storages, jobs,
                   pools, defaulted, keyErrors, jobsDone, pages, awaiting,
                   nclicks>>

-----------------------------------------------------------------------------
(* The object browser and the notebook pages (Controllers.py).             *)

(* ConsoleView.add_page: a tab whose label is the name already exists:    *)
(* it is brought to the front; otherwise a new tab.                        *)
add_page(k, n) ==
    pages' = IF \E p \in pages : p[2] = n THEN pages ELSE pages \cup {<<k, n>>}

\* Mutant: show_client without its "client.update() # Force an update".
show_client_NoUpdate(l, c) ==
    /\ DC!SetLink(l)
    /\ add_page("client", c)
    /\ UNCHANGED clientJobs

(* ConsoleController.show_client: Client.update (jobs_done from the        *)
(* Director's list as it is now, and "status client"), then a new          *)
(* ClientPageController, whose view shows that jobs_done, in a page.       *)
show_client(l, c) ==
    /\ DC!SetLink(DC!do_async(l, atPrompt, ClientStatus(c), FALSE, FALSE))
    /\ add_page("client", c)
    /\ clientJobs' = update_jobs_done({c})

(* ConsoleController.show_storage: Storage.update, then a page.            *)
show_storage(s) ==
    /\ DC!SetLink(DC!do_async(DC!Link, atPrompt, StorageStatus(s), FALSE, FALSE))
    /\ add_page("storage", s)
    /\ UNCHANGED clientJobs

(* on_object_browser_button_press_event, left button: on a client          *)
(* update_jobs_list then show_client, on a storage show_storage.  (On a   *)
(* category, job or pool row it only expands or collapses the category,    *)
(* and the right button only pops up a menu: view changes.)                *)
on_object_browser_button_press_event(o) ==
    /\ nclicks < MaxClicks
    /\ o \in browser /\ o[1] \in {"client", "storage"}
    /\ nclicks' = nclicks + 1
    /\ awaiting' = awaiting \cup {o[2]}
    /\ IF o[1] = "client"
         THEN show_client(DC!do_async(DC!Link, atPrompt, ListJobs, FALSE, FALSE),
                          o[2])
         ELSE show_storage(o[2])
    /\ UNCHANGED <<atPrompt, reply, fromDir, dmode, consolePrompt, dialog,
                   promptCb, lastCall, nenq, nfail, clients, storages, jobs,
                   pools, defaulted, keyErrors, nupdates, jobsDone, updated,
                   browser>>

(* The close button of a tab: ConsoleView.remove_page.                     *)
remove_page(p) ==
    /\ pages' = pages \ {p}
    /\ UNCHANGED <<queue, running, atPrompt, reply, watches, toDir, fromDir,
                   dmode, nsent, consolePrompt, dialog, promptCb, lastCall,
                   nenq, nfail, clients, storages, jobs, pools, defaulted,
                   keyErrors, nupdates, jobsDone, clientJobs, updated, browser,
                   awaiting, nclicks>>

-----------------------------------------------------------------------------
(* _cb_async_read on the signal of a collection command.                   *)
Signalled(w) ==
    /\ w \in watches
    /\ fromDir # <<>> /\ Head(fromDir).kind \in {"eod", "prompt"}

Verb(w) == w.pkg.cmd[1]
Obj(w)  == w.pkg.cmd[2]

(* The listing callbacks: one object per name of the reply, each built     *)
(* (and its commands enqueued) inside the handler, in the reply's order;  *)
(* each Client.__init__ also runs _update_jobs_done.  Then the category's *)
(* list_updated flag.                                                      *)
cb_get_clients == FlattenSeq([i \in DOMAIN ClientList |-> NewClient(ClientList[i])])
cb_get_storage == FlattenSeq([i \in DOMAIN StorageList |-> NewStorage(StorageList[i])])
cb_get_jobs    == FlattenSeq([i \in DOMAIN JobList |-> NewJob(JobList[i])])
cb_get_pools   == FlattenSeq([i \in DOMAIN PoolList |-> NewPool(PoolList[i])])

cb_get_listing(w) ==
    LET v == Verb(w)
        k == CASE v = ".clients" -> "client"  [] v = ".storage" -> "storage"
               [] v = ".jobs"    -> "job"     [] OTHER          -> "pool"
        built == CASE k = "client"  -> cb_get_clients
                   [] k = "storage" -> cb_get_storage
                   [] k = "job"     -> cb_get_jobs
                   [] OTHER         -> cb_get_pools
        names == CASE k = "client"  -> Clients [] k = "storage" -> Storages
                   [] k = "job"     -> Jobs    [] OTHER         -> Pools
    IN
    /\ Signalled(w)
    /\ w.pkg.cb \in {"_cb_get_clients", "_cb_get_storage", "_cb_get_jobs",
                     "_cb_get_pools"}
    /\ DC!SignalStep(w, DoAsyncAll(DC!Unwatched(w), DC!Prompted, built))
    /\ clients'  = IF k = "client" THEN Clients ELSE clients
    /\ storages' = IF k = "storage" THEN Storages ELSE storages
    /\ jobs'     = IF k = "job" THEN Jobs ELSE jobs
    /\ pools'    = IF k = "pool" THEN Pools ELSE pools
    /\ clientJobs' = IF k = "client" THEN update_jobs_done(Clients) ELSE clientJobs
    /\ list_updated(k, names)
    /\ UNCHANGED <<consolePrompt, dialog, promptCb, defaulted, keyErrors,
                   nupdates, jobsDone, pages, awaiting, nclicks>>

(* Director._cb_update_jobs_list: jobs_done is the TableParser rows of the *)
(* reply (_running_jobs_updater then counts the running ones for the      *)
(* applet).  The catalog only grows: a reply lists the jobs of the last.   *)
cb_update_jobs_list(w) ==
    /\ Signalled(w)
    /\ w.pkg.cb = "_cb_update_jobs_list"
    /\ \E S \in SUBSET Jobs : jobsDone \subseteq S /\ jobsDone' = S
    /\ DC!SignalStep(w, DC!Unwatched(w))
    /\ UNCHANGED <<consolePrompt, dialog, promptCb, clients, storages, jobs,
                   pools, defaulted, keyErrors, nupdates, clientJobs, updated,
                   browser, pages, awaiting, nclicks>>

(* Job._cb_get_defaults: get_client and get_storage index the collections. *)
JobLookupOK(j) == JobClient[j] \in clients /\ JobStorage[j] \in storages

(* _cb_get_defaults of a client, storage, pool, or a job whose lookups     *)
(* succeed: the object's fields are set, no command is sent.               *)
cb_get_defaults(w) ==
    /\ Signalled(w)
    /\ w.pkg.cb = "_cb_get_defaults"
    /\ Verb(w) = ".defaults job" => JobLookupOK(Obj(w))
    /\ DC!SignalStep(w, DC!Unwatched(w))
    /\ defaulted' = defaulted \cup {<<Verb(w), Obj(w)>>}
    /\ UNCHANGED <<consolePrompt, dialog, promptCb, clients, storages, jobs,
                   pools, keyErrors, nupdates, browserVars>>

(* Client._cb_update and Storage._cb_update (status): online and version  *)
(* are set (the pages' controllers show them), and the notice callback,   *)
(* None here, is not called.                                               *)
cb_update(w) ==
    /\ Signalled(w)
    /\ w.pkg.cb = "_cb_update"
    /\ DC!SignalStep(w, DC!Unwatched(w))
    /\ awaiting' = awaiting \ {Obj(w)}
    /\ UNCHANGED <<consolePrompt, dialog, promptCb, clients, storages, jobs,
                   pools, defaulted, keyErrors, nupdates, jobsDone, clientJobs,
                   updated, browser, pages, nclicks>>

(* Job._cb_get_defaults raising KeyError: the handler is left before its  *)
(* end, PyGObject drops the watch.                                         *)
cb_job_defaults_raise(w) ==
    /\ Signalled(w)
    /\ w.pkg.cb = "_cb_get_defaults" /\ Verb(w) = ".defaults job"
    /\ ~JobLookupOK(Obj(w))
    /\ DC!SignalRaise(w)
    /\ keyErrors' = keyErrors \cup {Obj(w)}
    /\ UNCHANGED <<consolePrompt, dialog, promptCb, clients, storages, jobs,
                   pools, defaulted, nupdates, browserVars>>

-----------------------------------------------------------------------------
(* The state Console.__init__ leaves: "list jobs" on the wire, the four   *)
(* listings and "gui on" queued behind it.                                 *)
Init ==
    /\ LET l == DoAsyncAll(EmptyLink, FALSE, Startup) IN
       /\ queue = l.queue /\ running = l.running /\ watches = l.watches
       /\ toDir = l.toDir /\ nsent = l.nsent
    /\ atPrompt = FALSE /\ reply = <<>> /\ fromDir = <<>> /\ dmode = "idle"
    /\ consolePrompt = FALSE /\ dialog = "hidden" /\ promptCb = "none"
    /\ lastCall = DC!NoCall /\ nenq = 0 /\ nfail = 0
    /\ clients = {} /\ storages = {} /\ jobs = {} /\ pools = {}
    /\ defaulted = {} /\ keyErrors = {} /\ nupdates = 0
    /\ jobsDone = {} /\ clientJobs = [c \in Clients |-> {}]
    /\ updated = {} /\ browser = {} /\ pages = {} /\ awaiting = {}
    /\ nclicks = 0

Handler ==
    \E w \in watches :
        \/ DC!RecvData(w) /\ UNCHANGED collVars
        \/ DC!RecvSignal(w) /\ UNCHANGED collVars
        \/ cb_get_listing(w)
        \/ cb_update_jobs_list(w)
        \/ cb_get_defaults(w)
        \/ cb_update(w)
        \/ cb_job_defaults_raise(w)

(* The daemon answers the next command (DirectorConnection's daemon).     *)
DirReply == DC!DirReply /\ UNCHANGED collVars

Next ==
    \/ Director_update
    \/ \E o \in browser : on_object_browser_button_press_event(o)
    \/ \E p \in pages : remove_page(p)
    \/ DirReply
    \/ Handler

(* The GLib main loop dispatches ready watches and the daemon answers; the *)
(* timer and the user are under no obligation.                             *)
Spec == Init /\ [][Next]_vars /\ WF_vars(Handler) /\ WF_vars(DirReply)

-----------------------------------------------------------------------------
(* Properties.                                                             *)

(* Job._cb_get_defaults never finds its client or storage missing: the    *)
(* FIFO queue hands it the ".clients" and ".storage" replies first, though *)
(* the jobs' queries are enqueued from inside another callback and the    *)
(* timer's "time" jumps the queue.                                         *)
JobsFindTheirClient == keyErrors = {}

(* Every object the listing callbacks build eventually gets its defaults: *)
(* no ".defaults" query is discarded (at a prompt, or as a duplicate of   *)
(* another object's) or left in the queue.                                 *)
EveryObjectGetsDefaults ==
    /\ \A c \in Clients : (c \in clients) ~> (<<".defaults client", c>> \in defaulted)
    /\ \A s \in Storages : (s \in storages) ~> (<<".defaults storage", s>> \in defaulted)
    /\ \A j \in Jobs : (j \in jobs) ~> (<<".defaults job", j>> \in defaulted)
    /\ \A p \in Pools : (p \in pools) ~> (<<".defaults pool", p>> \in defaulted)

(* The object browser lists exactly the objects of every collection the    *)
(* Director has: each listing callback fills its dictionary before it sets *)
(* <kind>list_updated, whose notification (sent when the flag first turns *)
(* True, with gtkmvc's unchanged-value filter) is the only refresh of the  *)
(* category's rows, so a category filled after its flag stays empty.       *)
BrowserListsCollections ==
    browser = {<<"client", c>> : c \in clients}
              \cup {<<"storage", s>> : s \in storages}
              \cup {<<"job", j>> : j \in jobs} \cup {<<"pool", p>> : p \in pools}

(* A click on a client or a storage in the browser is eventually followed  *)
(* by a status reply for it: the query show_client or show_storage sends,  *)
(* or the one already queued with the same signature, for which do_async   *)
(* discards the new one, is answered and reaches _cb_update.               *)
ClickedObjectGetsStatus ==
    \A o \in Clients \cup Storages : (o \in awaiting) ~> (o \notin awaiting)
=============================================================================
