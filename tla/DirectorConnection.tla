------------------------- MODULE DirectorConnection -------------------------
(***************************************************************************)
(* The command pipeline of the pygtk console (src/.../Models.py):          *)
(* DirectorConnection (do_async, _process_pending_command, _cb_async_read) *)
(* together with the Director daemon at the other end of the socket and    *)
(* the callers in the same file that issue commands: the periodic          *)
(* updaters and collections (background), the text Console and the         *)
(* Director prompt dialog.                                                 *)
(*                                                                         *)
(* A command package is the code's [command, callback, parser, data]; two  *)
(* packages with the same signature (_cmd_sig) are the same record here.  *)
(* Callbacks are abstracted to what the dispatcher sees of them:           *)
(*   "none"    no callback (gui on, prompt_cancel, the automatic ".")      *)
(*   "plain"   returns None, e.g. _cb_update_jobs_list, _cb_do_full_restore*)
(*   "console" Console._cb_execute, which returns at_prompt                *)
(***************************************************************************)
EXTENDS Naturals, Sequences, FiniteSets

CONSTANTS
    Background,     \* packages the updaters/collections enqueue: [pkg, priority]
    ConsoleCmds,    \* commands typed in the console when not at a prompt
    ConsoleAnswer,  \* a line typed in the console while at a prompt
    Choice,         \* the option number the prompt dialog sends
    Cancel,         \* the "." command that aborts a prompt
    PromptingCmds,  \* commands whose reply the daemon may end with BNET_PROMPT
    RaisingCmds,    \* commands whose parser or callback may raise on a reply
    MaxEnq,         \* bound on do_async calls made by callers
    MaxFailures,    \* bound on transport failures (0 or 1)
    ExtraCmds,      \* commands of callers composed with this module
    ExtraCbs        \* their callbacks

CbKinds == {"none", "plain", "console"} \cup ExtraCbs
Cmds    == {b.pkg.cmd : b \in Background} \cup ConsoleCmds
                \cup {ConsoleAnswer, Choice, Cancel} \cup ExtraCmds
Package == [cmd : Cmds, cb : CbKinds]

ASSUME /\ Background \subseteq [pkg : Package, priority : BOOLEAN]
       /\ PromptingCmds \subseteq Cmds /\ RaisingCmds \subseteq Cmds
       /\ MaxEnq \in Nat /\ MaxFailures \in Nat

VARIABLES
    queue,          \* _command_queue: Seq of packages
    running,        \* _running_command
    atPrompt,       \* _at_prompt
    reply,          \* reply: chunks accumulated since the last signal
    watches,        \* gobject io watches on the socket: [id, pkg]
    toDir,          \* commands on the wire to the daemon: [id, pkg, ans]
    fromDir,        \* bnet messages on the wire from the daemon: [kind, id, tag]
    dmode,          \* daemon: "idle" or "prompt" (waiting for an answer)
    nsent,          \* number of commands transmitted (gives each an id)
    consolePrompt,  \* Console.at_prompt
    dialog,         \* Director prompt dialog: "hidden" or "shown"
    promptCb,       \* Director.prompt_callback used by prompt_answer
    lastCall,       \* the latest callback invocation: [id, got]
    nenq,           \* do_async calls made by callers so far
    nfail           \* transport failures so far

vars == <<queue, running, atPrompt, reply, watches, toDir, fromDir, dmode,
          nsent, consolePrompt, dialog, promptCb, lastCall, nenq, nfail>>

(* What the parsers tell apart in a reply's text: ordinary text, a         *)
(* "cwd is: ..." line, "Invalid path given", and a mark that matched no    *)
(* file, the mark count and the estimate line.                            *)
Tags  == {"text", "cwd", "invalid", "nomatch", "count", "estimate"}
Chunk == [kind : {"data", "notice", "eod", "prompt", "error"}, id : Nat,
          tag : Tags]
NoCall == [id |-> 0, got |-> <<>>]

-----------------------------------------------------------------------------
(* The socket is dead once the daemon's stream has reported an error.      *)
Dead == \E i \in DOMAIN fromDir : fromDir[i].kind = "error"

(* The fields do_async and _process_pending_command touch, as one record  *)
(* so that calls made one after the other inside a handler compose.       *)
Link == [queue |-> queue, running |-> running, watches |-> watches,
         toDir |-> toDir, nsent |-> nsent]

SetLink(l) ==
    /\ queue' = l.queue /\ running' = l.running /\ watches' = l.watches
    /\ toDir' = l.toDir /\ nsent' = l.nsent

\* Mutant: _cmd_sig built from the callback alone, without the command.
Accepted_SigCbOnly(l, prompt, p, answer) ==
    /\ ~prompt \/ answer
    /\ \A i \in DOMAIN l.queue : l.queue[i].cb # p.cb

(* Equal _cmd_sig: the same command and callback name (the parser's class *)
(* and the data follow from the command here); a package may carry more   *)
(* than its signature, such as the object whose method the callback is.   *)
SameSig(a, b) == a.cmd = b.cmd /\ a.cb = b.cb

(* do_async's two reasons to discard a package (Models.py 556-566), with  *)
(* prompt the current value of _at_prompt.                                 *)
Accepted(l, prompt, p, answer) ==
    /\ ~prompt \/ answer
    /\ \A i \in DOMAIN l.queue : ~SameSig(l.queue[i], p)

\* Mutant: every package inserted at the head (a stack, not a queue).
Enqueued_Lifo(q, p, priority, answer) == <<p>> \o q

(* do_async's insert(0) for priority commands and answers, append else.   *)
Enqueued(q, p, priority, answer) ==
    IF priority \/ answer THEN <<p>> \o q ELSE Append(q, p)

\* Mutant: io_add_watch forgotten, the reply is never read.
Transmit_NoWatch(l, answer) ==
    [l EXCEPT !.queue = Tail(@), !.running = TRUE, !.nsent = @ + 1,
              !.toDir = Append(@, [id |-> l.nsent + 1, pkg |-> Head(l.queue),
                                   ans |-> answer])]

(* The body of _process_pending_command: pop the head, watch the socket   *)
(* for its reply, and send it.                                             *)
Transmit(l, answer) ==
    LET id == l.nsent + 1 IN
    [l EXCEPT !.queue   = Tail(@),
              !.running = TRUE,
              !.watches = @ \cup {[id |-> id, pkg |-> Head(l.queue)]},
              !.toDir   = Append(@, [id |-> id, pkg |-> Head(l.queue),
                                     ans |-> answer]),
              !.nsent   = id]

\* Mutant: _process_pending_command without "not self._running_command".
MayTransmit_IgnoresRunning(running_, answer) == TRUE

MayTransmit(running_, answer) == ~running_ \/ answer

process_pending_command(l, answer) ==
    IF MayTransmit(l.running, answer) /\ l.queue # <<>>
      THEN Transmit(l, answer) ELSE l

(* do_async(command, callback, priority, answer): discard, or enqueue and  *)
(* end with _process_pending_command(answer).                              *)
do_async(l, prompt, p, priority, answer) ==
    IF Accepted(l, prompt, p, answer)
      THEN process_pending_command(
             [l EXCEPT !.queue = Enqueued(@, p, priority, answer)], answer)
      ELSE l

(* A caller's do_async, outside any io handler.                            *)
CallAsync(p, priority, answer) ==
    /\ nenq < MaxEnq
    /\ nenq' = nenq + 1
    /\ SetLink(do_async(Link, atPrompt, p, priority, answer))
    /\ UNCHANGED <<atPrompt, reply, fromDir, dmode, lastCall, nfail>>

-----------------------------------------------------------------------------
(* Callers.                                                                *)

(* Director.update / update_jobs_list / get_messages / gui_mode and the    *)
(* collection constructors, fired by timers or at start-up.                *)
BackgroundCmd(b) ==
    /\ CallAsync(b.pkg, b.priority, FALSE)
    /\ UNCHANGED <<consolePrompt, dialog, promptCb>>

(* Console.execute: sends with priority, as an answer iff the console      *)
(* believes it is at a prompt, then clears that belief.                    *)
ConsoleExecute(c) ==
    /\ ~Dead
    /\ c \in IF consolePrompt THEN {ConsoleAnswer} ELSE ConsoleCmds
    /\ CallAsync([cmd |-> c, cb |-> "console"], TRUE, consolePrompt)
    /\ consolePrompt' = FALSE
    /\ UNCHANGED <<dialog, promptCb>>

(* DirectorPromptController.on_ok_button_clicked -> Director.prompt_answer *)
DialogAnswer ==
    /\ dialog = "shown"
    /\ CallAsync([cmd |-> Choice, cb |-> promptCb], TRUE, TRUE)
    /\ dialog' = "hidden"
    /\ UNCHANGED <<consolePrompt, promptCb>>

(* on_cancel_button_clicked -> Director.prompt_cancel                      *)
DialogCancel ==
    /\ dialog = "shown"
    /\ CallAsync([cmd |-> Cancel, cb |-> "none"], TRUE, TRUE)
    /\ dialog' = "hidden"
    /\ UNCHANGED <<consolePrompt, promptCb>>

-----------------------------------------------------------------------------
(* The daemon reads the next command line and writes its whole reply:      *)
(* a data message, possibly the "You have messages." notice, and a signal. *)
(* A line read while it waits at a prompt is taken as the answer.           *)
DirReply ==
    /\ toDir # <<>>
    /\ ~Dead
    /\ LET m == Head(toDir)
           canPrompt == m.pkg.cmd # Cancel
                        /\ (m.pkg.cmd \in PromptingCmds \/ dmode = "prompt")
           Msg(k) == [kind |-> k, id |-> m.id, tag |-> "text"]
       IN \E sig \in IF canPrompt THEN {"eod", "prompt"} ELSE {"eod"},
             notice \in BOOLEAN :
            /\ toDir' = Tail(toDir)
            /\ fromDir' = fromDir \o <<Msg("data")>> \o
                  (IF notice THEN <<Msg("notice")>> ELSE <<>>) \o <<Msg(sig)>>
            /\ dmode' = IF sig = "prompt" THEN "prompt" ELSE "idle"
    /\ UNCHANGED <<queue, running, atPrompt, reply, watches, nsent,
                   consolePrompt, dialog, promptCb, lastCall, nenq, nfail>>

(* The connection breaks: from now on bnet_recv returns an error.          *)
TransportFailure ==
    /\ nfail < MaxFailures
    /\ nfail' = nfail + 1
    /\ fromDir' = Append(fromDir, [kind |-> "error", id |-> 0, tag |-> "text"])
    /\ UNCHANGED <<queue, running, atPrompt, reply, watches, toDir, dmode,
                   nsent, consolePrompt, dialog, promptCb, lastCall, nenq>>

-----------------------------------------------------------------------------
(* _cb_async_read: an io watch fires and reads one bnet message.           *)

\* Mutant: the "You have messages." comparison dropped.
RecvData_KeepsNotice(w) ==
    /\ w \in watches
    /\ fromDir # <<>> /\ Head(fromDir).kind \in {"data", "notice"}
    /\ reply' = Append(reply, Head(fromDir))
    /\ fromDir' = Tail(fromDir)
    /\ UNCHANGED <<queue, running, atPrompt, watches, toDir, dmode, nsent,
                   consolePrompt, dialog, promptCb, lastCall, nenq, nfail>>

(* stat >= 0: keep the text unless it is the messages notice.              *)
RecvData(w) ==
    /\ w \in watches
    /\ fromDir # <<>> /\ Head(fromDir).kind \in {"data", "notice"}
    /\ reply' = IF Head(fromDir).kind = "notice" THEN reply
                ELSE Append(reply, Head(fromDir))
    /\ fromDir' = Tail(fromDir)
    /\ UNCHANGED <<queue, running, atPrompt, watches, toDir, dmode, nsent,
                   consolePrompt, dialog, promptCb, lastCall, nenq, nfail>>

(* stat < 0 and not a signal: the watch is dropped, nothing else happens.  *)
RecvError(w) ==
    /\ w \in watches
    /\ fromDir # <<>> /\ Head(fromDir).kind = "error"
    /\ watches' = watches \ {w}
    /\ UNCHANGED <<queue, running, atPrompt, reply, toDir, fromDir, dmode,
                   nsent, consolePrompt, dialog, promptCb, lastCall, nenq,
                   nfail>>

(* The signal at the head of the stream ends the reply as a prompt.        *)
Prompted == Head(fromDir).kind = "prompt"

(* BNET_SIGNAL, and the parser or callback raises: the exception leaves    *)
(* the handler after _at_prompt is set; PyGObject drops the watch.         *)
SignalRaise(w) ==
    /\ w \in watches
    /\ fromDir # <<>> /\ Head(fromDir).kind \in {"eod", "prompt"}
    /\ w.pkg.cb # "none"
    /\ atPrompt' = Prompted
    /\ fromDir' = Tail(fromDir)
    /\ watches' = watches \ {w}
    /\ UNCHANGED <<queue, running, reply, toDir, dmode, nsent, lastCall,
                   nenq, nfail>>

RecvSignalRaise(w) ==
    /\ w.pkg.cmd \in RaisingCmds
    /\ SignalRaise(w)
    /\ UNCHANGED <<consolePrompt, dialog, promptCb>>

(* After the callback: a prompt of a command without callback is cancelled *)
(* with "." ("elif self._at_prompt"), and only a final reply releases the *)
(* next queued command ("if not self._at_prompt").                         *)
\* Mutant: the next command released whatever the signal was.
ReleasesNext_AlsoAtPrompt(prompt) == TRUE
\* Mutant: no automatic "." for a prompt nobody will answer.
AutoCancels_Never(cb, prompt) == FALSE
AutoCancels(cb, prompt) == cb = "none" /\ prompt
ReleasesNext(prompt) == ~prompt

CancelPkg == [cmd |-> Cancel, cb |-> "none"]

(* The rest of the handler once the callback has run and left the link l: *)
(* do_async(".") for an unanswered prompt, the release of the next         *)
(* command after a final reply.                                            *)
\* Mutant: _running_command left set after a final reply.
SignalEnd_KeepsRunning(l, cb, prompt) ==
    LET l2 == IF AutoCancels(cb, prompt)
                THEN do_async(l, prompt, CancelPkg, FALSE, TRUE) ELSE l
    IN IF ReleasesNext(prompt) THEN process_pending_command(l2, FALSE) ELSE l2

SignalEnd(l, cb, prompt) ==
    LET l2 == IF AutoCancels(cb, prompt)
                THEN do_async(l, prompt, CancelPkg, FALSE, TRUE) ELSE l
    IN IF ReleasesNext(prompt)
         THEN process_pending_command([l2 EXCEPT !.running = FALSE], FALSE)
         ELSE l2

(* The link with watch w gone, as the handler's "return False" leaves it.  *)
Unwatched(w) == [Link EXCEPT !.watches = @ \ {w}]

(* BNET_SIGNAL handled to the end, the callback having left the link l:   *)
(* classify, hand the reply to the callback, clear the buffer, finish.    *)
SignalStep(w, l) ==
    /\ w \in watches
    /\ fromDir # <<>> /\ Head(fromDir).kind \in {"eod", "prompt"}
    /\ fromDir' = Tail(fromDir)
    /\ atPrompt' = Prompted
    /\ reply' = <<>>
    /\ lastCall' = IF w.pkg.cb = "none" THEN lastCall
                   ELSE [id |-> w.id, got |-> reply]
    /\ SetLink(SignalEnd(l, w.pkg.cb, Prompted))
    /\ UNCHANGED <<dmode, nenq, nfail>>

(* Director.prompt(reply, callback): the dialog shows the prompt.          *)
DirectorPrompt(cb) == dialog' = "shown" /\ promptCb' = cb

(* The signal for the callers of this module: Console._cb_execute stores  *)
(* the flag and returns it as will_answer; a "plain" callback returns     *)
(* None, so a prompt goes to Director.prompt(self.reply).                  *)
RecvSignal(w) ==
    /\ w.pkg.cb \in {"none", "plain", "console"}
    /\ SignalStep(w, Unwatched(w))
    /\ consolePrompt' = IF w.pkg.cb = "console" THEN Prompted ELSE consolePrompt
    /\ IF w.pkg.cb = "plain" /\ Prompted
         THEN DirectorPrompt("none") ELSE UNCHANGED <<dialog, promptCb>>

-----------------------------------------------------------------------------
(* Properties.                                                             *)

TypeOK ==
    /\ queue \in Seq(Package)
    /\ running \in BOOLEAN /\ atPrompt \in BOOLEAN
    /\ reply \in Seq([kind : {"data"}, id : Nat, tag : Tags])
    /\ watches \subseteq [id : Nat, pkg : Package]
    /\ toDir \in Seq([id : Nat, pkg : Package, ans : BOOLEAN])
    /\ fromDir \in Seq(Chunk)
    /\ dmode \in {"idle", "prompt"}
    /\ nsent \in Nat /\ nenq \in 0..MaxEnq /\ nfail \in 0..MaxFailures
    /\ consolePrompt \in BOOLEAN
    /\ dialog \in {"hidden", "shown"} /\ promptCb \in CbKinds
    /\ lastCall \in [id : Nat, got : Seq(Chunk)]

(* Commands transmitted whose reply the connection has not yet finished   *)
(* reading: still on the wire to the daemon, or answered on the wire back. *)
InFlight == {toDir[i].id : i \in DOMAIN toDir}
              \cup {fromDir[i].id : i \in {j \in DOMAIN fromDir :
                                             fromDir[j].kind # "error"}}

(* The connection is half duplex (spec 3, 5): do_async and                 *)
(* _process_pending_command never put a second command on the socket      *)
(* while one is unanswered, and there is never more than one io watch     *)
(* reading the socket.                                                     *)
MutualExclusion ==
    /\ Cardinality(InFlight) <= 1
    /\ Cardinality(watches) <= 1

(* Every callback _cb_async_read invokes receives exactly the text of its *)
(* own command's reply: no chunk of another command, no chunk left over   *)
(* from an earlier reply, and not the "You have messages." notice.        *)
ReplyIntegrity ==
    lastCall = NoCall
    \/ /\ Len(lastCall.got) = 1
       /\ lastCall.got[1].kind = "data" /\ lastCall.got[1].id = lastCall.id

(* While the daemon waits at a prompt, the next line it reads is one the   *)
(* client sent as an answer: a queued ordinary command is never released *)
(* by _cb_async_read while the prompt is unresolved.                       *)
DaemonReadsOnlyAnswersAtPrompt ==
    [][toDir # <<>> /\ toDir' = Tail(toDir) /\ dmode = "prompt"
         => Head(toDir).ans]_vars

(* Someone who can answer the pending prompt is being asked to.           *)
AwaitingUser ==
    /\ atPrompt /\ InFlight = {}
    /\ consolePrompt \/ dialog = "shown"

(* Commands held in the queue are eventually all sent, unless the         *)
(* connection waits for the user to answer a prompt: an unanswerable      *)
(* prompt never wedges the queue (the automatic "." of _cb_async_read).   *)
QueueDrains == (queue # <<>>) ~> (queue = <<>> \/ AwaitingUser)

(* Every transmitted command's reply is eventually read to its signal.    *)
TransmittedAreHandled ==
    \A i \in 1..(2 * MaxEnq) : (i \in InFlight) ~> (i \notin InFlight)

(* The refinement mapping onto HalfDuplex: the pending queue is            *)
(* _command_queue, the request in flight is the package of the io watch   *)
(* waiting for its reply, and the prompt flag is _at_prompt.               *)
NoRequest == [cmd |-> Cancel, cb |-> "no request"]
InFlightRequest ==
    IF watches = {} THEN NoRequest ELSE (CHOOSE w \in watches : TRUE).pkg

HD == INSTANCE HalfDuplex
        WITH Request <- Package, Silent <- {p \in Package : p.cb = "none"},
             CancelReq <- CancelPkg, NoRequest <- NoRequest,
             pending <- queue, inFlight <- InFlightRequest,
             promptPending <- atPrompt

(* DirectorConnection implements the half-duplex pipeline of the spec:    *)
(* every do_async and every signal _cb_async_read handles is an enqueue   *)
(* or a completion of HalfDuplex (the daemon's replies and the data        *)
(* chunks are stuttering steps), and every request sent is completed.     *)
HalfDuplexSpec == HD!HSpec

-----------------------------------------------------------------------------
Init ==
    /\ queue = <<>>
    /\ running = FALSE
    /\ atPrompt = FALSE
    /\ reply = <<>>
    /\ watches = {}
    /\ toDir = <<>>
    /\ fromDir = <<>>
    /\ dmode = "idle"
    /\ nsent = 0
    /\ consolePrompt = FALSE
    /\ dialog = "hidden"
    /\ promptCb = "none"
    /\ lastCall = NoCall
    /\ nenq = 0
    /\ nfail = 0

Handler == \E w \in watches : RecvData(w) \/ RecvSignal(w)

Next ==
    \/ \E b \in Background : BackgroundCmd(b)
    \/ \E c \in ConsoleCmds \cup {ConsoleAnswer} : ConsoleExecute(c)
    \/ DialogAnswer
    \/ DialogCancel
    \/ DirReply
    \/ Handler

(* The GLib main loop dispatches a ready watch, and the daemon answers     *)
(* each command; the user and the timers are under no obligation.         *)
Fairness == WF_vars(Handler) /\ WF_vars(DirReply)

Spec == Init /\ [][Next]_vars /\ Fairness

(* The same pipeline when the socket may break and a parser or callback    *)
(* may raise: the handler's error paths and the transport failure.        *)
FaultHandler == \E w \in watches : RecvError(w) \/ RecvSignalRaise(w)

FaultyNext == Next \/ TransportFailure \/ FaultHandler

FaultySpec ==
    Init /\ [][FaultyNext]_vars
         /\ WF_vars(Handler \/ FaultHandler) /\ WF_vars(DirReply)
=============================================================================
