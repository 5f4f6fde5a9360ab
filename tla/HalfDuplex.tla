----------------------------- MODULE HalfDuplex -----------------------------
(***************************************************************************)
(* What the command pipeline promises (spec 3, 4.3, 4.4 and 5): the        *)
(* ConnectionState of one session, a queue of pending requests, at most    *)
(* one request in flight and the prompt flag, driven by two operations:    *)
(* enqueue (with its tryDispatch) and the completion of the in-flight      *)
(* request's reply.  Nothing here is about sockets, chunks or callbacks.   *)
(***************************************************************************)
EXTENDS Sequences

CONSTANTS
    Request,    \* the requests callers submit
    Silent,     \* requests without continuation (fire and forget)
    CancelReq,  \* the cancellation answer the dispatcher sends by itself
    NoRequest   \* the empty in-flight slot

ASSUME Silent \subseteq Request /\ CancelReq \in Silent
       /\ NoRequest \notin Request

VARIABLES pending, inFlight, promptPending

hvars == <<pending, inFlight, promptPending>>

(* tryDispatch: the head goes in flight when the slot is empty.            *)
Dispatch(q, slot) ==
    IF slot = NoRequest /\ q # <<>>
      THEN [pending |-> Tail(q), inFlight |-> Head(q)]
      ELSE [pending |-> q, inFlight |-> slot]

(* enqueue(request): refused at a prompt unless it is an answer, refused   *)
(* when an equal request is pending; else inserted at the head (priority  *)
(* or answer) or the tail, then tryDispatch.                               *)
Admit(q, slot, prompt, r, priority, isAnswer) ==
    IF /\ ~prompt \/ isAnswer
       /\ \A i \in DOMAIN q : q[i] # r
      THEN Dispatch(IF priority \/ isAnswer THEN <<r>> \o q ELSE Append(q, r),
                    slot)
      ELSE [pending |-> q, inFlight |-> slot]

Enqueue(r, priority, isAnswer) ==
    LET s == Admit(pending, inFlight, promptPending, r, priority, isAnswer)
    IN /\ pending' = s.pending /\ inFlight' = s.inFlight
       /\ UNCHANGED promptPending

(* onReplyComplete(isPrompt): the slot empties and the prompt flag takes   *)
(* the reply's class.  A prompt of a request without continuation is       *)
(* cancelled by the dispatcher; a final reply dispatches the next request; *)
(* after any other prompt the queue waits for an answer.                   *)
Complete(isPrompt) ==
    /\ inFlight # NoRequest
    /\ promptPending' = isPrompt
    /\ LET s == CASE isPrompt /\ inFlight \in Silent ->
                       Admit(pending, NoRequest, TRUE, CancelReq, FALSE, TRUE)
                  [] isPrompt -> [pending |-> pending, inFlight |-> NoRequest]
                  [] OTHER    -> Dispatch(pending, NoRequest)
       IN pending' = s.pending /\ inFlight' = s.inFlight

HInit == pending = <<>> /\ inFlight = NoRequest /\ promptPending = FALSE

HNext ==
    \/ \E r \in Request, priority, isAnswer \in BOOLEAN :
           Enqueue(r, priority, isAnswer)
    \/ \E isPrompt \in BOOLEAN : Complete(isPrompt)

(* A request in flight is eventually answered (spec 5: the daemon answers *)
(* one command at a time, and no reply is left unread).                   *)
HSpec == HInit /\ [][HNext]_hvars /\ WF_hvars(\E p \in BOOLEAN : Complete(p))
=============================================================================
