---------------------------- MODULE TerminalTools ----------------------------
(***************************************************************************)
(* What the agent types: a terminal call of the run in Workbench, taken    *)
(* through the executor (terminal-tools.ts), the worker's requests         *)
(* (socket-worker.ts, connection.ts) and the terminal (terminal-session.ts *)
(* behind terminal-worker/server.ts).                                      *)
(*                                                                         *)
(* A step of Workbench that begins, ends or aborts such a call is joined   *)
(* with what happens to it here.  The screen is what the worker answers;   *)
(* what a call asks for besides its input and its ENTER is left open.      *)
(***************************************************************************)
EXTENDS Workbench, Naturals

VARIABLES
  typing,  (* The await of executeTerminalTool, or how it ended.            *)
  pending, (* The input the call awaits has not got to the PTY; what a      *)
           (* stopped or timed out request leaves on its way is not kept.   *)
  since    (* History: inputs sent since the human took the terminal from   *)
           (* a run at work.                                                *)

tools == <<typing, pending, since>>

(* Of SocketTerminalWorker's requests those that type, or decide whether   *)
(* to: an input that ends the call, a text that is to be submitted, and    *)
(* the look at the screen that decides on its ENTER.                       *)
Requests == {"input", "text", "settle"}
(* A call that only reads, or waits for, the screen is as good as done.    *)
Results == {"done", "handoff"}
AtMost == 2   (* Of one call: its text and its ENTER. *)

ToolsTypeOK ==
  /\ typing \in Requests \cup Results \cup {"none"}
  /\ pending \in BOOLEAN
  /\ since \in 0 .. AtMost + 1

ToolsInit == Init /\ typing = "none" /\ pending = FALSE /\ since = 0

-----------------------------------------------------------------------------
(* worker.input()                                                          *)
Sends == pending' = TRUE

(* A pending request is settled without a reply.                           *)
Forgotten == pending' = FALSE

(* The human has taken the terminal, and the call in hand types on.        *)
Counts ==
  since' = IF owner'["terminal"] = "agent" \/ at' \notin Active THEN 0
           ELSE IF ~pending /\ pending' THEN IF since > AtMost THEN since ELSE since + 1
           ELSE since

(* An observe, or a wait for a quiet screen, a match, a prompt or the      *)
(* deadline, returns and changes nothing.                                  *)
ReadsOnly == typing' = "done" /\ UNCHANGED pending

(* The tool's arguments: an input or an interrupt, a text with submit, an  *)
(* observe or a wait; request_human hands off at once.                     *)
Begins ==
  \/ typing' \in {"input", "text"} /\ Sends
  \/ ReadsOnly
  \/ typing' = "handoff" /\ UNCHANGED pending

(* A call that is asked to hand off parks the run, unless it was stopped;  *)
(* another one parks it for a pause or a limit only.                       *)
Ends ==
  /\ typing \in Results
  /\ typing = "handoff" => at' \in {"handoff", "closing"}
  /\ typing # "handoff" => (at' = "handoff" => asked)
  /\ typing' = "none" /\ UNCHANGED pending

(* Mutant: the wait between the text and its ENTER is not aborted.         *)
AbortsRequests ==
  IF typing = "settle" THEN UNCHANGED <<typing, pending>>
  ELSE typing' = "done" /\ Forgotten

(* The signal rejects the request, the wait or the sleep that is awaited.  *)
Aborts == typing' = "done" /\ Forgotten

(* What a step of Workbench does to the call.                              *)
Types ==
  LET begins == at # "acting" /\ at' = "acting" /\ tool' = "terminal"
      ends == at = "acting" /\ tool = "terminal" /\ at' # "acting"
      aborts == at' = "acting" /\ typing \in Requests /\ ~stopped /\ stopped' IN
  /\ CASE begins -> Begins
       [] ends   -> Ends
       [] aborts -> Aborts
       [] OTHER  -> UNCHANGED <<typing, pending>>
  /\ Counts

-----------------------------------------------------------------------------
(* session.input() writes the first input to the PTY and replies.          *)
Written ==
  /\ pending /\ pending' = FALSE
  /\ UNCHANGED typing

(* Mutant: any reply answers the request that is pending.                  *)
RepliedAny == typing \in {"input", "text"}

(* dispatch(): the reply of the pending request; a reply to one that was   *)
(* forgotten finds no request.                                             *)
Replied == typing \in {"input", "text"} /\ ~pending

(* A text that was written is to be submitted, unless the worker refused   *)
(* it, as one for another revision.                                        *)
InputReturns ==
  /\ Replied
  /\ \/ typing = "text" /\ typing' = "settle" /\ UNCHANGED pending
     \/ ReadsOnly

(* After 250 ms and worker.wait(): a settled screen gets the ENTER, unless *)
(* it shows a prompt for the human; one that does not settle is reported.  *)
Settles ==
  /\ typing = "settle"
  /\ \/ typing' = "input" /\ Sends
     \/ typing' \in Results /\ UNCHANGED pending

(* Mutant: a request that the worker does not answer stays pending.        *)
NeverTimesOut == FALSE /\ Forgotten /\ typing' = "done"

(* conn.request() gives up on a worker that does not answer; a connection  *)
(* that closes does the same at once.                                      *)
TimesOut ==
  /\ typing \in Requests
  /\ typing' = "done"
  /\ Forgotten

Executes == InputReturns \/ Settles \/ TimesOut
Works(A) == Idle /\ A /\ UNCHANGED vars /\ Counts

ToolsNext ==
  \/ Next /\ Types
  \/ Works(Written) \/ Works(Executes)

toolVars == <<vars, tools>>
Joined(A) == Idle /\ A /\ Types

(* Workbench's fairness, of its steps as they happen here; a request has a *)
(* timeout, the PTY owes nothing.                                          *)
ToolsSpec ==
  /\ ToolsInit /\ [][ToolsNext]_toolVars
  /\ WF_toolVars(LoginContinues /\ Types)
  /\ WF_toolVars(Works(Executes) \/ Joined(RunSteps /\ Answers /\ UNCHANGED <<handlers, browser, doubled>>))
  /\ WF_toolVars(Joined(CardCloses /\ Answers /\ UNCHANGED <<handlers, browser, doubled>>))
  /\ WF_toolVars(Joined(ActionSettles /\ Answers /\ UNCHANGED <<handlers, browser, doubled>>))
  /\ WF_toolVars(Joined(FollowupSettled)) /\ WF_toolVars(Joined(FollowupContinues))
  /\ WF_toolVars(Joined(Worker)) /\ WF_toolVars(Joined(ControlReplies))
  /\ WF_toolVars(Joined(RestartSettles))

-----------------------------------------------------------------------------
(* Who has the terminal can count on it: after Stop the agent sends no     *)
(* more input; once the human holds the terminal it sends what is left of  *)
(* the call in hand, a text and its ENTER at most (terminal-tools.ts:98    *)
(* does not look at the lease again); and no call is over while the input  *)
(* it waits for is on its way, so that a run that parks or ends leaves     *)
(* nothing behind but what was stopped or timed out.                       *)
LeavesTheTerminal ==
  [][/\ ToolsTypeOK'
     /\ stopped /\ stopped' => (pending' => pending)
     /\ since' <= AtMost
     /\ typing' \notin Requests => ~pending']_toolVars
=============================================================================
