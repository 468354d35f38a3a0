---------------------------- MODULE LeaderIntake ----------------------------
(***************************************************************************)
(* What people write to a company: messages to its leader, and replies to  *)
(* the feedback of an agent. Both come from the page (company-intake.tsx,  *)
(* feedback-popup.tsx, new-work-gate.ts) or from the office                *)
(* (reply-forwarder.ts, plugin.ts), and are handled by the worker          *)
(* (actions.ts, intake.ts, agent-reply.ts), which awaits the host between  *)
(* looking for a leader and writing to it.                                 *)
(***************************************************************************)
EXTENDS Integers, Sequences, Functions

CONSTANTS
  Leaders,     \* the agents that are ceo or report to nobody, in the order the host lists them
  Feedbacks,   \* feedback: [id, company, context (existingWorkContext), issue, run]
  Companies,   \* companies
  NoLink,      \* an issue or a run that is not there
  MaxTurns,    \* changes of an agent's status
  MaxAsked     \* messages and replies

ASSUME IntakeBounds ==
  {MaxTurns, MaxAsked} \subseteq Nat

VARIABLES
  status,    \* status of the leaders in the host
  storedLeader,    \* leadership-agent-id in plugin state
  outstanding, \* feedback in the store of the worker
  asks,      \* the messages that are handled
  replies,   \* the comments the host was asked for
  raw,       \* requests that failed with the host's own error for an agent that cannot run
  comments,  \* comments made
  turns, asked \* what is left of MaxTurns and MaxAsked

intakeVars == <<status, storedLeader, outstanding, asks, replies, raw, comments, turns,
                asked>>

Nobody == "nobody"
Statuses == {"idle", "paused"}
Texts == {"blank", "plain", "newWork"}
Origins == {"page", "office"}

\* isAgentInvokable.
Invokable(a) == status[a] = "idle"

\* looksLikeNewWork.
LooksLikeNewWork(text) == text = "newWork"

\* BUG: the text is not looked at.
GateContextOnly(fb, text) ==
  IF ~ fb.context \/ (fb.issue = NoLink /\ fb.run = NoLink) THEN "missing-context" ELSE "sent"

\* evaluateAgentReply.
EvaluateReply(fb, text) ==
  IF ~ fb.context \/ (fb.issue = NoLink /\ fb.run = NoLink) THEN "missing-context"
  ELSE IF LooksLikeNewWork(text) THEN "new-work" ELSE "sent"

\* gateAgentReply, the page's own copy of the policy.
GateReply(fb, text) ==
  IF ~ fb.context \/ (fb.issue = NoLink /\ fb.run = NoLink) THEN "missing-context"
  ELSE IF LooksLikeNewWork(text) THEN "new-work" ELSE "reply"

\* resolveCompanyScope: the company that the host vouches for, if any, has to be the one named.
InScope(named, vouched) == vouched = NoLink \/ vouched = named

-----------------------------------------------------------------------------
IntakeInit ==
  /\ status \in [Range(Leaders) -> Statuses]
  /\ storedLeader = Nobody
  /\ outstanding = {}
  /\ asks = {} /\ replies = {} /\ raw = {} /\ comments = {}
  /\ turns = MaxTurns /\ asked = MaxAsked

Turns(a) ==
  /\ turns > 0 /\ turns' = turns - 1
  /\ status' = [status EXCEPT ![a] = IF @ = "idle" THEN "paused" ELSE "idle"]
  /\ asks' = {[ask EXCEPT !.turned = @ \cup {a}] : ask \in asks}
  /\ UNCHANGED <<storedLeader, outstanding, replies, raw, comments, asked>>

\* An event adds feedback; a start of the worker clears it.
FeedbackRaised(fb) ==
  /\ fb \notin outstanding
  /\ outstanding' = outstanding \cup {fb}
  /\ UNCHANGED <<status, storedLeader, asks, replies, raw, comments, turns, asked>>

FeedbackCleared ==
  /\ outstanding # {} /\ outstanding' = {}
  /\ UNCHANGED <<status, storedLeader, asks, replies, raw, comments, turns, asked>>

-----------------------------------------------------------------------------
(* Messages to the company: handleCompanySendMessage.                       *)

\* Both origins refuse a blank text; the leader is looked for in plugin state, as the worker
\* never keeps one.
MessageSent(text) ==
  /\ text # "blank"
  /\ asked > 0 /\ asked' = asked - 1
  /\ asks' = asks \cup {[id |-> asked, at |-> "load", leader |-> Nobody, turned |-> {}]}
  /\ UNCHANGED <<status, storedLeader, outstanding, replies, raw, comments, turns>>

Moves(ask, next) == asks' = (asks \ {ask}) \cup {next}

\* BUG: the leader that is kept is not looked up.
AfterLoadTrusting(leader) == IF leader = Nobody THEN "list" ELSE "open"

AfterLoad(leader) == IF leader = Nobody THEN "list" ELSE "get"

LeaderLoaded(ask) ==
  /\ ask.at = "load"
  /\ Moves(ask, [ask EXCEPT !.leader = storedLeader, !.at = AfterLoad(storedLeader)])
  /\ UNCHANGED <<status, storedLeader, outstanding, replies, raw, comments, turns, asked>>

\* A leader that cannot run is dropped.
LeaderChecked(ask) ==
  /\ ask.at = "get"
  /\ Moves(ask, IF Invokable(ask.leader) THEN [ask EXCEPT !.at = "open"]
                ELSE [ask EXCEPT !.leader = Nobody, !.at = "list"])
  /\ UNCHANGED <<status, storedLeader, outstanding, replies, raw, comments, turns, asked>>

\* The first candidate that can run; without one the message is refused.
LeaderFound(ask) ==
  /\ ask.at = "list"
  /\ LET able == {i \in DOMAIN Leaders : Invokable(Leaders[i])}
     IN IF able = {} THEN asks' = asks \ {ask}
        ELSE \E i \in able :
               /\ \A j \in able : i <= j
               /\ Moves(ask, [ask EXCEPT !.leader = Leaders[i], !.at = "keep"])
  /\ UNCHANGED <<status, storedLeader, outstanding, replies, raw, comments, turns, asked>>

LeaderKept(ask) ==
  /\ ask.at = "keep"
  /\ storedLeader' = ask.leader
  /\ Moves(ask, [ask EXCEPT !.at = "open"])
  /\ UNCHANGED <<status, outstanding, replies, raw, comments, turns, asked>>

\* sessions.create and sendMessage: the host refuses an agent that cannot run.
SessionOpened(ask) ==
  /\ ask.at = "open"
  /\ asks' = asks \ {ask}
  /\ raw' = IF Invokable(ask.leader) THEN raw
            ELSE raw \cup {[leader |-> ask.leader, turned |-> ask.turned]}
  /\ UNCHANGED <<status, storedLeader, outstanding, replies, comments, turns, asked>>

-----------------------------------------------------------------------------
(* Replies: handleAgentReplyToFeedback.                                     *)

\* The page replies where its gate lets it, in its own company; the office is not gated and
\* names any feedback and any company.
MayReply(origin, fb, text, named) ==
  /\ text # "blank"
  /\ origin = "page" => GateReply(fb, text) = "reply" /\ named = fb.company

\* getFeedbackById.
FeedbackById(named, fb) == fb \in outstanding /\ fb.company = named

\* The worker judges the reply at once, by the feedback it has; what passes is a comment on the
\* issue of the feedback, if it has one, and the host is asked for it.
Replied(origin, fb, text, named, vouched) ==
  /\ MayReply(origin, fb, text, named)
  /\ asked > 0 /\ asked' = asked - 1
  /\ replies' = IF /\ InScope(named, vouched) /\ FeedbackById(named, fb)
                   /\ EvaluateReply(fb, text) = "sent" /\ fb.issue # NoLink
                THEN replies \cup {[fb |-> fb, text |-> text, company |-> named]}
                ELSE replies
  /\ UNCHANGED <<status, storedLeader, outstanding, asks, raw, comments, turns>>

Commented(reply) ==
  /\ replies' = replies \ {reply}
  /\ comments' = comments \cup {reply}
  /\ UNCHANGED <<status, storedLeader, outstanding, asks, raw, turns, asked>>

-----------------------------------------------------------------------------
AskStep(ask) == \/ LeaderLoaded(ask) \/ LeaderChecked(ask) \/ LeaderFound(ask)
                \/ LeaderKept(ask) \/ SessionOpened(ask)

\* The host drops a call, or plugin state cannot be read or written: the request fails.
AskFails(ask) ==
  /\ asks' = asks \ {ask}
  /\ UNCHANGED <<status, storedLeader, outstanding, replies, raw, comments, turns, asked>>

IntakeNext ==
  \/ \E a \in Range(Leaders) : Turns(a)
  \/ \E fb \in Feedbacks : FeedbackRaised(fb)
  \/ FeedbackCleared
  \/ \E text \in Texts : MessageSent(text)
  \/ \E ask \in asks : AskStep(ask) \/ AskFails(ask)
  \/ \E origin \in Origins, fb \in Feedbacks, text \in Texts, named \in Companies,
        vouched \in Companies \cup {NoLink} : Replied(origin, fb, text, named, vouched)
  \/ \E reply \in replies : Commented(reply)

IntakeSpec == IntakeInit /\ [][IntakeNext]_intakeVars

-----------------------------------------------------------------------------
IntakeTypeOK ==
  /\ status \in [Range(Leaders) -> Statuses] /\ storedLeader \in Range(Leaders) \cup {Nobody}
  /\ outstanding \subseteq Feedbacks
  /\ \A ask \in asks : /\ ask.at \in {"load", "get", "list", "keep", "open"}
                        /\ ask.leader \in Range(Leaders) \cup {Nobody}
  /\ turns \in 0 .. MaxTurns /\ asked \in 0 .. MaxAsked

\* The host's own error for an agent that cannot run reaches people only when that agent stopped
\* being able to while the request was handled, whatever leader was kept (actions.ts:172-197).
RawErrorsOnlyByTurns == \A r \in raw : r.leader \in r.turned

\* No reply starts new work: what is commented does not look like it, and is on the issue of
\* feedback in existing work of the very company that was named, whoever replies and whatever
\* feedback goes meanwhile (agent-reply.ts:66-99, actions.ts:218-275).
RepliesInContext ==
  \A c \in comments : /\ ~ LooksLikeNewWork(c.text)
                      /\ c.fb.company = c.company
                      /\ c.fb.context /\ c.fb.issue # NoLink
=============================================================================
