-------------------------- MODULE BehaviorPublish --------------------------
(***************************************************************************)
(* When the bridge store publishes the behavior vector of an agent         *)
(* (store.ts, flush timer in worker.ts). Events publish by the time of the *)
(* newest event, reconciles and the flush timer by the clock of the        *)
(* worker; a change within the minimum interval is left pending, and no    *)
(* timer is set for it.                                                    *)
(*                                                                         *)
(* The vector is abstracted to one rounded value, which an event or a      *)
(* reconcile raises and which fades as time goes by; bands are a function  *)
(* of it.                                                                  *)
(***************************************************************************)
EXTENDS Integers

CONSTANTS
  MinPublish, MaxPublish, \* minPublishMs and maxPublishMs
  Fade,      \* how long work counts
  Top,       \* values of the vector are 0 .. Top
  MaxTime    \* bound of the worker's clock

ASSUME PublishBounds ==
  /\ {MinPublish, MaxPublish, Fade, Top, MaxTime} \subseteq Nat \ {0}
  /\ MinPublish <= MaxPublish

VARIABLES
  now,       \* Date.now()
  observed,  \* lastObservedAtMs
  work,      \* the level of the last work and its time
  pub        \* AgentPublishState: at is lastEmittedAt, value is lastRounded (-1 before the first)

publishVars == <<now, observed, work, pub>>

\* computeBehavior and roundVector, at a time.
Vector(w, time) == IF time - w.at >= Fade THEN 0 ELSE w.level

\* changed: the rounded value or the band differs from what was published.
HasChanged(p, value) == value # p.value

MayPublish(p, time, force) ==
  LET since == time - p.at
  IN force \/ p.at = 0 \/ since >= MinPublish \/ since >= MaxPublish

\* tryPublish.
TryPublish(w, time, force) ==
  LET value == Vector(w, time)
  IN pub' = IF ~ HasChanged(pub, value) THEN [pub EXCEPT !.pending = FALSE]
            ELSE IF MayPublish(pub, time, force)
                 THEN [at |-> time, value |-> value, pending |-> FALSE]
                 ELSE [pub EXCEPT !.pending = TRUE]

-----------------------------------------------------------------------------
PublishInit ==
  /\ now = 1 /\ observed = 0
  /\ work = [level |-> 0, at |-> 0]
  /\ pub = [at |-> 0, value |-> -1, pending |-> FALSE]

TimePasses == now < MaxTime /\ now' = now + 1 /\ UNCHANGED <<observed, work, pub>>

\* applyPaperclipEvent: the event is not from the future, and may be older than others.
WorkEvent(level, time) ==
  /\ time \in 1 .. now
  /\ work' = IF time >= work.at THEN [level |-> level, at |-> time] ELSE work
  /\ observed' = IF time > observed THEN time ELSE observed
  /\ TryPublish(work', observed', FALSE)
  /\ UNCHANGED now

\* reconcile: an agent that has changed is published by the clock.
ReconcilePublish(level) ==
  /\ level # Vector(work, now)
  /\ work' = [level |-> level, at |-> now]
  /\ TryPublish(work', now, FALSE)
  /\ UNCHANGED <<now, observed>>

\* flushBehavior, by its timer.
FlushBehavior ==
  /\ TryPublish(work, now, TRUE)
  /\ UNCHANGED <<now, observed, work>>

\* The host's events end at some time, for the model: nothing happens at MaxTime but flushes.
PublishNext ==
  \/ TimePasses
  \/ now < MaxTime /\ \E level \in 0 .. Top, time \in 1 .. MaxTime : WorkEvent(level, time)
  \/ now < MaxTime /\ \E level \in 0 .. Top : ReconcilePublish(level)
  \/ FlushBehavior

(* Time passes, and the flush timer, which startTimers sets, fires again and again.  *)
PublishSpec ==
  /\ PublishInit /\ [][PublishNext]_publishVars
  /\ WF_publishVars(TimePasses) /\ WF_publishVars(FlushBehavior)

-----------------------------------------------------------------------------
PublishTypeOK ==
  /\ now \in 1 .. MaxTime /\ observed \in 0 .. now
  /\ work \in [level : 0 .. Top, at : 0 .. now]
  /\ pub \in [at : 0 .. now, value : -1 .. Top, pending : BOOLEAN]

\* In the end listeners have the vector as it is, a change left pending and one by the passing
\* of time alone included (store.ts:296-301, 608-625).
PublishedIsCurrent == pub.value = Vector(work, now)

PublishSettles == <>[]PublishedIsCurrent
=============================================================================
