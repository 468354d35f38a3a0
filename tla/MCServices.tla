----------------------------- MODULE MCServices -----------------------------
(***************************************************************************)
(* The services around the mirror, which share no state with one another   *)
(* in the program: a behavior is a behavior of one of them, chosen at the  *)
(* start, while the others stay in one of their initial states. So one     *)
(* run explores the sum of their state spaces, not the product.            *)
(***************************************************************************)
EXTENDS ToolActivityPoller, FeedServer, AgentCharacters, CharacterComposer, BehaviorPublish,
        CommsReader, LeaderIntake, BridgeView

VARIABLE part

Parts == {"poller", "server", "characters", "composer", "publish", "reader", "intake", "view"}

-----------------------------------------------------------------------------
(* The instances.                                                           *)

MCRequests ==
  LET Batch(ops)   == [route |-> "feed", body |-> "batch", operations |-> ops]
      Bad(way, b)  == [route |-> way, body |-> b, operations |-> <<>>]
      Shows(k, l)  == [op |-> "declareAgents", key |-> k, look |-> l]
      Removes(k)   == [op |-> "removeAgents", key |-> k]
      Wears(k, c)  == [op |-> "assignAgentAppearance", key |-> k, character |-> c]
      Does(k, t)   == [op |-> "updateAgentActivity", key |-> k, activity |-> t]
      Is(k, s)     == [op |-> "updateAgentStatus", key |-> k, status |-> s]
      Line         == [op |-> "dialogLines", lines |-> "text"]
  IN {Batch(<<Shows("a", "plain"), Shows("b", "plain")>>),
      Batch(<<Line, Shows("a", "hued"), Is("a", "active")>>),
      Batch(<<Wears("a", "knight"), Removes("b"), Wears("a", "unknown")>>),
      Batch(<<Does("b", "task"), Shows("b", "malformed")>>),
      Batch(<<Line, Does("a", "task"), Removes("nobody")>>),
      Bad("path", "batch"), Bad("method", "batch"), Bad("token", "batch"),
      Bad("feed", "large")}

\* (One agent more than there are characters: the last default is one in use, with a shifted hue.)
MCStaff == <<"a", "b", "c">>
MCDraws == {[a \in Range(MCStaff) |-> 0]}

MCCatalog == <<[id |-> "plain skin", kind |-> "skin", layer |-> 0],
               [id |-> "apron", kind |-> "clothing", layer |-> 1],
               [id |-> "coat", kind |-> "clothing", layer |-> 2]>>
MCHueInputs == {361}

MCLeaders == <<"ceo", "root">>
MCFeedbacks ==
  {[id |-> "f1", company |-> "c1", context |-> TRUE, issue |-> "i1", run |-> "none"],
   [id |-> "f2", company |-> "c2", context |-> FALSE, issue |-> "none", run |-> "none"],
   [id |-> "f3", company |-> "c1", context |-> TRUE, issue |-> "none", run |-> "r1"]}

-----------------------------------------------------------------------------
Only(p) ==
  /\ part = p /\ UNCHANGED part
  /\ p # "poller" => UNCHANGED pollerVars
  /\ p # "server" => UNCHANGED serverVars
  /\ p # "characters" => UNCHANGED characterVars
  /\ p # "composer" => UNCHANGED composerVars
  /\ p # "publish" => UNCHANGED publishVars
  /\ p # "reader" => UNCHANGED readerVars
  /\ p # "intake" => UNCHANGED intakeVars
  /\ p # "view" => UNCHANGED viewVars

MCInit ==
  /\ part \in Parts
  /\ PollerInit /\ ServerInit /\ CharactersInit /\ PublishInit /\ ReaderInit
  /\ ComposerInit /\ sheetOf["a"] = 0 /\ sheetOf["b"] = 1
  /\ IntakeInit /\ (part # "intake" => \A a \in DOMAIN status : status[a] = "idle")
  /\ ViewInit /\ (part # "view" => pageOffice = "c1")

MCNext ==
  \/ Only("poller") /\ PollerNext
  \/ Only("server") /\ ServerNext
  \/ Only("characters") /\ CharactersNext
  \/ Only("composer") /\ ComposerNext
  \/ Only("publish") /\ PublishNext
  \/ Only("reader") /\ ReaderNext
  \/ Only("intake") /\ IntakeNext
  \/ Only("view") /\ ViewNext

MCVars == <<part, pollerVars, serverVars, characterVars, composerVars, publishVars, readerVars,
            intakeVars, viewVars>>

(* The fairness of the parts: as the part is chosen once, one condition on  *)
(* the disjunction stands for a condition of each; the clock and the timer  *)
(* of the publishing have one each.                                         *)
MCFair ==
  \/ Only("poller") /\ PollerStep
  \/ Only("characters") /\ CharactersStep
  \/ Only("view") /\ ViewStep
  \/ Only("server") /\ ServerFair
  \/ Only("publish") /\ TimePasses

MCSpec ==
  /\ MCInit /\ [][MCNext]_MCVars
  /\ WF_MCVars(MCFair) /\ WF_MCVars(Only("publish") /\ FlushBehavior)

-----------------------------------------------------------------------------
\* The states of all parts are of the shapes the modules declare.
ServicesTypeOK ==
  /\ part \in Parts
  /\ PollerTypeOK /\ ServerTypeOK /\ CharactersTypeOK /\ ComposerTypeOK
  /\ PublishTypeOK /\ ReaderTypeOK /\ IntakeTypeOK /\ ViewTypeOK

\* CharactersSettle, CallsComeReported, PublishSettles and ViewSettles, each of its own part, in
\* one formula: whatever is lost, late, dropped or fails, in the end the worker and the feed have
\* the characters of plugin state, the calls of the run's log are reported, what was published is
\* the vector as it is, and the page shows what the worker has.
ServicesSettle ==
  <>[](/\ part = "characters" => CharactersAgree
       /\ part = "poller" => CallsReported
       /\ part = "publish" => PublishedIsCurrent
       /\ part = "view" => ViewAgrees)
=============================================================================
