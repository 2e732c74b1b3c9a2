----------------------------- MODULE LiveMetrics -----------------------------
(***************************************************************************)
(* Live metrics.  While the service has no subscriber the client pings it  *)
(* from a timer; once a response says "subscribed" a meter provider posts  *)
(* every second until a response says otherwise.  Responses of pings and   *)
(* posts run the same handler, quickPulseDone, in whatever order they      *)
(* arrive: several can be in flight, and those of a provider that has been *)
(* shut down (which flushes once more) still count.                        *)
(*                                                                         *)
(* A chain of pings is a timer, or the ping it sent, or the rest of        *)
(* goQuickpulse after the answer; there may be more than one.  A           *)
(* configuration (document filters, derived metrics, validation errors) is *)
(* named after its etag.  Intervals, redirects and the telemetry itself    *)
(* are left out.                                                           *)
(***************************************************************************)
EXTENDS Naturals

CONSTANTS Etags,     \* the etags of the service's configurations
          NoEtag,    \* the empty etag
          None,      \* no response; no configuration
          MaxPosts,  \* bound: posts in flight
          MaxChains  \* bound: chains of pings

ASSUME LiveMetricsAssumption ==
  /\ NoEtag \notin Etags /\ None \notin Etags
  /\ MaxPosts \in Nat \ {0} /\ MaxChains \in Nat \ {0}

VARIABLES isShutdown, isCollectingData,
          meterProvider, \* is there one?
          handle,        \* 1 while the timer `handle` refers to is pending, else 0
          orphans,       \* pending timers it no longer refers to
          pings,         \* pings in flight
          pinged,        \* calls of goQuickpulse to be resumed after their ping
          posts,         \* posts in flight
          etag,
          exporterEtag,  \* what the posts report
          config,        \* the configuration in force
          silent         \* have MAX_POST_WAIT_TIME passed since lastSuccessTime?

vars == <<isShutdown, isCollectingData, meterProvider, handle, orphans, pings, pinged, posts,
          etag, exporterEtag, config, silent>>

configVars == <<etag, exporterEtag, config>>
timerVars  == <<handle, orphans>>

\* A response with its subscription and etag headers, and, if the etag is new to the
\* client, the configuration; or none, after an error.
Response == [subscribed: BOOLEAN, etag: Etags \cup {NoEtag}] \cup {None}

Chains == handle + orphans + pings + pinged

\* The constructor starts the first chain.
Init ==
  /\ isShutdown = FALSE /\ isCollectingData = FALSE
  /\ meterProvider = FALSE
  /\ handle = 1 /\ orphans = 0
  /\ pings = 0 /\ pinged = 0 /\ posts = 0
  /\ etag = NoEtag /\ exporterEtag = NoEtag /\ config = None
  /\ silent = FALSE

-----------------------------------------------------------------------------

\* setTimeout: `handle` forgets the timer it referred to.
ArmTimer ==
  /\ handle' = 1
  /\ orphans' = orphans + handle

\* Shutting a meter provider down posts once more, beside the n posts in flight.
Flushed(n) == IF meterProvider /\ n < MaxPosts THEN n + 1 ELSE n

\* Mutation: the filters and validation errors are kept.
DeactivateKeepingConfiguration(n) ==
  /\ meterProvider' = FALSE /\ posts' = Flushed(n)
  /\ UNCHANGED config

Deactivate(n) ==
  /\ meterProvider' = FALSE /\ posts' = Flushed(n)
  /\ config' = None

\* Mutation: when collecting stops, no timer takes over.
StopWithoutTimer(n) ==
  /\ Deactivate(n) /\ etag' = NoEtag
  /\ UNCHANGED timerVars

\* Collecting stops, and a chain of pings starts.
Stop(n) ==
  /\ Chains < MaxChains
  /\ Deactivate(n) /\ etag' = NoEtag
  /\ ArmTimer

\* updateConfiguration: the etag, what the exporter reports, and the filters and errors
\* parsed are those of a response with a new etag; without one, all stay as they were.
Updated(r, old) == IF r.etag \notin {NoEtag, etag} THEN r.etag ELSE old

\* The service answered: the subscription and the configuration are its own, and the
\* provider goes if it has no subscriber any more.
Answered(r, n) ==
  /\ silent' = FALSE
  /\ isCollectingData' = r.subscribed
  /\ exporterEtag' = Updated(r, exporterEtag)
  /\ IF ~r.subscribed /\ meterProvider
     THEN Stop(n)
     ELSE /\ etag' = Updated(r, etag)
          /\ config' = Updated(r, config)
          /\ posts' = n
          /\ UNCHANGED <<meterProvider, handle, orphans>>

\* No answer: after a long silence, a collecting client starts over with a provider
\* that posts less often.
Unanswered(n) ==
  /\ UNCHANGED <<isCollectingData, timerVars, etag, exporterEtag, silent>>
  /\ IF isCollectingData /\ silent
     THEN meterProvider' = TRUE /\ posts' = Flushed(n) /\ config' = None
     ELSE posts' = n /\ UNCHANGED <<meterProvider, config>>

\* quickPulseDone(r), of a ping or, with n posts left in flight, of a post.
QuickPulseDone(r, n) ==
  CASE isShutdown              -> /\ posts' = n
                                  /\ UNCHANGED <<isCollectingData, meterProvider, timerVars,
                                                 configVars, silent>>
    [] ~isShutdown /\ r = None -> Unanswered(n)
    [] OTHER                   -> Answered(r, n)

\* activateMetrics makes a provider if there is none.
ActivateIfCollecting ==
  meterProvider' = (meterProvider \/ (isCollectingData /\ ~isShutdown))

\* Mutation: the test of isShutdown is made before the ping only.
ResumeAfterShutdown ==
  /\ pinged > 0
  /\ pinged' = pinged - 1
  /\ ArmTimer
  /\ meterProvider' = (meterProvider \/ isCollectingData)
  /\ UNCHANGED <<isShutdown, isCollectingData, pings, posts, configVars, silent>>

\* goQuickpulse goes on after its ping: a new timer, and a provider if the answer, or
\* another one meanwhile, asked for it.
Resume ==
  /\ pinged > 0
  /\ pinged' = pinged - 1
  /\ IF isShutdown THEN UNCHANGED timerVars ELSE ArmTimer
  /\ ActivateIfCollecting
  /\ UNCHANGED <<isShutdown, isCollectingData, pings, posts, configVars, silent>>

\* A timer fires, `handle` or one forgotten.
Fire ==
  \/ handle = 1 /\ handle' = 0 /\ UNCHANGED orphans
  \/ orphans > 0 /\ orphans' = orphans - 1 /\ UNCHANGED handle

\* Mutation: only a ping's answer activates the provider.
GoQuickpulseIdle ==
  /\ Fire
  /\ pings' = IF isShutdown \/ isCollectingData THEN pings ELSE pings + 1
  /\ UNCHANGED <<isShutdown, isCollectingData, meterProvider, pinged, posts, configVars, silent>>

\* goQuickpulse: nothing after shutdown; a ping; or, while collecting, the end of this
\* chain, and a provider if there is none.
GoQuickpulse ==
  /\ Fire
  /\ pings' = IF isShutdown \/ isCollectingData THEN pings ELSE pings + 1
  /\ ActivateIfCollecting
  /\ UNCHANGED <<isShutdown, isCollectingData, pinged, posts, configVars, silent>>

PingDone ==
  /\ pings > 0
  /\ pings' = pings - 1 /\ pinged' = pinged + 1
  /\ \E r \in Response : QuickPulseDone(r, posts)
  /\ UNCHANGED isShutdown

\* The provider's reader exports.
Post ==
  /\ meterProvider /\ posts < MaxPosts
  /\ posts' = posts + 1
  /\ UNCHANGED <<isShutdown, isCollectingData, meterProvider, timerVars, pings, pinged,
                 configVars, silent>>

PostDone ==
  /\ posts > 0
  /\ \E r \in Response : QuickPulseDone(r, posts - 1)
  /\ UNCHANGED <<isShutdown, pings, pinged>>

SilenceLasts ==
  /\ ~silent
  /\ silent' = TRUE
  /\ UNCHANGED <<isShutdown, isCollectingData, meterProvider, timerVars, pings, pinged, posts,
                 configVars>>

\* shutdown clears the one timer that `handle` refers to.
Shutdown ==
  /\ ~isShutdown
  /\ isShutdown' = TRUE
  /\ handle' = 0
  /\ Deactivate(posts)
  /\ UNCHANGED <<isCollectingData, orphans, pings, pinged, etag, exporterEtag, silent>>

Next ==
  \/ GoQuickpulse \/ PingDone \/ Resume
  \/ Post \/ PostDone
  \/ SilenceLasts \/ Shutdown

\* Timers fire, requests end, and promises that are settled are resumed.
Fairness == WF_vars(GoQuickpulse) /\ WF_vars(PingDone) /\ WF_vars(Resume)

Spec == Init /\ [][Next]_vars /\ Fairness

-----------------------------------------------------------------------------
(* Properties *)

TypeOK ==
  /\ {isShutdown, isCollectingData, meterProvider, silent} \subseteq BOOLEAN
  /\ handle \in 0 .. 1 /\ orphans \in Nat /\ pings \in Nat /\ pinged \in Nat /\ Chains <= MaxChains
  /\ posts \in 0 .. MaxPosts
  /\ {etag, exporterEtag} \subseteq Etags \cup {NoEtag} /\ config \in Etags \cup {None}

\* No provider outlives the subscription or the client: neither a late answer of a ping or
\* a post, nor a chain of pings that shutdown did not clear, brings one back.
ProviderOnlyWhileSubscribed ==
  meterProvider => isCollectingData /\ ~isShutdown

\* The client never falls asleep: before shutdown, a provider posts or a chain of pings
\* goes on, however many chains were started and ended in whatever order.
NeverAsleep ==
  isShutdown \/ meterProvider \/ Chains > 0

\* The filters and errors in force are those of the etag that the next ping and the next
\* post report, never those of another configuration.
ReportsOwnConfiguration ==
  config # None => etag = config /\ exporterEtag = config

\* A subscription takes effect even if a post of an earlier provider brought the news:
\* in the end there is a provider, unless the subscriber has gone or the client is shut
\* down.
SubscriptionTakesEffect ==
  (isCollectingData /\ ~meterProvider) ~> (meterProvider \/ ~isCollectingData \/ isShutdown)
=============================================================================
