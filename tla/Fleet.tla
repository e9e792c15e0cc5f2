---------------------------------- MODULE Fleet ----------------------------------
(***************************************************************************)
(* The fleet hub: internal/hub (PeerRegistry, Scraper, Hub, FleetAPI) and  *)
(* the mDNS browser of internal/discovery that feeds it.                   *)
(*                                                                         *)
(* Three kinds of goroutines share the registry and the metrics cache: the *)
(* browser, which adds peers and marks them unhealthy; one goroutine per   *)
(* peer and scrape cycle, only so many of them past the                    *)
(* semaphore; and the HTTP handlers, which read the registry and then the  *)
(* cache.  Every access to the registry or to the cache is one step, as    *)
(* each takes its lock once; what lies between two accesses interleaves.   *)
(*                                                                         *)
(* A peer's devices and metrics are abstracted to the version of what its  *)
(* /metrics said: 0 before its first flush, when it serves neither devices *)
(* nor its name, so that the hub knows it by its address.  From then on it *)
(* is known by the name in its own configuration, which nothing keeps      *)
(* another agent from having too.                                          *)
(***************************************************************************)
EXTENDS Integers, FiniteSets, Functions

CONSTANTS
    Address,        \* the addresses of agents on the network
    DeviceName,     \* the device_names in their configurations
    Networks,       \* who has which, how often each flushes, maxConcurrentScrapes
    Static,         \* those configured as static peers
    Advertised,     \* those advertised by mDNS
    Self,           \* the hub's own address
    Versions        \* bound on the versions of what an agent serves

ASSUME FleetAssumption ==
    /\ Static \subseteq Address /\ Advertised \ {Self} \subseteq Address
    /\ Networks # {}
    /\ Networks \subseteq [name : [Address -> DeviceName],
                         flushes : [Address -> 0 .. Versions], scrapes : Nat \ {0}]
    /\ Versions \in Nat \ {0}

Never == -1                                \* a peer not scraped yet
Ids == ({"address"} \X Address) \union ({"name"} \X DeviceName)
NotCached == <<>>                          \* no metrics under this id

VARIABLES
    agent,         \* per address: is the agent up, its device_name, its versions
    peers,         \* PeerRegistry.peers: registered address -> its entry
    peerMetrics,   \* Hub.peerMetrics: whose metrics of which version, per id
    seen, current, \* the browser's last and present cycle
    browser,       \* MDNSBrowser.Start: "browsing" or "stopped"
    scraper,       \* Scraper.Start: "waiting", "scraping" or "stopped"
    stage,         \* per address: where its scrape goroutine stands
    answer,        \* per address: the version its scrape has read
    hubCtx,        \* the agent's context is cancelled
    scraperCtx,    \* the scraper's own context is cancelled
    sem            \* the capacity of the scrapes' semaphore

browserVars == <<seen, current, browser>>
scrapeVars  == <<scraper, stage, answer>>
ctxVars     == <<hubCtx, scraperCtx, sem>>
fleetVars   == <<agent, peers, peerMetrics, browserVars,
                 scrapeVars, ctxVars>>

\* The name in keldron_agent_info, or the address when there is none.
Id(a, v) == IF v = 0 THEN <<"address", a>> ELSE <<"name", agent[a].name>>

NewPeer(a) == [id |-> <<"address", a>>, healthy |-> FALSE, version |-> Never]

FleetInit ==
    /\ \E net \in Networks, up \in [Address -> BOOLEAN] :
          /\ agent = [a \in Address |->
                       [up |-> up[a], name |-> net.name[a], flushes |-> net.flushes[a]]]
          /\ sem = net.scrapes
    /\ peers = [a \in Static |-> NewPeer(a)]
    /\ peerMetrics = [i \in Ids |-> NotCached]
    /\ seen = {} /\ current = {} /\ browser = "browsing"
    /\ scraper = "waiting"
    /\ stage = [a \in Address |-> "idle"]
    /\ answer = [a \in Address |-> Never]
    /\ hubCtx = FALSE /\ scraperCtx = FALSE

-----------------------------------------------------------------------------
(* The registry's operations, each under its lock.  The count of failures  *)
(* is left out: it only chooses the level of a log line.                   *)

AddPeer(a) ==
    peers' = [b \in DOMAIN peers \union {a} |->
                IF b \in DOMAIN peers THEN peers[b] ELSE NewPeer(b)]

UpdatePeer(a, v) ==
    peers' = [peers EXCEPT ![a] =
                [id |-> Id(a, v), healthy |-> TRUE, version |-> v]]

\* MarkUnhealthy, for every address of gone; an unknown one is left alone.
MarkUnhealthy(gone) ==
    peers' = [b \in DOMAIN peers |->
                [peers[b] EXCEPT !.healthy = @ /\ b \notin gone]]

-----------------------------------------------------------------------------
(* The agents of the network, of no interest once the hub is cancelled.    *)

\* An agent dies, or a dead one comes back; its name is in its configuration.
AgentRestarts(a) ==
    /\ ~hubCtx
    /\ agent' = [agent EXCEPT ![a].up = ~@]
    /\ UNCHANGED <<peers, peerMetrics, browserVars, scrapeVars,
                   ctxVars>>

-----------------------------------------------------------------------------
(* The mDNS browser.  A failed browse ends its cycle with nothing found.   *)

BrowseFound(a) ==
    /\ browser = "browsing"
    /\ a \notin current
    /\ current' = current \union {a}
    /\ IF a = Self THEN UNCHANGED peers ELSE AddPeer(a)
    /\ UNCHANGED <<agent, peerMetrics, seen, browser,
                   scrapeVars, ctxVars>>

BrowseEnd ==
    /\ browser = "browsing"
    /\ seen # current \/ hubCtx
    /\ MarkUnhealthy(seen \ current)
    /\ seen' = current /\ current' = {}
    /\ browser' = IF hubCtx THEN "stopped" ELSE "browsing"
    /\ UNCHANGED <<agent, peerMetrics, scrapeVars, ctxVars>>

-----------------------------------------------------------------------------
(* The scraper: a cycle starts a goroutine for each peer and waits for all.*)

ScrapeAll ==
    /\ scraper = "waiting"
    /\ scraper' = "scraping"
    /\ stage' = [a \in Address |->
                   IF a \in DOMAIN peers THEN "queued" ELSE "idle"]
    /\ UNCHANGED <<agent, peers, peerMetrics, browserVars,
                   answer, ctxVars>>

PastSemaphore == {a \in Address : stage[a] \notin {"idle", "queued"}}

ScrapeBegin(a) ==
    /\ stage[a] = "queued"
    /\ Cardinality(PastSemaphore) < sem
    /\ stage' = [stage EXCEPT ![a] = "fetching"]
    /\ UNCHANGED <<agent, peers, peerMetrics, browserVars,
                   scraper, answer, ctxVars>>

\* The request, its parsing and the peer's name.  The agent has flushed again
\* since the last request, or not, or it has restarted: any version may be next.
ScrapePeer(a) ==
    /\ stage[a] = "fetching"
    /\ agent[a].up /\ ~scraperCtx
    /\ stage' = [stage EXCEPT ![a] = "fetched"]
    /\ \E v \in 0 .. agent[a].flushes : answer' = [answer EXCEPT ![a] = v]
    /\ UNCHANGED <<agent, peers, peerMetrics, browserVars,
                   scraper, ctxVars>>

\* Mutant: a failed scrape does not leave the semaphore and the wait group.
ScrapeFailsLeaky(a) ==
    /\ stage[a] = "fetching"
    /\ ~agent[a].up \/ scraperCtx
    /\ MarkUnhealthy({a})
    /\ stage' = [stage EXCEPT ![a] = "gone"]
    /\ UNCHANGED <<agent, peerMetrics, browserVars, scraper, answer, ctxVars>>

ScrapeFails(a) ==
    /\ stage[a] = "fetching"
    /\ ~agent[a].up \/ scraperCtx
    /\ MarkUnhealthy({a})
    /\ stage' = [stage EXCEPT ![a] = "idle"]
    /\ UNCHANGED <<agent, peerMetrics, browserVars, scraper, answer, ctxVars>>

ScrapeUpdates(a) ==
    /\ stage[a] = "fetched"
    /\ UpdatePeer(a, answer[a])
    /\ stage' = [stage EXCEPT ![a] = "updated"]
    /\ UNCHANGED <<agent, peerMetrics, browserVars, scraper, answer, ctxVars>>

\* Mutant: the metrics are cached under the peer's address.
ScrapeNotifiesByAddress(a) ==
    /\ stage[a] = "updated"
    /\ peerMetrics' = [peerMetrics EXCEPT ![Id(a, 0)] = <<a, answer[a]>>]
    /\ stage' = [stage EXCEPT ![a] = "idle"]
    /\ answer' = [answer EXCEPT ![a] = Never]
    /\ UNCHANGED <<agent, peers, browserVars, scraper, ctxVars>>

\* The callback stores the metrics under the id the peer gave itself.  The
\* families are parsed from the text the devices were parsed from, by the same
\* parser: where that fails the scrape has failed already.
ScrapeNotifies(a) ==
    /\ stage[a] = "updated"
    /\ peerMetrics' = [peerMetrics EXCEPT ![Id(a, answer[a])] = <<a, answer[a]>>]
    /\ stage' = [stage EXCEPT ![a] = "idle"]
    /\ answer' = [answer EXCEPT ![a] = Never]
    /\ UNCHANGED <<agent, peers, browserVars, scraper, ctxVars>>

ScrapeAllDone ==
    /\ scraper = "scraping"
    /\ \A a \in Address : stage[a] = "idle"
    /\ scraper' = "waiting"
    /\ UNCHANGED <<agent, peers, peerMetrics, browserVars,
                   stage, answer, ctxVars>>

ScraperStop ==
    /\ scraper = "waiting" /\ scraperCtx
    /\ scraper' = "stopped"
    /\ UNCHANGED <<agent, peers, peerMetrics, browserVars,
                   stage, answer, ctxVars>>

ScrapeGoroutine(a) ==
    \/ ScrapeBegin(a)
    \/ ScrapePeer(a)
    \/ ScrapeFails(a)
    \/ ScrapeUpdates(a)
    \/ ScrapeNotifies(a)

-----------------------------------------------------------------------------
(* The HTTP side.  /metrics reads the registry and the cache; the fleet    *)
(* API reads the registry.                                                 *)

\* buildMetricsGatherer: what is cached under the id of a registered peer.
Served(a) == peerMetrics[peers[a].id]

\* BuildFleetState: the peers counted healthy and the devices counted at all.
HealthyPeers == {a \in DOMAIN peers : peers[a].healthy}
PeerDevices  == {a \in DOMAIN peers : peers[a].version > 0}

\* The agent cancels the context; the shutdown that runs once, from the
\* context's goroutine or from Close, cancels the scraper's.
HubShutdown ==
    /\ ~hubCtx
    /\ hubCtx' = TRUE /\ scraperCtx' = TRUE
    /\ UNCHANGED <<agent, peers, peerMetrics, browserVars, scrapeVars, sem>>

\* ListenAndServe fails, which it does at once or not at all: the scraper stops, the browser goes on.
ListenFails ==
    /\ ~hubCtx /\ ~scraperCtx
    /\ DOMAIN peers = Static
    /\ scraperCtx' = TRUE
    /\ UNCHANGED <<agent, peers, peerMetrics, browserVars,
                   scrapeVars, hubCtx, sem>>

FleetNext ==
    \/ \E a \in Address : AgentRestarts(a)
    \/ \E a \in Advertised : BrowseFound(a)
    \/ BrowseEnd
    \/ ScrapeAll
    \/ \E a \in Address : ScrapeGoroutine(a)
    \/ ScrapeAllDone
    \/ ScraperStop
    \/ HubShutdown
    \/ ListenFails

-----------------------------------------------------------------------------
(* Correctness.                                                            *)

Namesakes(a) == {b \in DOMAIN peers : agent[b].name = agent[a].name}

\* What is served of a is what is listed of it, or of a namesake b that is not
\* just being stored and has not lost the name since.
ServedIsListed(a) ==
    \E b \in Namesakes(a), v \in 0 .. Versions :
        /\ Served(a) = <<b, v>>
        /\ b # a => peers[a].version > 0
        /\ \/ v = peers[b].version
           \/ b # a /\ (stage[b] = "updated" \/ peers[b].id # peers[a].id)

\* The registry, by address, and the metrics cache, by id, are filled in two
\* steps by concurrent goroutines, and a peer's id changes with its first flush
\* and its restarts.  Of a peer scraped to the end the hub serves the metrics
\* whose devices the registry lists: its own, unless it shares its name; then
\* perhaps a namesake's in their place.
ServesWhatItLists ==
    \A a \in DOMAIN peers :
        peers[a].version # Never /\ stage[a] # "updated" => ServedIsListed(a)

\* A peer that stays down ends up unhealthy in the fleet API, whatever the
\* other peers, the browser and the semaphore do.
DownPeerShown ==
    \A a \in Address :
        <>[](~agent[a].up /\ ~scraperCtx) => <>[](a \notin HealthyPeers)

==================================================================================
