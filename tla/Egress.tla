------------------------------- MODULE Egress -------------------------------
(***************************************************************************)
(* The way out of the sandbox: one proxy, listening on the two sockets of  *)
(* at most one session (session-egress.ts, egress/proxy.ts).  ensure() and *)
(* close() are links of a promise chain; a link runs to its next await,    *)
(* which is a value of step.  A client is a connection that a forwarder in *)
(* a container (egress-forwarder.ts) opens; the awaits of route() are the  *)
(* values of its phase.  Names and what they resolve to are abstract, the  *)
(* addresses are Address's.                                                *)
(***************************************************************************)
EXTENDS Address, FiniteSets

CONSTANTS
  Sessions,      (* Workspaces, by session id.                              *)
  Calls,         (* Names of the daemon's calls; each makes one request.    *)
  Clients,       (* Connections from the containers, one at a time each.    *)
  MaxUpstreams,  (* EgressProxyOptions.maxUpstreams.                        *)
  Literals,      (* The addresses that requests name.                       *)
  Names,         (* The host names that requests name,                      *)
  LocalNames,    (* those of them that PRIVATE_HOSTS matches,               *)
  Resolutions,   (* and what the resolver may answer to one.                *)
  None           (* No session.                                             *)

ASSUME EgressAssumption ==
  /\ None \notin Sessions
  /\ MaxUpstreams \in Nat \ {0} /\ IsFiniteSet(Clients)
  /\ Literals \subseteq IPv4 \cup IPv6
  /\ LocalNames \subseteq Names
  /\ \A answer \in Resolutions : answer \in Seq(IPv4 \cup IPv6)

VARIABLES
  chain,      (* SessionEgress.transition: the links not yet resolved.      *)
  step,       (* The await of the first link.                               *)
  outcome,    (* How each call's link was resolved.                         *)
  proxy,      (* SessionEgress.sessionId, None without a proxy.             *)
  listening,  (* The sockets a server listens on.                           *)
  client,     (* Each client's phase, session, and the host it asks for or  *)
              (* the address it is connected to.                            *)
  upstreams,  (* EgressProxy.upstreams of the proxy in place.               *)
  requested   (* History: the calls whose request was made.                 *)

links == <<chain, step, outcome, proxy, listening>>
egressVars == <<links, client, upstreams, requested>>

Switch == INSTANCE EgressSwitch WITH served <- proxy
ImplementsSwitch == Switch!SwitchSpec

Modes == Switch!Modes
Target(t) == Switch!Target(t)
Surfaces == {"terminal", "browser"}
SocketPaths(s) == {s} \X Surfaces

Held == {"asking", "resolving", "dropped"}   (* route() awaits. *)
Upstream == {"dialing", "piped", "cut"}      (* The proxy counts it. *)
Phases == Held \cup Upstream \cup {"idle", "stray"}
Idle == [at |-> "idle", sid |-> None, to |-> None]
Addresses == Literals \cup UNION {{answer[i] : i \in DOMAIN answer} : answer \in Resolutions}

EgressTypeOK ==
  /\ Switch!SwitchTypeOK
  /\ step \in {"idle", "closing", "opening"}
  /\ listening \subseteq Sessions \X Surfaces
  /\ client \in [Clients -> [at : Phases, sid : Sessions \cup {None},
                             to : Names \cup Addresses \cup {None}]]
  /\ upstreams \in 0 .. MaxUpstreams
  /\ requested \subseteq Calls

EgressInit ==
  /\ Switch!SwitchInit
  /\ step = "idle" /\ listening = {}
  /\ client = [c \in Clients |-> Idle]
  /\ upstreams = 0
  /\ requested = {}

-----------------------------------------------------------------------------
(* ensure(sid, mode), and close(), which is a link to no session.          *)
Ensure(i, s, m) ==
  /\ i \notin requested /\ requested' = requested \cup {i}
  /\ Switch!Ask(i, s, m)
  /\ UNCHANGED <<step, listening, client, upstreams>>

Resolve(how) ==
  /\ Switch!Resolve(how)
  /\ step' = "idle"

(* Mutant: a client whose request is being decided is not destroyed.       *)
CloseProxyHolding ==
  /\ client' = [c \in Clients |->
       IF client[c].at \in Upstream THEN [client[c] EXCEPT !.at = "stray"] ELSE client[c]]
  /\ upstreams' = 0
  /\ listening' = {}

(* EgressProxy.close(): destroy the clients, stop listening.  A client that *)
(* route() holds finds itself destroyed after its await; the upstream of    *)
(* another closes later, and counts for a proxy that is gone.               *)
CloseProxy ==
  /\ client' = [c \in Clients |->
       CASE client[c].at \in Held     -> [client[c] EXCEPT !.at = "dropped"]
         [] client[c].at \in Upstream -> [client[c] EXCEPT !.at = "stray"]
         [] OTHER                     -> client[c]]
  /\ upstreams' = 0
  /\ listening' = {}

(* Mutant: an open proxy is taken for the one that is asked for.           *)
ServedAny(t) == t.mode = "open" /\ proxy # None

(* apply() and closeProxy() to their await.                                *)
Served(t) == t.mode = "open" /\ t.sid # None /\ proxy = t.sid
Apply ==
  /\ chain # <<>> /\ step = "idle"
  /\ \/ /\ Served(Head(chain))
        /\ Resolve("ok")
        /\ UNCHANGED <<proxy, listening, client, upstreams>>
     \/ /\ ~Served(Head(chain))
        /\ proxy' = None
        /\ CloseProxy
        /\ step' = "closing"
        /\ UNCHANGED <<chain, outcome>>
  /\ UNCHANGED requested

(* The sockets of the session that was asked for are removed, if any was.  *)
Closed ==
  /\ step = "closing"
  /\ \/ Head(chain).sid # None /\ Resolve("failed")
     \/ Target(Head(chain)) = None /\ Resolve("ok")
     \/ Target(Head(chain)) # None /\ step' = "opening" /\ UNCHANGED <<chain, outcome>>
  /\ UNCHANGED <<proxy, listening, client, upstreams, requested>>

(* EgressProxy.listen() on the session's sockets, one after the other.     *)
Listen ==
  /\ step = "opening"
  /\ LET s == Head(chain).sid IN
     IF <<s, "terminal">> \in listening
     THEN /\ listening' = SocketPaths(s)
          /\ proxy' = s
          /\ Resolve("ok")
     ELSE /\ listening' = {<<s, "terminal">>}
          /\ UNCHANGED <<proxy, chain, step, outcome>>
  /\ UNCHANGED <<client, upstreams, requested>>

ListenFails ==
  /\ step = "opening"
  /\ CloseProxy
  /\ Resolve("failed")
  /\ UNCHANGED <<proxy, requested>>

-----------------------------------------------------------------------------
Goes(c, from, to, host) ==
  /\ client[c].at \in from
  /\ client' = [client EXCEPT ![c] =
       IF to = "idle" THEN Idle ELSE [@ EXCEPT !.at = to, !.to = host]]
MovesTo(c, from, to) == Goes(c, from, to, None)

isPrivateHost(host) ==
  \/ host \in LocalNames
  \/ host \in Literals /\ isPrivateIp(host)

(* dns.lookup: an address is its own answer, a name has another one at     *)
(* every lookup, or none.                                                  *)
LookedUp(host) == IF host \in Literals THEN {<<host>>} ELSE Resolutions \cup {<<>>}

(* handle(): the forwarder's connection, and its request's head.           *)
Accepts(c) ==
  /\ client[c].at = "idle"
  /\ \E x \in listening : client' = [client EXCEPT ![c] = [Idle EXCEPT !.at = "asking", !.sid = x[1]]]
  /\ UNCHANGED upstreams

(* parseTarget() finds no target in it, or it is too long.                 *)
BadRequest(c) == MovesTo(c, {"asking"}, "idle") /\ UNCHANGED upstreams

(* opts.decide() has answered, or the host was refused before it was asked. *)
Decided(c) ==
  /\ \E host \in Literals \cup Names :
       \/ MovesTo(c, {"asking"}, "idle")
       \/ ~isPrivateHost(host) /\ Goes(c, {"asking"}, "resolving", host)
  /\ UNCHANGED upstreams

(* Mutant: the name is looked up again for the connection.                 *)
ResolvedAgain(c) ==
  \E answer, again \in LookedUp(client[c].to) :
    LET refused == answer = <<>> \/ \E i \in DOMAIN answer : isPrivateIp(answer[i]) IN
    \/ /\ refused \/ upstreams >= MaxUpstreams
       /\ MovesTo(c, {"resolving"}, "idle")
       /\ UNCHANGED upstreams
    \/ /\ ~refused /\ upstreams < MaxUpstreams /\ again # <<>>
       /\ Goes(c, {"resolving"}, "dialing", again[1])
       /\ upstreams' = upstreams + 1

(* lookup() has answered: refused for its addresses or for the limit, or    *)
(* the first of them dialled.                                               *)
Resolved(c) ==
  \E answer \in LookedUp(client[c].to) :
    LET refused == answer = <<>> \/ \E i \in DOMAIN answer : isPrivateIp(answer[i]) IN
    \/ /\ refused \/ upstreams >= MaxUpstreams
       /\ MovesTo(c, {"resolving"}, "idle")
       /\ UNCHANGED upstreams
    \/ /\ ~refused /\ upstreams < MaxUpstreams
       /\ Goes(c, {"resolving"}, "dialing", answer[1])
       /\ upstreams' = upstreams + 1

Dialed(c) == Goes(c, {"dialing"}, "piped", client[c].to) /\ UNCHANGED upstreams

(* The container closes its end: pipes are torn down, route() finds out.    *)
Leaves(c) ==
  /\ \/ MovesTo(c, {"asking", "resolving"}, "dropped")
     \/ MovesTo(c, {"dialing", "piped"}, "cut")
  /\ UNCHANGED upstreams

(* `if (client.destroyed) return' after an await of route().               *)
Dropped(c) == MovesTo(c, {"dropped"}, "idle") /\ UNCHANGED upstreams

(* finish(): the upstream's close event.                                   *)
UpstreamCloses(c) ==
  \/ /\ MovesTo(c, Upstream, "idle")
     /\ upstreams' = upstreams - 1
  \/ /\ MovesTo(c, {"stray"}, "idle")
     /\ UNCHANGED upstreams

Route ==
  /\ \E c \in Clients :
       \/ Accepts(c) \/ BadRequest(c) \/ Decided(c) \/ Resolved(c) \/ Dialed(c)
       \/ Leaves(c) \/ Dropped(c) \/ UpstreamCloses(c)
  /\ UNCHANGED <<links, requested>>

EgressNext ==
  \/ \E i \in Calls, s \in Sessions, m \in Modes : Ensure(i, s, m)
  \/ \E i \in Calls : Ensure(i, None, "none")
  \/ Apply \/ Closed \/ Listen \/ ListenFails
  \/ Route

EgressSpec == EgressInit /\ [][EgressNext]_egressVars

-----------------------------------------------------------------------------
(* The sockets that are open are those of one session, and once a link is *)
(* resolved those of the proxy in place, so that it can close them.  Links *)
(* that overlapped would leave one proxy listening with nothing to close   *)
(* it (session-egress.ts:30).                                              *)
NothingElseListens ==
  /\ \A x, y \in listening : x[1] = y[1]
  /\ step = "idle" => listening = IF proxy = None THEN {} ELSE SocketPaths(proxy)

(* Bytes pass only for the session that is served: what the human switched *)
(* off is silent at once, though a decision or a lookup made for it is yet *)
(* to be answered (proxy.ts:115, :123).                                    *)
OffIsSilent ==
  \A c \in Clients : client[c].at \in {"dialing", "piped"} =>
    \/ proxy = client[c].sid
    \/ step = "opening" /\ Head(chain).sid = client[c].sid

(* The proxy counts the upstreams it has, so that its limit neither leaks  *)
(* away nor is passed by clients that were checked together (proxy.ts:126). *)
UpstreamsCounted ==
  /\ upstreams = Cardinality({c \in Clients : client[c].at \in Upstream})
  /\ upstreams <= MaxUpstreams

(* No connection is to an address in the ranges of private-address.ts, in  *)
(* whichever spelling the request or the resolver gave it, and             *)
(* however a name's answers change between lookups (proxy.ts:3).           *)
Private(ip) == IF Len(ip) = 4 THEN Private4(ip) ELSE Private6(ip)
ReachesPublic ==
  \A c \in Clients : client[c].at \in {"dialing", "piped"} =>
    client[c].to \in Addresses /\ ~Private(client[c].to)

(* Whatever is opened, dialled or cut off meanwhile, only the session that *)
(* is served has sockets, connections and a count of them, and they lead   *)
(* to public addresses.                                                    *)
Confined == EgressTypeOK /\ NothingElseListens /\ OffIsSilent /\ UpstreamsCounted /\ ReachesPublic
=============================================================================
