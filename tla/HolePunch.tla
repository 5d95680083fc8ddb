------------------------------- MODULE HolePunch -------------------------------
(* Two nodes behind NATs connect.  The guest of an invite makes an accept token *)
(* of it (generate_accept); the host that redeems the token (redeem_accept)     *)
(* punches alone, then asks the guest through a relay (initiate_matchmake) and  *)
(* both punch (run_punch), each turning its WireGuard endpoint through the      *)
(* ports the other one may have.  How requests pass a relay is the subject of   *)
(* Matchmaking.  IPv6, with no NAT to pass, is left out.                        *)
EXTENDS NatProfile

CONSTANTS
  Side, Invite,
  Host,        \* Host[k]: the node that gave invite k
  Relayable,   \* the invites whose host has a peer that relays when it needs one
  Nats,        \* the pairs of NATs the nodes may be behind
  SlowTries,   \* 15: endpoints tried in 15 s, one a second
  FastTries,   \* 75: endpoints tried in 15 s, five a second
  MaxSilent,   \* bound: STUN servers that do not answer
  MaxSends     \* bound: ports WireGuard sends a handshake to

ASSUME PunchAssumption ==
  /\ IsFiniteSet(Side) /\ Cardinality(Side) = 2
  /\ Host \in [Invite -> Side] /\ Relayable \subseteq Invite
  /\ "none" \notin Invite
  /\ {SlowTries, FastTries, MaxSilent, MaxSends} \subseteq Nat
  /\ Nats \subseteq [Side -> NatShape]

VARIABLES
  nat,         \* nat[n]: what n is behind
  used,        \* ports a symmetric NAT has given
  silent,      \* STUN servers that have not answered
  profile,     \* nat_profile.json
  mail,        \* mail[k]: the token, request and exchange of an invite
  task,        \* task[n][k]: how far n is with invite k
  keyFile,     \* psk_punch.tmp
  tunnel,      \* tunnel[n]: key, endpoint and keepalive of n's WireGuard peer
  mapped,      \* mapped[n]: the port n's WireGuard is seen at by each port it has sent to
  shaken,      \* n has a handshake of the last 180 s
  given,       \* the key of the punch that has last begun to set the peer
  overlapped   \* nodes where two punches were at the key file at once

natVars == <<nat, used, silent, profile>>
wgVars == <<tunnel, mapped, shaken>>
ghostVars == <<given, overlapped>>
vars == <<natVars, mail, task, keyFile, wgVars, ghostVars>>

Peer(n) == CHOOSE m \in Side : m # n
NoTunnel == [key |-> "none", endpoint |-> 0, keepalive |-> FALSE]
NoInfo == Info(None)
NoConfig == PunchConfig("none", NoInfo)
Idle == [stage |-> "idle", read |-> None, ours |-> "none", config |-> NoConfig,
         at |-> 0, round |-> 1]

Init ==
  /\ nat \in Nats
  /\ used = [n \in Side |-> 0]
  /\ silent = 0
  /\ profile = [n \in Side |-> None]
  /\ mail = [k \in Invite |-> [token |-> NoInfo, request |-> NoInfo, exchange |-> NoInfo]]
  /\ task = [n \in Side |-> [k \in Invite |-> Idle]]
  /\ keyFile = [n \in Side |-> "none"]
  /\ tunnel = [n \in Side |-> NoTunnel]
  /\ mapped = [n \in Side |-> <<>>]
  /\ shaken = [n \in Side |-> FALSE]
  /\ given = [n \in Side |-> "none"] /\ overlapped = {}

Given(n, ports) == IF nat[n].kind = "symmetric" THEN used[n] + ports ELSE used[n]
Is(n, k, stage) == task[n][k].stage = stage
To(n, k, stage) == task' = [task EXCEPT ![n][k].stage = stage]
Ends(n, k, stage) == task' = [task EXCEPT ![n][k] = [Idle EXCEPT !.stage = stage]]

--------------------------------------------------------------------------------
(* Endpoint information.                                                      *)

\* refresh_mapping reads the profile and asks the servers ...
StartsRefresh(n, k, stage) ==
  task' = [task EXCEPT ![n][k].stage = stage, ![n][k].read = profile[n]]
\* ... which answer or not; what is found is stored unless it is nothing.
Refresh(n, k, answers) ==
  LET found == Characterized(nat[n], used[n], answers) IN
  /\ silent' = (IF answers = 2 THEN silent ELSE silent + 1) /\ silent' <= MaxSilent
  /\ profile' = [profile EXCEPT ![n] = Saved(@, task[n][k].read, found)]
  /\ used' = [used EXCEPT ![n] = Given(n, answers)]
  /\ UNCHANGED nat
Fresh(n, k, answers) ==
  Refreshed(task[n][k].read, Characterized(nat[n], used[n], answers))

GenerateAccept(n, k) ==
  /\ n # Host[k] /\ Is(n, k, "idle")
  /\ StartsRefresh(n, k, "accepting")
  /\ UNCHANGED <<natVars, mail, keyFile, wgVars, ghostVars>>

FinishAccept(n, k, answers) ==
  /\ Is(n, k, "accepting")
  /\ Refresh(n, k, answers)
  /\ mail' = [mail EXCEPT ![k].token = Info(Fresh(n, k, answers))]
  /\ Ends(n, k, "waiting")
  /\ UNCHANGED <<keyFile, wgVars, ghostVars>>

--------------------------------------------------------------------------------
(* run_punch.                                                                 *)

\* add_peer writes the key to a file; every punch of the node has the same one.
WritesKey(n, k) ==
  /\ keyFile' = [keyFile EXCEPT ![n] = k]
  /\ given' = [given EXCEPT ![n] = k]
  /\ overlapped' = IF \E l \in Invite \ {k} : task[n][l].stage \in {"keyed", "set", "unset"}
                     THEN overlapped \cup {n} ELSE overlapped

Starts(n, k, ours, info, round) ==
  /\ task' = [task EXCEPT ![n][k] =
       [Idle EXCEPT !.stage = "keyed", !.round = round,
                    !.config = PunchConfig(ours, info)]]
  /\ WritesKey(n, k)

\* Mutant: the key of a peer that WireGuard knows is left as it is.
SetPeerOnce(n, k) ==
  /\ Is(n, k, "keyed")
  /\ IF keyFile[n] = "none" THEN To(n, k, "unset") /\ UNCHANGED tunnel
     ELSE /\ To(n, k, "set")
          /\ tunnel' = [tunnel EXCEPT ![n] =
               IF @ = NoTunnel THEN [@ EXCEPT !.key = keyFile[n], !.keepalive = TRUE] ELSE @]
  /\ UNCHANGED <<natVars, mail, keyFile, mapped, shaken, ghostVars>>

\* Mutant: no keepalive is asked for.
SetPeerSilent(n, k) ==
  /\ Is(n, k, "keyed")
  /\ IF keyFile[n] = "none" THEN To(n, k, "unset") /\ UNCHANGED tunnel
     ELSE /\ To(n, k, "set")
          /\ tunnel' = [tunnel EXCEPT ![n].key = keyFile[n]]
  /\ UNCHANGED <<natVars, mail, keyFile, mapped, shaken, ghostVars>>

\* wg reads the file, whosever key it holds by then; it keeps the endpoint.
SetPeer(n, k) ==
  /\ Is(n, k, "keyed")
  /\ IF keyFile[n] = "none" THEN To(n, k, "unset") /\ UNCHANGED tunnel
     ELSE /\ To(n, k, "set")
          /\ tunnel' = [tunnel EXCEPT ![n].key = keyFile[n], ![n].keepalive = TRUE]
  /\ UNCHANGED <<natVars, mail, keyFile, mapped, shaken, ghostVars>>

\* The file is removed, whether wg could read it or not.
RemoveKey(n, k) ==
  /\ task[n][k].stage \in {"set", "unset"}
  /\ keyFile' = [keyFile EXCEPT ![n] = "none"]
  /\ IF Is(n, k, "set") THEN To(n, k, "trying") ELSE Ends(n, k, "failed")
  /\ UNCHANGED <<natVars, mail, wgVars, ghostVars>>

\* set_endpoint fails when the peer has told of no address.
Try(n, k) ==
  LET t == task[n][k] IN
  /\ t.stage = "trying"
  /\ task' = [task EXCEPT ![n][k].stage = "checking", ![n][k].at = @ + 1]
  /\ tunnel' = IF Addressed(t.config.peer)
                 THEN [tunnel EXCEPT ![n].endpoint = Turn(Candidates(t.config.peer), t.at)]
                 ELSE tunnel
  /\ UNCHANGED <<natVars, mail, keyFile, mapped, shaken, ghostVars>>

\* The endpoints there is time for; commands that take long leave less.
Tries(config) == IF config.initiate THEN SlowTries ELSE FastTries

\* check_handshake: a host that is connected stores its peer.
Connected(n, k) ==
  /\ Is(n, k, "checking") /\ shaken[n]
  /\ Ends(n, k, IF n = Host[k] THEN "stored" ELSE "done")
  /\ UNCHANGED <<natVars, mail, keyFile, wgVars, ghostVars>>

TriesOn(n, k) ==
  /\ Is(n, k, "checking") /\ ~shaken[n] /\ task[n][k].at < Tries(task[n][k].config)
  /\ To(n, k, "trying")
  /\ UNCHANGED <<natVars, mail, keyFile, wgVars, ghostVars>>

\* The time is up.  A host that has punched alone turns to a relay.  WireGuard keeps
\* the peer.
GivesUp(n, k) ==
  /\ Is(n, k, "checking") /\ ~shaken[n]
  /\ Ends(n, k, IF n = Host[k] /\ task[n][k].round = 1 THEN "relaying" ELSE "failed")
  /\ UNCHANGED <<natVars, mail, keyFile, wgVars, ghostVars>>

--------------------------------------------------------------------------------
(* redeem_accept and matchmaking.                                             *)

\* The invite is consumed, and the host punches towards what the token says.
RedeemAccept(n, k) ==
  /\ n = Host[k] /\ Is(n, k, "idle") /\ mail[k].token # NoInfo /\ Decodes(mail[k].token)
  /\ Starts(n, k, profile[n].type, Decoded(mail[k].token), 1)
  /\ mail' = [mail EXCEPT ![k].token = NoInfo]
  /\ UNCHANGED <<natVars, wgVars>>

\* There is no relay, it does not answer, or the guest does not.
NoRelay(n, k) ==
  /\ task[n][k].stage \in {"relaying", "asked"}
  /\ Ends(n, k, "failed")
  /\ UNCHANGED <<natVars, mail, keyFile, wgVars, ghostVars>>

\* gather_endpoint_info takes the profile of the last minute or refreshes it.
Gathering(n, k) ==
  \/ k \in Relayable /\ Is(n, k, "relaying")
  \/ n # Host[k] /\ Is(n, k, "waiting") /\ mail[k].request # NoInfo
Gather(n, k) ==
  /\ Gathering(n, k)
  /\ StartsRefresh(n, k, "gathering")
  /\ UNCHANGED <<natVars, mail, keyFile, wgVars, ghostVars>>

\* The host sends its request; the guest its exchange, and punches.
Tell(n, k, info) ==
  IF n = Host[k]
    THEN /\ mail' = [mail EXCEPT ![k].request = info]
         /\ task' = [task EXCEPT ![n][k] = [Idle EXCEPT !.stage = "asked", !.ours = info.type]]
         /\ UNCHANGED <<keyFile, ghostVars>>
    ELSE /\ mail' = [mail EXCEPT ![k].exchange = info, ![k].request = NoInfo]
         /\ Starts(n, k, info.type, Received(mail[k].request), 2)

GatheredCached(n, k) ==
  /\ Gathering(n, k) /\ profile[n] # None
  /\ Tell(n, k, Info(profile[n]))
  /\ UNCHANGED <<natVars, wgVars>>
Gathered(n, k, answers) ==
  /\ Is(n, k, "gathering")
  /\ Refresh(n, k, answers)
  /\ Tell(n, k, Info(Fresh(n, k, answers)))
  /\ UNCHANGED wgVars

Exchanged(n, k) ==
  /\ Is(n, k, "asked") /\ mail[k].exchange # NoInfo
  /\ Starts(n, k, task[n][k].ours, Received(mail[k].exchange), 2)
  /\ mail' = [mail EXCEPT ![k].exchange = NoInfo]
  /\ UNCHANGED <<natVars, wgVars>>

--------------------------------------------------------------------------------
(* WireGuard and the NATs, external.                                          *)

\* The port n is seen at by a packet to port d.
SeenAt(n, d) ==
  CASE d \in DOMAIN mapped[n] -> mapped[n][d]
    [] nat[n].kind = "symmetric" -> NextPort(nat[n], used[n])
    [] OTHER -> Outside(nat[n], WgPort)
\* A NAT lets in what comes from a port that was sent to, at the port it was sent from.
LetIn(n, d, from) ==
  IF nat[n].kind = "none" THEN d = WgPort
  ELSE from \in DOMAIN mapped[n] /\ mapped[n][from] = d

Reaches(n) == LET d == tunnel[n].endpoint IN LetIn(Peer(n), d, SeenAt(n, d))
SameKey == \A n, m \in Side : tunnel[n] # NoTunnel /\ tunnel[n].key = tunnel[m].key

Learns(n, d) == [p \in DOMAIN mapped[n] \cup {d} |-> IF p = d THEN SeenAt(n, d) ELSE mapped[n][p]]

\* A handshake or keepalive is sent.  It opens the NAT, and when it arrives under the
\* same key both ends have shaken hands and the peer has learnt the endpoint.
Send(n) ==
  LET d == tunnel[n].endpoint
      m == Peer(n) IN
  /\ (tunnel[n].keepalive \/ ~shaken[n]) /\ d # 0
  /\ d \in DOMAIN mapped[n] \/ Cardinality(DOMAIN mapped[n]) < MaxSends
  /\ used' = [used EXCEPT ![n] = IF d \in DOMAIN mapped[n] THEN @ ELSE Given(n, 1)]
  /\ IF Reaches(n) /\ SameKey
       THEN /\ mapped' = [mapped EXCEPT ![n] = Learns(n, d), ![m] = Learns(m, SeenAt(n, d))]
            /\ tunnel' = [tunnel EXCEPT ![m].endpoint = SeenAt(n, d)]
            /\ shaken' = [p \in Side |-> TRUE]
       ELSE mapped' = [mapped EXCEPT ![n] = Learns(n, d)] /\ UNCHANGED <<tunnel, shaken>>
  /\ UNCHANGED <<nat, silent, profile, mail, task, keyFile, ghostVars>>

--------------------------------------------------------------------------------
Punch(n, k) ==
  SetPeer(n, k) \/ RemoveKey(n, k) \/ Try(n, k) \/ Connected(n, k) \/ TriesOn(n, k) \/ GivesUp(n, k)
Relayed(n, k) ==
  NoRelay(n, k) \/ Gather(n, k) \/ GatheredCached(n, k) \/ Exchanged(n, k)

Next ==
  \/ \E n \in Side, k \in Invite :
       \/ GenerateAccept(n, k) \/ RedeemAccept(n, k) \/ Punch(n, k) \/ Relayed(n, k)
       \/ \E answers \in 0 .. 2 : FinishAccept(n, k, answers) \/ Gathered(n, k, answers)
  \/ \E n \in Side : Send(n)

\* WireGuard goes on sending keepalives.
Fairness == \A n \in Side : WF_vars(Send(n))
Spec == Init /\ [][Next]_vars /\ Fairness

--------------------------------------------------------------------------------
(* Properties.                                                                *)

Running(n, k) == task[n][k].stage \in {"keyed", "set", "unset", "trying", "checking"}

\* As long as no two punches of a node are at the key file at once, WireGuard has the key
\* of the one that was there last (SystemWgControl::add_peer).
KeyIsOwn == \A n \in Side \ overlapped :
  given[n] # "none" /\ (\A k \in Invite : ~Is(n, k, "keyed")) => tunnel[n].key = given[n]

\* The port a peer will be seen at is tried (build_candidates): for a NAT that keeps
\* ports although the profile describes another socket, for a symmetric one as long as
\* it has not given more ports since the profile than there are strides, and their
\* distance is not one that 16 bits turn round.
Predictable(m, port, info) ==
  \/ nat[m].kind # "symmetric" /\ nat[m].keeps
  \/ /\ info.type = "symmetric" /\ port \notin DOMAIN mapped[m]
     /\ SeenAt(m, port) \in Usable
     /\ \E i \in 1 .. Strides : NextPort(nat[m], used[m] - i) = info.port
                                /\ nat[m].stride * i < 32768
GuessesRight == \A n \in Side, k \in Invite :
  LET port == SeenAt(n, 0)
      info == task[n][k].config.peer IN
  Running(n, k) /\ nat[n].kind # "symmetric" /\ Predictable(Peer(n), port, info)
    => \E c \in Candidates(info) : c.port = SeenAt(Peer(n), port)

Quiet == \A n \in Side : shaken[n] /\ \A k \in Invite : ~Running(n, k)

\* Two connected ends that share a key, of which one still has the other's endpoint, come to have
\* both: a punch that sets an endpoint after the handshake and before its check is
\* corrected by the peer's keepalive.
Heals ==
  <>[](Quiet /\ SameKey /\ \E n \in Side : Reaches(n)) => <>[](\A n \in Side : Reaches(n))

================================================================================
