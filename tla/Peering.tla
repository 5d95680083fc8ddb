-------------------------------- MODULE Peering --------------------------------
(* How two nodes become peers: invites, LAN invites, accept tokens and open    *)
(* invites (daemon/src/api/node_routes.rs, lan_routes.rs, invite.rs,           *)
(* open_invite.rs), the WireGuard peers they configure and save and the        *)
(* addresses they hand out (wireguard.rs), the access groups (access/src), and *)
(* what a daemon restores when it starts (main.rs).                            *)
(*                                                                            *)
(* A request is a job: the step its handler is at, at the host (who            *)
(* invites) or at the guest (who is invited).  A handler that calls the other  *)
(* daemon waits for the answer, so one job runs at one node at a time; jobs    *)
(* interleave.  A file is read in one step and rewritten in another.           *)
EXTENDS Integers, Sequences, FiniteSets, SequencesExt

CONSTANTS
  Node,         \* nodes; the order of their public keys is that of the numbers
  Job,          \* the requests that may be made; an invite's name is its psk
  Kinds,        \* what users may ask for, of the fields of Program
  NoJob,        \* no pre-shared key
  MaxBusy,      \* bound on the requests in progress at a time
  MaxAddress,   \* bound on the addresses assigned
  MaxOpen,      \* max_peers of an open invite
  MaxFaults     \* bound on the restarts and the requests that are cut short

ASSUME ConstantsAssumption ==
  /\ Node \subseteq Nat \ {0} /\ NoJob \notin Job
  /\ MaxBusy \in Nat /\ MaxAddress \in Nat \ {0} /\ MaxOpen \in Nat /\ MaxFaults \in Nat

VARIABLES
  listed,     \* peers.json and the list in memory, in order
  tunnel,     \* tunnel[n][m]: m's entry on n's WireGuard interface
  saved,      \* wireguard/peers/: a file per name
  invites,    \* pending_invites.json
  addresses,  \* wireguard/addresses.json
  open,       \* nodes with an open invite
  groups,     \* peer_group_memberships of access.db
  codes,      \* invite codes handed over to users
  job,        \* the requests
  faults,
  trouble     \* what has gone wrong so far

files == <<saved, invites, addresses, open>>
vars == <<listed, tunnel, files, groups, codes, job, faults, trouble>>

--------------------------------------------------------------------------------
Own == 1            \* 100.222.0.1, the address every node gives itself

Trust == {"friend", "public", "restricted"}
Group == {"default", "friends"}

NoTunnel == [psk |-> NoJob, addr |-> 0]
NoRequest(kind) == [kind |-> kind, host |-> 0, guest |-> 0, psk |-> NoJob, addr |-> 0,
                    copy |-> {}, at |-> 0]

H(op) == [role |-> "host", op |-> op]
G(op) == [role |-> "guest", op |-> op]

Generate == <<H("readAddresses"), H("assign"), H("readInvites"), H("invite")>>
Complete == <<H("readInvites"), H("take"), H("tunnel"), H("list")>>

\* redeem_invite configures the tunnel before it calls complete_invite; lan_accept
\* answers the lan_invite of the host, and redeem_open_invite calls open_join.
\* redeem_accept does at the host, through a hole punch, what complete_invite does.
RedeemSteps == <<G("tunnel")>> \o Complete \o <<G("list")>>
LanSteps    == Generate \o <<G("race"), G("tunnel")>> \o Complete \o <<G("list")>>
AcceptSteps == Complete
OpenSteps   == <<H("admit"), H("readAddresses"), H("assign"), H("tunnel"), H("push"),
                 G("tunnel"), G("list")>>
ForgetSteps == <<H("drop"), H("close")>>

\* The steps of each handler, with those of the handler it calls.
Program ==
  [invite |-> Generate, redeem |-> RedeemSteps, lan |-> LanSteps,
   accept |-> AcceptSteps, open |-> OpenSteps, forget |-> ForgetSteps]

Calls    == {"redeem", "lan", "open", "accept"}   \* requests that make peers
OneSided == {"accept", "forget"}                  \* of which one node knows

\* The step a job is at; it is made at one of the two nodes.
Busy(j) == job[j].at # 0
Now(j)  == Program[job[j].kind][job[j].at]

AtHost(j) == Now(j).role = "host"
Here(j)   == IF AtHost(j) THEN job[j].host ELSE job[j].guest
Peer(j)   == IF AtHost(j) THEN job[j].guest ELSE job[j].host

\* A call to the other daemon is about to be made or answered.
Waits(j) == job[j].at > 1 /\ Program[job[j].kind][job[j].at - 1].role # Now(j).role

At(j, op) == Busy(j) /\ Now(j).op = op

End(j)     == [job EXCEPT ![j] = NoRequest("done")]
Proceed(j) ==
  IF job[j].at = Len(Program[job[j].kind]) THEN End(j) ELSE [job EXCEPT ![j].at = @ + 1]

Lists(n, m) == \E i \in 1 .. Len(listed[n]) : listed[n][i].key = m

\* assign_next_address: the first of .0.2, .0.3, ... that is not in the file.
IsNext(a, used) == a \notin used /\ \A b \in 2 .. a - 1 : b \in used

\* The address a node gives the peer of a job: the one it assigned, or the
\* host's own.
AddressFor(j) == IF AtHost(j) THEN job[j].addr ELSE Own

\* The name of the file a peer is saved in: its node id in an open invite, which
\* carries it, and "pending" in all others.
FileName(j) == IF job[j].kind = "open" THEN Peer(j) ELSE 0

\* wg set peer ... allowed-ips takes the address away from any other peer.
Configured(t, m, psk, addr) ==
  [k \in Node |-> IF k = m THEN [psk |-> psk, addr |-> addr]
                  ELSE IF t[k].addr = addr THEN [t[k] EXCEPT !.addr = 0] ELSE t[k]]

Init ==
  /\ listed = [n \in Node |-> <<>>]
  /\ tunnel = [n \in Node |-> [m \in Node |-> NoTunnel]]
  /\ saved = [n \in Node |-> {}]
  /\ invites = [n \in Node |-> {}]
  /\ addresses = [n \in Node |-> {}]
  /\ open = {}
  /\ groups = [n \in Node |-> {}]
  /\ codes = {}
  /\ job = [j \in Job |-> NoRequest("none")]
  /\ faults = 0
  /\ trouble = {}

--------------------------------------------------------------------------------
(* Requests.                                                                  *)

\* Two requests between the same two nodes at a time.
Crossing(n, m) ==
  \E k \in Job : Busy(k) /\ job[k].kind \in Calls /\ {job[k].host, job[k].guest} = {n, m}

Request(j, kind, host, guest, psk, addr) ==
  /\ kind \in Kinds /\ job[j] = NoRequest("none") /\ host # guest
  /\ Cardinality({k \in Job : Busy(k)}) < MaxBusy
  /\ job' = [job EXCEPT ![j] = [kind |-> kind, host |-> host, guest |-> guest,
               psk |-> psk, addr |-> addr, copy |-> {}, at |-> 1]]
  /\ trouble' = trouble \cup (IF kind \in Calls /\ Crossing(host, guest)
                                THEN {"crossed"} ELSE {})
                        \cup (IF kind \in OneSided THEN {"oneSided"} ELSE {})
  /\ UNCHANGED <<listed, tunnel, files, groups, codes, faults>>

\* create_invite, lan_invite and redeem_open_invite.
Create(j, n, m)  == Request(j, "invite", n, m, j, 0)
LanInvite(j, n, m) == Request(j, "lan", n, m, j, 0)
RedeemOpen(j, n, m) == Request(j, "open", n, m, j, 0)

\* redeem_accept is made with the token the guest has made of the code.
Redeem(j, m) == \E c \in codes : Request(j, "redeem", c.host, m, c.psk, 0)

RedeemAccept(j, m) == \E c \in codes : Request(j, "accept", c.host, m, c.psk, 0)

\* remove_peer names a node id; the user sees the list.
Forget(j, n, m) == Request(j, "forget", n, m, NoJob, 0)

--------------------------------------------------------------------------------
(* Steps of the handlers.                                                     *)

\* Another request of this node has read the file and is about to write it.
Overlaps(j, ops) ==
  \E k \in Job \ {j} : Busy(k) /\ Here(k) = Here(j) /\ Now(k).op \in ops

ReadAddresses(j) ==
  /\ At(j, "readAddresses")
  /\ job' = [Proceed(j) EXCEPT ![j].copy = addresses[Here(j)]]
  /\ trouble' = trouble \cup (IF Overlaps(j, {"assign"}) THEN {"raced"} ELSE {})
  /\ UNCHANGED <<listed, tunnel, files, groups, codes, faults>>

\* Mutant: the address is handed out and not written down.
AssignOnly(j) ==
  /\ At(j, "assign")
  /\ \E a \in 2 .. MaxAddress :
       IsNext(a, job[j].copy) /\ job' = [Proceed(j) EXCEPT ![j].addr = a, ![j].copy = {}]
  /\ UNCHANGED <<listed, tunnel, files, groups, codes, faults, trouble>>

Assign(j) ==
  /\ At(j, "assign")
  /\ \E a \in 2 .. MaxAddress :
       /\ IsNext(a, job[j].copy)
       /\ addresses' = [addresses EXCEPT ![Here(j)] = job[j].copy \cup {a}]
       /\ job' = [Proceed(j) EXCEPT ![j].addr = a, ![j].copy = {}]
  /\ UNCHANGED <<listed, tunnel, saved, invites, open, groups, codes, faults,
                 trouble>>

ReadInvites(j) ==
  /\ At(j, "readInvites")
  /\ job' = [Proceed(j) EXCEPT ![j].copy = invites[Here(j)]]
  /\ trouble' = trouble \cup (IF Overlaps(j, {"invite", "take"}) THEN {"raced"} ELSE {})
  /\ UNCHANGED <<listed, tunnel, files, groups, codes, faults>>

\* generate saves the invite and makes the code, which only create_invite gives
\* to the user.
Invite(j) ==
  LET i == [psk |-> job[j].psk, addr |-> job[j].addr] IN
  /\ At(j, "invite")
  /\ invites' = [invites EXCEPT ![Here(j)] = job[j].copy \cup {i}]
  /\ codes' = IF job[j].kind = "lan" THEN codes
              ELSE codes \cup {[psk |-> i.psk, host |-> Here(j)]}
  /\ job' = [Proceed(j) EXCEPT ![j].copy = {}]
  /\ UNCHANGED <<listed, tunnel, saved, addresses, open, groups, faults,
                 trouble>>

Invited(j) == {i \in job[j].copy : i.psk = job[j].psk}

\* Mutant: the invite is used but not removed.
TakeAgain(j) ==
  /\ At(j, "take") /\ Invited(j) # {}
  /\ \E i \in Invited(j) : job' = [Proceed(j) EXCEPT ![j].addr = i.addr, ![j].copy = {}]
  /\ UNCHANGED <<listed, tunnel, files, groups, codes, faults, trouble>>

\* consume_by_psk finds the invite, removes it and saves the rest.
Take(j) ==
  /\ At(j, "take") /\ Invited(j) # {}
  /\ invites' = [invites EXCEPT ![Here(j)] = job[j].copy \ Invited(j)]
  /\ \E i \in Invited(j) : job' = [Proceed(j) EXCEPT ![j].addr = i.addr, ![j].copy = {}]
  /\ UNCHANGED <<listed, tunnel, saved, addresses, open, groups, codes, faults,
                 trouble>>

\* The invite is gone or has expired (it may at any time): complete_invite and
\* redeem_accept answer 410.  redeem_invite gives up; lan_accept does not look at
\* the answer and goes on to list the host.
Untaken(j) ==
  /\ At(j, "take")
  /\ invites' = [invites EXCEPT ![Here(j)] =
                   IF Invited(j) = {} THEN @ ELSE job[j].copy \ Invited(j)]
  /\ job' = IF job[j].kind = "lan"
              THEN [job EXCEPT ![j].copy = {}, ![j].at = Len(LanSteps)] ELSE End(j)
  /\ trouble' = trouble \cup {"oneSided"}
  /\ UNCHANGED <<listed, tunnel, saved, addresses, open, groups, codes, faults>>

\* Mutant: a guest that has a tunnel to the host keeps it as it is.
AddTunnelOnce(j) ==
  LET n == Here(j)
      kept == ~AtHost(j) /\ tunnel[n][Peer(j)] # NoTunnel
  IN
  /\ At(j, "tunnel")
  /\ tunnel' = IF kept THEN tunnel
       ELSE [tunnel EXCEPT ![n] = Configured(@, Peer(j), job[j].psk, AddressFor(j))]
  /\ job' = Proceed(j)
  /\ UNCHANGED <<listed, files, groups, codes, faults, trouble>>

\* wireguard::add_peer configures the interface and saves the peer under its
\* name, over any other peer of that name.
AddTunnel(j) ==
  LET n == Here(j) IN
  /\ At(j, "tunnel")
  /\ tunnel' = [tunnel EXCEPT ![n] = Configured(@, Peer(j), job[j].psk, AddressFor(j))]
  /\ saved' = [saved EXCEPT ![n] = {f \in @ : f.name # FileName(j)} \cup
       {[name |-> FileName(j), key |-> Peer(j), psk |-> job[j].psk, addr |-> AddressFor(j)]}]
  /\ job' = Proceed(j)
  /\ UNCHANGED <<listed, invites, addresses, open, groups, codes, faults,
                 trouble>>

\* The peer is appended unless its key is listed.  Its node id is asked for over
\* HTTP and stays unknown (0) if nobody answers.  The group it should get is
\* looked up with hex::decode of a base64 key, which always fails: no membership.
List(j) ==
  LET n == Here(j) IN
  /\ At(j, "list")
  /\ \E id \in IF job[j].kind = "accept" THEN {0}
               ELSE IF job[j].kind = "open" THEN {Peer(j)} ELSE {0, Peer(j)} :
       listed' = [listed EXCEPT ![n] = IF Lists(n, Peer(j)) THEN @
         ELSE Append(@, [id |-> id, key |-> Peer(j), addr |-> AddressFor(j),
                         trust |-> "friend"])]
  /\ job' = Proceed(j)
  /\ UNCHANGED <<tunnel, files, groups, codes, faults, trouble>>

\* lan_accept ends if the host is listed.  An entry on the interface for a host
\* that is not listed is taken for a race of two invites: the lower key's invite
\* wins, so the job ends, or the entry is removed again.
Race(j) ==
  LET n == Here(j)  p == Peer(j)
      wired == tunnel[n][p] # NoTunnel
  IN
  /\ At(j, "race")
  /\ job' = IF Lists(n, p) \/ (wired /\ n < p) THEN End(j) ELSE Proceed(j)
  /\ IF ~Lists(n, p) /\ wired /\ n > p
       THEN /\ tunnel' = [tunnel EXCEPT ![n][p] = NoTunnel]
            /\ saved' = [saved EXCEPT ![n] = {f \in @ : f.name # 0}]
       ELSE UNCHANGED <<tunnel, saved>>
  /\ UNCHANGED <<listed, invites, addresses, open, groups, codes, faults,
                 trouble>>

Public(n) == SelectSeq(listed[n], LAMBDA p : p.trust = "public")

\* open_join: there is an open invite, the guest is not listed, and there is room.
Admit(j) ==
  LET n == Here(j) IN
  /\ At(j, "admit")
  /\ job' = IF n \in open /\ ~Lists(n, Peer(j)) /\ Len(Public(n)) < MaxOpen
              THEN Proceed(j) ELSE End(j)
  /\ UNCHANGED <<listed, tunnel, files, groups, codes, faults, trouble>>

\* open_join appends the guest without looking again.
Push(j) ==
  LET n == Here(j) IN
  /\ At(j, "push")
  /\ listed' = [listed EXCEPT ![n] = Append(@, [id |-> Peer(j), key |-> Peer(j),
                  addr |-> job[j].addr, trust |-> "public"])]
  /\ job' = Proceed(j)
  /\ UNCHANGED <<tunnel, files, groups, codes, faults, trouble>>

\* The list, in its order, without the peers of a node id.
Without(list, id) ==
  LET kept  == {i \in 1 .. Len(list) : list[i].id # id}
      count == 1 .. Cardinality(kept)
  IN  {[i \in count |-> list[place[i]]] : place \in
         {f \in [count -> kept] : \A i, k \in count : i < k => f[i] < f[k]}}

\* The first entry of the list with a value in a field.
IsFirst(i, list, field, value) ==
  list[i][field] = value /\ \A k \in 1 .. i - 1 : list[k][field] # value

\* remove_peer drops every peer of the node id from the list; of its groups and
\* of the interface it removes the first one's key, and of the files the one of
\* the id.
Drop(j) ==
  LET n == Here(j)  list == listed[n] IN
  /\ At(j, "drop")
  /\ IF ~Lists(n, Peer(j))
       THEN job' = End(j) /\ UNCHANGED <<listed, groups>>
       ELSE \E asked, i \in 1 .. Len(list) :
              LET id == list[asked].id  key == list[i].key IN
              /\ IsFirst(asked, list, "key", Peer(j)) /\ IsFirst(i, list, "id", id)
              /\ \E rest \in Without(list, id) : listed' = [listed EXCEPT ![n] = rest]
              /\ groups' = [groups EXCEPT ![n] = {g \in @ : g.key # key}]
              /\ job' = [Proceed(j) EXCEPT ![j].guest = key, ![j].addr = id]
  /\ UNCHANGED <<tunnel, files, codes, faults, trouble>>

Close(j) ==
  LET n == Here(j) IN
  /\ At(j, "close")
  /\ tunnel' = [tunnel EXCEPT ![n][Peer(j)] = NoTunnel]
  /\ saved' = [saved EXCEPT ![n] = {f \in @ : f.name # job[j].addr \/ job[j].addr = 0}]
  /\ job' = Proceed(j)
  /\ UNCHANGED <<listed, invites, addresses, open, groups, codes, faults,
                 trouble>>

\* A call to the other daemon fails or times out, or the hole cannot be punched:
\* the handlers of the job stop where they are.
Abandon(j) ==
  /\ Waits(j)
  /\ faults < MaxFaults /\ faults' = faults + 1
  /\ job' = End(j)
  /\ trouble' = trouble \cup {"oneSided"}
  /\ UNCHANGED <<listed, tunnel, files, groups, codes>>

--------------------------------------------------------------------------------
(* Requests that are done in one step, and restarts.                          *)

Quick(j, kind) ==
  /\ kind \in Kinds /\ job[j] = NoRequest("none") /\ job' = End(j)
  /\ UNCHANGED <<tunnel, saved, invites, addresses, codes, faults, trouble>>

\* create_open_invite replaces the file, revoke_open_invite removes it.
SwitchOpen(j, n) ==
  /\ Quick(j, "switch")
  /\ open' = IF n \in open THEN open \ {n} ELSE open \cup {n}
  /\ UNCHANGED <<listed, groups>>

\* assign_peer_to_group, remove_peer_from_group and deny_peer, for any key.
AssignToGroup(j, n, m, g) ==
  /\ Quick(j, "group") /\ m # n
  /\ groups' = [groups EXCEPT ![n] = @ \cup {[key |-> m, group |-> g]}]
  /\ UNCHANGED <<listed, open>>

RemoveFromGroup(j, n, member) ==
  /\ Quick(j, "group")
  /\ groups' = [groups EXCEPT ![n] = @ \ {member}]
  /\ UNCHANGED <<listed, open>>

Deny(j, n, m) ==
  /\ Quick(j, "group") /\ m # n
  /\ groups' = [groups EXCEPT ![n] = {g \in @ : g.key # m}]
  /\ UNCHANGED <<listed, open>>

\* update_peer_trust finds the first peer of a node id.
UpdateTrust(j, n, i) ==
  /\ Quick(j, "trust")
  /\ \A k \in 1 .. i - 1 : listed[n][k].id # listed[n][i].id
  /\ \E t \in Trust : listed' = [listed EXCEPT ![n][i].trust = t]
  /\ UNCHANGED <<groups, open>>

\* setup_wg_interface deletes the interface and creates it anew, and the saved
\* peers are configured again in the order of the directory: of two files of one
\* key, or of one address, the later one counts.
Restored(n) ==
  LET keys == {f.key : f \in saved[n]}
      Lasts(dir) == {last \in [keys -> DOMAIN dir] : \A m \in keys :
                       /\ dir[last[m]].key = m
                       /\ \A k \in last[m] + 1 .. Len(dir) : dir[k].key # m}
      Kept(dir, i) == \A k \in i + 1 .. Len(dir) : dir[k].addr # dir[i].addr
      Interface(dir, last) ==
        [m \in Node |->
           IF m \notin keys THEN NoTunnel
           ELSE [psk  |-> dir[last[m]].psk,
                 addr |-> IF Kept(dir, last[m]) THEN dir[last[m]].addr ELSE 0]]
  IN  UNION {{Interface(dir, last) : last \in Lasts(dir)} : dir \in SetToSeqs(saved[n])}

\* migrate_trust_levels: if no listed peer is in any group, all are put into the
\* group of their trust.
Migrated(n) ==
  LET keys == {listed[n][i].key : i \in 1 .. Len(listed[n])} IN
  IF \E g \in groups[n] : g.key \in keys THEN groups[n]
  ELSE groups[n] \cup {[key |-> listed[n][i].key,
                        group |-> IF listed[n][i].trust = "friend" THEN "friends" ELSE "default"]
                        : i \in 1 .. Len(listed[n])}

\* The daemon stops and starts: the requests it works on or waits for end, files
\* and database remain, and the interface is configured from the saved peers.
Restart(n) ==
  /\ faults < MaxFaults
  /\ faults' = faults + 1
  /\ job' = [j \in Job |-> IF Busy(j) /\ n \in {job[j].host, job[j].guest}
                             THEN NoRequest("done") ELSE job[j]]
  /\ \E t \in Restored(n) : tunnel' = [tunnel EXCEPT ![n] = t]
  /\ groups' = [groups EXCEPT ![n] = Migrated(n)]
  /\ trouble' = trouble \cup {"oneSided"}
  /\ UNCHANGED <<listed, files, codes>>

Ask(j) == \E n, m \in Node :
  \/ Create(j, n, m) \/ LanInvite(j, n, m) \/ RedeemOpen(j, n, m) \/ Forget(j, n, m)

Use(j) == \E m \in Node : Redeem(j, m) \/ RedeemAccept(j, m)

Step(j) ==
  \/ ReadAddresses(j) \/ Assign(j) \/ ReadInvites(j) \/ Invite(j)
  \/ Take(j) \/ Untaken(j) \/ AddTunnel(j) \/ List(j)
  \/ Race(j) \/ Admit(j) \/ Push(j) \/ Drop(j) \/ Close(j)

Administer(j) == \E n \in Node :
  \/ SwitchOpen(j, n)
  \/ \E m \in Node : Deny(j, n, m) \/ \E g \in Group : AssignToGroup(j, n, m, g)
  \/ \E member \in groups[n] : RemoveFromGroup(j, n, member)
  \/ \E i \in 1 .. Len(listed[n]) : UpdateTrust(j, n, i)

Next ==
  \/ \E j \in Job : Ask(j) \/ Use(j) \/ Step(j) \/ Abandon(j) \/ Administer(j)
  \/ \E n \in Node : Restart(n)

Spec == Init /\ [][Next]_vars

--------------------------------------------------------------------------------
(* Properties.                                                                *)

Address == 0 .. MaxAddress

\* Every variable has its type; files hold only what requests have made: keys of
\* nodes, pre-shared keys of jobs, addresses of the subnet.
TypeOK ==
  /\ \A n \in Node :
       /\ \A i \in 1 .. Len(listed[n]) : listed[n][i] \in
            [id : Node \cup {0}, key : Node \ {n}, addr : Address, trust : Trust]
       /\ \A m \in Node : tunnel[n][m] \in [psk : Job \cup {NoJob}, addr : Address]
       /\ saved[n] \subseteq [name : Node \cup {0}, key : Node \ {n}, psk : Job, addr : Address]
       /\ invites[n] \subseteq [psk : Job, addr : Address \ {0, Own}]
       /\ groups[n] \subseteq [key : Node \ {n}, group : Group]
       /\ \A f, h \in saved[n] : f.name = h.name => f = h
  /\ open \subseteq Node /\ faults \in 0 .. MaxFaults

Given(n) == {i.addr : i \in invites[n]}

\* The addresses one node has given to the peers it lists and holds in its open
\* invites are all different (assign_next_address), as long as no two requests
\* read and write addresses.json or pending_invites.json at the same time.
AddressesDistinct == "raced" \notin trouble => \A n \in Node :
  /\ \A i, k \in 1 .. Len(listed[n]) :
       i # k /\ listed[n][i].addr # Own => listed[n][i].addr # listed[n][k].addr
  /\ \A i, k \in invites[n] : i.addr = k.addr => i = k
  /\ \A i \in 1 .. Len(listed[n]) : listed[n][i].addr \notin Given(n)

\* An invite is used at most once: a pre-shared key that is on the interface of
\* the node that made the invite, or on its way there, is not in its pending
\* invites (consume_by_psk), as long as no two requests rewrite the file at once.
InviteSpent == "raced" \notin trouble => \A n \in Node : \A i \in invites[n] :
  /\ \A m \in Node : tunnel[n][m].psk # i.psk
  /\ \A j \in Job : ~(At(j, "tunnel") /\ AtHost(j) /\ job[j].host = n /\ job[j].psk = i.psk)

AtRest == \A j \in Job : ~Busy(j)

Agree(n, m) ==
  /\ Lists(n, m) <=> Lists(m, n)
  /\ tunnel[n][m].psk = tunnel[m][n].psk

\* When no request is in progress two nodes list each other or neither does, and
\* their tunnels have one pre-shared key: unless a request was cut short, refused
\* or crossed another one between the two, or only one node was asked.
TunnelsAgree == AtRest /\ trouble = {} => \A n, m \in Node : n # m => Agree(n, m)

================================================================================
