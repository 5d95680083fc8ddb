------------------------------ MODULE VoiceRooms ------------------------------
(* The voice capability of one node (capabilities/voice/src): its rooms, the    *)
(* invitations that reach it, its signalling sockets, and what it does when the *)
(* event stream of CapEvents says that a peer has gone.  Calls to other nodes   *)
(* and to the daemon are fire-and-forget and leave no state here.  A handler    *)
(* that holds the lock of the rooms and asks for it again never returns, and    *)
(* nobody gets the lock after it.                                               *)
EXTENDS CapEvents

CONSTANTS
  Room,       \* ids of rooms
  Owner,      \* the local user
  Sockets,    \* signalling WebSockets, by number; a new client takes the first free one
  Limit,      \* max_members a creator may ask for
  Wrap,       \* 2^64, of the counter of invitations
  MaxCalls    \* bound on API calls, invitations and ageing

ASSUME VoiceAssumption ==
  /\ Owner \notin Peer /\ Limit \subseteq Nat /\ MaxCalls \in Nat
  /\ Wrap \in Nat \ {0} /\ Sockets \subseteq Nat \ {0} /\ Room # {}

Caller == Peer \cup {Owner}

VARIABLES
  rooms,      \* RoomStore.rooms
  hung,       \* a handler waits for a lock it holds itself
  joining,    \* joins whose tunnels have been validated
  inviting,   \* invitations to a room that was not there when they looked
  doomed,     \* on_inactive hooks past their guard
  hub,        \* hub[r][p]: the socket messages to p in r are sent to
  sockets,
  count,      \* VoiceNotifier.pending_invites
  late,       \* peers who took a seat while the tracker did not have them
  calls

roomVars == <<rooms, hung, joining, inviting>>
signalVars == <<hub, sockets>>
voiceVars == <<roomVars, doomed, signalVars, count, late, calls>>
vars == <<capVars, voiceVars>>

NoRoom == [members |-> {}, invited |-> {}, max |-> 0, by |-> Owner, age |-> 0, kind |-> "none"]
Exists(r) == rooms[r].kind # "none"
NoSocket == 0
Closed == [room |-> CHOOSE r \in Room : TRUE, peer |-> Owner, st |-> "closed"]

Invited(room, set) == [room EXCEPT !.invited = @ \cup (set \ room.members)]

VoiceInit ==
  /\ rooms = [r \in Room |-> NoRoom] /\ hung = FALSE
  /\ joining = {} /\ inviting = {} /\ doomed = {}
  /\ hub = [r \in Room |-> [c \in Caller |-> NoSocket]]
  /\ sockets = [s \in Sockets |-> Closed]
  /\ count = 0 /\ late = {} /\ calls = 0

Init == CapInit /\ VoiceInit

Call == calls < MaxCalls /\ calls' = calls + 1
Seated(c) == late' = IF c \in Peer \ tracker THEN late \cup {c} ELSE late

--------------------------------------------------------------------------------
(* The HTTP API: api.rs over state.rs.  Every operation takes the lock.        *)

\* create_room; the invited are told over the bridge, and nothing waits for that.
CreateRoom(c, r, invited, max) ==
  /\ Call /\ ~hung /\ ~Exists(r)
  /\ rooms' = [rooms EXCEPT ![r] = [members |-> {c}, invited |-> invited, max |-> max,
                                    by |-> c, age |-> 0, kind |-> "local"]]
  /\ Seated(c)
  /\ UNCHANGED <<hung, joining, inviting, doomed, signalVars, count, capVars>>

\* quick_call.
QuickCall(c, r, p) == CreateRoom(c, r, {p}, 2)

\* validate_tunnels: the other members are all peers of the daemon - the owner
\* of the node is none - unless the daemon cannot be asked.
Missing(c, r) == rooms[r].members \ (active \cup {c})

JoinStarts(c, r, asked) ==
  /\ Call /\ ~hung /\ <<c, r>> \notin joining
  /\ asked => Missing(c, r) = {}
  /\ joining' = joining \cup {<<c, r>>}
  /\ UNCHANGED <<rooms, hung, inviting, doomed, signalVars, count, late, capVars>>

Placeholder(room) == room.members = {} /\ room.invited # {}

\* A seat: for one who is invited, or the first to a room known by an invitation.
MayJoin(c, room) ==
  /\ Placeholder(room) \/ c \in room.invited
  /\ Cardinality(room.members) < room.max

JoinEnds(c, r) ==
  /\ ~hung /\ <<c, r>> \in joining
  /\ joining' = joining \ {<<c, r>>}
  /\ IF Exists(r) /\ MayJoin(c, rooms[r])
       THEN /\ rooms' = IF c \in rooms[r].members THEN rooms
                        ELSE [rooms EXCEPT ![r].members = @ \cup {c}, ![r].invited = @ \ {c}]
            /\ Seated(c)
            /\ count' = (count + Wrap - 1) % Wrap
       ELSE UNCHANGED <<rooms, late, count>>
  /\ UNCHANGED <<hung, inviting, doomed, signalVars, calls, capVars>>

\* Mutant: a room that stays when it is empty.
LeftEmpty(room, c) == [room EXCEPT !.members = @ \ {c}]

\* The room without c; the last one out takes it down.
Left(room, c) == IF room.members \ {c} = {} THEN NoRoom ELSE [room EXCEPT !.members = @ \ {c}]

LeaveRoom(c, r) ==
  /\ Call /\ ~hung /\ Exists(r)
  /\ rooms' = [rooms EXCEPT ![r] = Left(@, c)]
  /\ UNCHANGED <<hung, joining, inviting, doomed, signalVars, count, late, capVars>>

CloseRoom(c, r) ==
  /\ Call /\ ~hung /\ Exists(r) /\ rooms[r].by = c
  /\ rooms' = [rooms EXCEPT ![r] = NoRoom]
  /\ hub' = [hub EXCEPT ![r] = [p \in Caller |-> NoSocket]]
  /\ count' = 0
  /\ UNCHANGED <<hung, joining, inviting, doomed, sockets, late, capVars>>

InvitePeers(r, set) ==
  /\ Call /\ ~hung /\ Exists(r)
  /\ rooms' = [rooms EXCEPT ![r] = Invited(@, set)]
  /\ UNCHANGED <<hung, joining, inviting, doomed, signalVars, count, late, capVars>>

--------------------------------------------------------------------------------
(* voice.invite from p: handle_invite of bridge.rs.                            *)

\* The handler reads whether the room is there.  If it is, it calls invite_peers
\* with the read guard still held: the lock is never free again.
InviteLooks(p, r) ==
  /\ Call /\ ~hung /\ <<p, r>> \notin inviting
  /\ IF Exists(r) THEN hung' = TRUE /\ UNCHANGED inviting
                  ELSE inviting' = inviting \cup {<<p, r>>} /\ UNCHANGED hung
  /\ UNCHANGED <<rooms, joining, doomed, signalVars, count, late, capVars>>

\* It stores a placeholder over whatever is there by now, and rings the bell.
InviteStores(p, r) ==
  /\ ~hung /\ <<p, r>> \in inviting
  /\ inviting' = inviting \ {<<p, r>>}
  /\ rooms' = [rooms EXCEPT ![r] = [members |-> {}, invited |-> {p}, max |-> 10,
                                    by |-> p, age |-> 0, kind |-> "remote"]]
  /\ count' = (count + 1) % Wrap
  /\ UNCHANGED <<hung, joining, doomed, signalVars, late, calls, capVars>>

--------------------------------------------------------------------------------
(* The peer stream's hook, and the clean-up of every minute.                   *)

\* Mutant: a guard the wrong way round.
HookLooksOther(p) ==
  /\ hooks[p] > 0
  /\ hooks' = [hooks EXCEPT ![p] = @ - 1]
  /\ doomed' = IF p \in tracker THEN doomed \cup {p} ELSE doomed
  /\ UNCHANGED <<roomVars, signalVars, count, late, calls, active, due, dropping,
                 streamVars, tracker, ghostVars, changes, breaks>>

\* The guard: a peer the tracker has again is left alone.
HookLooks(p) ==
  /\ hooks[p] > 0
  /\ hooks' = [hooks EXCEPT ![p] = @ - 1]
  /\ doomed' = IF p \in tracker THEN doomed ELSE doomed \cup {p}
  /\ UNCHANGED <<roomVars, signalVars, count, late, calls, active, due, dropping,
                 streamVars, tracker, ghostVars, changes, breaks>>

\* remove_peer_from_all; a room that goes takes its signalling with it.
HookRemoves(p) ==
  /\ ~hung /\ p \in doomed
  /\ doomed' = doomed \ {p}
  /\ LET affected == {r \in Room : p \in rooms[r].members} IN
       /\ rooms' = [r \in Room |-> IF r \in affected THEN Left(rooms[r], p) ELSE rooms[r]]
       /\ hub' = [r \in Room |-> IF r \in affected /\ rooms[r].members = {p}
                                   THEN [c \in Caller |-> NoSocket] ELSE hub[r]]
  /\ UNCHANGED <<hung, joining, inviting, sockets, count, late, calls, capVars>>

\* An age of 1 is past invite_timeout_secs, one of 2 past room_timeout_secs.
Ages(r) ==
  /\ Call /\ Exists(r) /\ rooms[r].age < 2
  /\ rooms' = [rooms EXCEPT ![r].age = @ + 1]
  /\ UNCHANGED <<hung, joining, inviting, doomed, signalVars, count, late, capVars>>

\* cleanup_stale_rooms, then cleanup_expired_invites.
CleanUp ==
  LET Cleaned(room) == IF room.members = {} /\ room.age = 2 THEN NoRoom
                       ELSE IF room.age > 0 THEN [room EXCEPT !.invited = {}]
                       ELSE room IN
  /\ ~hung
  /\ rooms' = [r \in Room |-> Cleaned(rooms[r])]
  /\ rooms' # rooms
  /\ UNCHANGED <<hung, joining, inviting, doomed, signalVars, count, late, calls, capVars>>

--------------------------------------------------------------------------------
(* Signalling: handle_signal_ws of signal.rs.                                  *)

\* A client has identified itself, as a member of the room;
SocketChecks(s, c, r) ==
  /\ Call /\ ~hung
  /\ sockets[s].st = "closed" /\ \A t \in Sockets : t < s => sockets[t].st # "closed"
  /\ c \in rooms[r].members
  /\ sockets' = [sockets EXCEPT ![s] = [room |-> r, peer |-> c, st |-> "checked"]]
  /\ UNCHANGED <<roomVars, doomed, hub, count, late, capVars>>

\* its sender takes the place of an earlier one of the same peer.
SocketJoins(s) ==
  /\ sockets[s].st = "checked"
  /\ sockets' = [sockets EXCEPT ![s].st = "live"]
  /\ hub' = [hub EXCEPT ![sockets[s].room][sockets[s].peer] = s]
  /\ UNCHANGED <<roomVars, doomed, count, late, calls, capVars>>

\* Mutant: leaves a sender in place that is no longer the first of its peer.
SocketClosesOnce(s) ==
  /\ sockets[s].st = "live"
  /\ sockets' = [sockets EXCEPT ![s] = Closed]
  /\ hub' = IF \E t \in Sockets \ {s} : sockets[t].st = "live" THEN hub
            ELSE [hub EXCEPT ![sockets[s].room][sockets[s].peer] = NoSocket]
  /\ UNCHANGED <<roomVars, doomed, count, late, calls, capVars>>

\* When it closes, the peer is unregistered, whichever socket is registered.
SocketCloses(s) ==
  /\ sockets[s].st = "live"
  /\ sockets' = [sockets EXCEPT ![s] = Closed]
  /\ hub' = [hub EXCEPT ![sockets[s].room][sockets[s].peer] = NoSocket]
  /\ UNCHANGED <<roomVars, doomed, count, late, calls, capVars>>

--------------------------------------------------------------------------------
Api ==
  \E r \in Room :
    \/ \E c \in Caller :
         \/ \E set \in SUBSET (Caller \ {c}), max \in Limit : CreateRoom(c, r, set, max)
         \/ \E p \in Caller \ {c} : QuickCall(c, r, p)
         \/ \E asked \in BOOLEAN : JoinStarts(c, r, asked)
         \/ JoinEnds(c, r) \/ LeaveRoom(c, r) \/ CloseRoom(c, r)
    \/ \E p \in Caller : InvitePeers(r, {p})

Bridge == \E r \in Room, p \in Peer : InviteLooks(p, r) \/ InviteStores(p, r)

Background == \/ \E p \in Peer : HookLooks(p) \/ HookRemoves(p)
              \/ \E r \in Room : Ages(r)
              \/ CleanUp

Signals == \E s \in Sockets :
             \/ \E c \in Caller, r \in Room : SocketChecks(s, c, r)
             \/ SocketJoins(s) \/ SocketCloses(s)

Next == \/ CapNext /\ UNCHANGED voiceVars
        \/ Api \/ Bridge \/ Background \/ Signals

\* The tasks of the process run on; calls and clients come as they like.
Fairness ==
  /\ CapFairness
  /\ \A p \in Peer : WF_vars(HookLooks(p)) /\ WF_vars(HookRemoves(p))

Spec == Init /\ [][Next]_vars /\ Fairness

--------------------------------------------------------------------------------
TypeOK ==
  /\ CapTypeOK
  /\ rooms \in [Room -> [members : SUBSET Caller, invited : SUBSET Caller, max : Nat,
                         by : Caller, age : 0 .. 2, kind : {"none", "local", "remote"}]]
  /\ hung \in BOOLEAN /\ joining \subseteq Caller \X Room /\ inviting \subseteq Peer \X Room
  /\ doomed \subseteq Peer /\ late \subseteq Peer
  /\ hub \in [Room -> [Caller -> Sockets \cup {NoSocket}]]
  /\ sockets \in [Sockets -> [room : Room, peer : Caller, st : {"closed", "checked", "live"}]]
  /\ count \in 0 .. Wrap - 1
  /\ calls \in 0 .. MaxCalls

\* A room without members is one nobody here has entered, known by an invitation:
\* a local room goes with its last member, however he goes (state.rs leave_room,
\* remove_peer_from_all), and no clean-up or invitation leaves it empty.
EmptyIsInvitation ==
  \A r \in Room : Exists(r) /\ rooms[r].members = {} => rooms[r].kind = "remote"

\* The hub holds no sender of a socket that has closed, and none of another room
\* or peer, although a peer's sockets replace and unregister one another
\* (signal.rs register, unregister).
HubIsLive ==
  \A r \in Room, c \in Caller : hub[r][c] # NoSocket =>
    sockets[hub[r][c]] = [room |-> r, peer |-> c, st |-> "live"]

\* A peer that is gone for good ends up in no room, however its session flapped
\* and the hooks ran; but for a peer whose going the stream never told, or who
\* took a seat after it, and unless the process hangs (main.rs on_inactive).
GoneLeave ==
  <>[](hung \/ \A p \in Peer \ (active \cup untold \cup vanished \cup late), r \in Room :
                 p \notin rooms[r].members)

================================================================================
