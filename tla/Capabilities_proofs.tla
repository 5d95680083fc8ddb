-------------------------- MODULE Capabilities_proofs --------------------------
(* Theorems about two capabilities that share nothing but the daemon.           *)
(*                                                                              *)
(* Voice rooms, for any number of rooms, peers and sockets: a room without      *)
(* members is known by an invitation only, and the hub holds no sender of a     *)
(* socket that has closed.  Neither rests on what the event stream does.        *)
(*                                                                              *)
(* The feed, for any posts, blobs, attempts and slots: a transfer under way is  *)
(* worked on, what the status of a post says is true, and a delivery is fetched *)
(* once.                                                                        *)
(*                                                                              *)
(* Both: every variable has its type, what the event stream holds included.     *)
EXTENDS VoiceRooms, FeedPosts, FiniteSetTheorems, SequenceTheorems, TLAPS

--------------------------------------------------------------------------------
(* Voice rooms.                                                                *)

Fields == {"members", "invited", "max", "by", "age", "kind"}

\* Rooms are records with a set of members, none of which is local and empty.
RoomInv ==
  /\ DOMAIN rooms = Room
  /\ \A r \in Room : DOMAIN rooms[r] = Fields
  /\ EmptyIsInvitation

SignalInv ==
  /\ hub \in [Room -> [Caller -> Sockets \cup {NoSocket}]]
  /\ DOMAIN sockets = Sockets
  /\ \A s \in Sockets : DOMAIN sockets[s] = {"room", "peer", "st"}
  /\ \A s \in Sockets : sockets[s].st # "closed" => sockets[s].room \in Room /\ sockets[s].peer \in Caller
  /\ HubIsLive

--------------------------------------------------------------------------------
(* Rooms.                                                                     *)

\* A room that is changed to one with the same kind and more members, or is
\* taken down, or made with a member, leaves the invariant as it is.
Sound(room) ==
  DOMAIN room = Fields /\ (room.kind # "none" /\ room.members = {} => room.kind = "remote")

LEMMA SoundRooms ==
  ASSUME DOMAIN rooms = Room, \A r \in Room : Sound(rooms[r])
  PROVE  RoomInv
BY DEF RoomInv, EmptyIsInvitation, Exists, Sound

LEMMA LeftIsSound ==
  ASSUME NEW room, NEW c, Sound(room)
  PROVE  Sound(Left(room, c))
BY DEF Left, NoRoom, Sound, Fields

LEMMA RoomStep == RoomInv /\ [Next]_vars => RoomInv'
<1> SUFFICES ASSUME RoomInv, [Next]_vars
             PROVE  DOMAIN rooms' = Room /\ \A r \in Room : Sound(rooms'[r])
  BY SoundRooms DEF RoomInv, EmptyIsInvitation, Exists, Sound
<1> USE DEF RoomInv
<1>0. DOMAIN rooms = Room /\ \A r \in Room : Sound(rooms[r])
  BY DEF EmptyIsInvitation, Exists, Sound
<1>1. CASE UNCHANGED rooms
  BY <1>0, <1>1
<1>2. ASSUME NEW r \in Room, NEW room, Sound(room), rooms' = [rooms EXCEPT ![r] = room]
      PROVE  DOMAIN rooms' = Room /\ \A q \in Room : Sound(rooms'[q])
  BY <1>0, <1>2
<1>3. CASE Api
  <2>1. PICK r \in Room :
          \/ \E c \in Caller :
               \/ \E set \in SUBSET (Caller \ {c}), max \in Limit : CreateRoom(c, r, set, max)
               \/ \E p \in Caller \ {c} : QuickCall(c, r, p)
               \/ \E asked \in BOOLEAN : JoinStarts(c, r, asked)
               \/ JoinEnds(c, r) \/ LeaveRoom(c, r) \/ CloseRoom(c, r)
          \/ \E p \in Caller : InvitePeers(r, {p})
    BY <1>3 DEF Api
  <2>2. ASSUME NEW c, NEW set, NEW max, CreateRoom(c, r, set, max)
        PROVE  \E room : Sound(room) /\ rooms' = [rooms EXCEPT ![r] = room]
    BY <2>2 DEF CreateRoom, Sound, Fields
  <2>3. ASSUME NEW c, JoinEnds(c, r), rooms' # rooms
        PROVE  DOMAIN rooms' = Room /\ \A q \in Room : Sound(rooms'[q])
    <3>1. rooms' = [rooms EXCEPT ![r].members = @ \cup {c}, ![r].invited = @ \ {c}]
      BY <2>3 DEF JoinEnds
    <3>2. DOMAIN rooms' = Room /\ \A q \in Room \ {r} : rooms'[q] = rooms[q]
      BY <3>1
    <3>3. DOMAIN rooms'[r] = Fields /\ rooms'[r].members = rooms[r].members \cup {c}
      BY <1>0, <3>1 DEF Sound, Fields
    <3>4. QED
      BY <1>0, <3>2, <3>3 DEF Sound
  <2>4. ASSUME NEW c, LeaveRoom(c, r)
        PROVE  \E room : Sound(room) /\ rooms' = [rooms EXCEPT ![r] = room]
    BY <1>0, <2>4, LeftIsSound DEF LeaveRoom
  <2>5. ASSUME NEW c, CloseRoom(c, r)
        PROVE  \E room : Sound(room) /\ rooms' = [rooms EXCEPT ![r] = room]
    BY <2>5 DEF CloseRoom, NoRoom, Sound, Fields
  <2>6. ASSUME NEW set, InvitePeers(r, set)
        PROVE  \E room : Sound(room) /\ rooms' = [rooms EXCEPT ![r] = room]
    BY <1>0, <2>6 DEF InvitePeers, Invited, Sound, Fields
  <2>7. QED
    BY <1>1, <1>2, <2>1, <2>2, <2>3, <2>4, <2>5, <2>6 DEF QuickCall, JoinStarts
<1>4. CASE Bridge
  <2>1. PICK r \in Room, p \in Peer : InviteLooks(p, r) \/ InviteStores(p, r)
    BY <1>4 DEF Bridge
  <2>2. CASE InviteLooks(p, r)
    BY <1>1, <2>2 DEF InviteLooks
  <2>3. CASE InviteStores(p, r)
    BY <1>2, <2>3 DEF InviteStores, Sound, Fields
  <2>4. QED
    BY <2>1, <2>2, <2>3
<1>5. CASE Background
  <2>1. ASSUME NEW p \in Peer, HookLooks(p) PROVE UNCHANGED rooms
    BY <2>1 DEF HookLooks, roomVars
  <2>2. ASSUME NEW p \in Peer, HookRemoves(p)
        PROVE  DOMAIN rooms' = Room /\ \A r \in Room : Sound(rooms'[r])
    BY <1>0, <2>2, LeftIsSound DEF HookRemoves
  <2>3. ASSUME NEW r \in Room, Ages(r)
        PROVE  \E room : Sound(room) /\ rooms' = [rooms EXCEPT ![r] = room]
    BY <1>0, <2>3 DEF Ages, Sound, Fields
  <2>4. ASSUME CleanUp PROVE DOMAIN rooms' = Room /\ \A r \in Room : Sound(rooms'[r])
    BY <1>0, <2>4 DEF CleanUp, NoRoom, Sound, Fields
  <2>5. QED
    BY <1>1, <1>2, <1>5, <2>1, <2>2, <2>3, <2>4 DEF Background
<1>6. CASE Signals
  BY <1>1, <1>6 DEF Signals, SocketChecks, SocketJoins, SocketCloses, roomVars
<1>7. CASE UNCHANGED voiceVars \/ UNCHANGED vars
  BY <1>1, <1>7 DEF voiceVars, vars, roomVars
<1>8. QED
  BY <1>3, <1>4, <1>5, <1>6, <1>7 DEF Next

\* A room without members is one nobody here has entered (state.rs leave_room,
\* remove_peer_from_all).
THEOREM RoomsHaveMembers == Spec => []EmptyIsInvitation
<1>1. Init => RoomInv
  BY DEF Init, VoiceInit, RoomInv, EmptyIsInvitation, Exists, NoRoom, Fields
<1>2. RoomInv => EmptyIsInvitation
  BY DEF RoomInv
<1>3. QED
  BY <1>1, <1>2, RoomStep, PTL DEF Spec

--------------------------------------------------------------------------------
(* Signalling.                                                                *)

Same == UNCHANGED <<hub, sockets>>

\* Rooms may lose all their senders at once.
Dropped ==
  /\ UNCHANGED sockets
  /\ \E emptied \in SUBSET Room :
       hub' = [r \in Room |-> IF r \in emptied THEN [c \in Caller |-> NoSocket] ELSE hub[r]]

LEMMA SignalStep == SignalInv /\ [Next]_vars => SignalInv'
<1> SUFFICES ASSUME SignalInv, [Next]_vars PROVE SignalInv'
  OBVIOUS
<1>0. ASSUME NEW s \in Sockets, NEW r \in Room, NEW c \in Caller, hub[r][c] = s
      PROVE  sockets[s].room = r /\ sockets[s].peer = c /\ sockets[s].st = "live"
  <2>1. s # NoSocket
    BY VoiceAssumption DEF NoSocket
  <2>2. sockets[s] = [room |-> r, peer |-> c, st |-> "live"]
    BY <1>0, <2>1 DEF SignalInv, HubIsLive
  <2>3. QED
    BY <2>2
<1>1. ASSUME Same PROVE SignalInv'
  BY <1>1 DEF Same, SignalInv, HubIsLive
<1>2. ASSUME Dropped PROVE SignalInv'
  <2>1. PICK emptied \in SUBSET Room :
          hub' = [r \in Room |-> IF r \in emptied THEN [c \in Caller |-> NoSocket] ELSE hub[r]]
    BY <1>2 DEF Dropped
  <2>2. \A r \in Room, c \in Caller : hub'[r][c] \in {NoSocket, hub[r][c]}
    BY <2>1
  <2>3. QED
    BY <1>2, <2>1, <2>2 DEF Dropped, SignalInv, HubIsLive
<1>3. ASSUME NEW r \in Room, NEW c \in Caller, CloseRoom(c, r) PROVE Dropped
  <2>1. hub' = [q \in Room |-> IF q \in {r} THEN [p \in Caller |-> NoSocket] ELSE hub[q]]
    BY <1>3 DEF CloseRoom, SignalInv
  <2>2. QED
    BY <1>3, <2>1 DEF CloseRoom, Dropped
<1>4. ASSUME NEW p \in Peer, HookRemoves(p) PROVE Dropped
  <2> DEFINE emptied == {r \in Room : p \in rooms[r].members /\ rooms[r].members = {p}}
  <2>1. hub' = [r \in Room |-> IF r \in emptied THEN [c \in Caller |-> NoSocket] ELSE hub[r]]
    BY <1>4 DEF HookRemoves
  <2>2. QED
    BY <1>4, <2>1 DEF HookRemoves, Dropped
<1>5. ASSUME NEW s \in Sockets, NEW c \in Caller, NEW r \in Room, SocketChecks(s, c, r)
      PROVE  SignalInv'
  BY <1>5, VoiceAssumption DEF SocketChecks, SignalInv, HubIsLive
<1>6. ASSUME NEW s \in Sockets, SocketJoins(s) PROVE SignalInv'
  <2> DEFINE q == sockets[s].room
             p == sockets[s].peer
  <2>1. q \in Room /\ p \in Caller /\ \A r \in Room, c \in Caller : hub[r][c] # s
    BY <1>0, <1>6 DEF SocketJoins, SignalInv
  <2>2. hub' = [hub EXCEPT ![q][p] = s] /\ sockets' = [sockets EXCEPT ![s].st = "live"]
    BY <1>6 DEF SocketJoins
  <2>3. sockets'[s] = [room |-> q, peer |-> p, st |-> "live"]
        /\ \A t \in Sockets \ {s} : sockets'[t] = sockets[t]
    BY <2>2 DEF SignalInv
  <2>4. \A r \in Room, c \in Caller : hub'[r][c] = IF r = q /\ c = p THEN s ELSE hub[r][c]
    BY <2>1, <2>2 DEF SignalInv
  <2>5. HubIsLive'
    BY <2>1, <2>3, <2>4 DEF SignalInv, HubIsLive
  <2>6. QED
    BY <2>1, <2>2, <2>3, <2>5 DEF SignalInv
<1>7. ASSUME NEW s \in Sockets, SocketCloses(s) PROVE SignalInv'
  <2> DEFINE q == sockets[s].room
             p == sockets[s].peer
  <2>1. q \in Room /\ p \in Caller
    BY <1>7 DEF SocketCloses, SignalInv
  <2>2. hub' = [hub EXCEPT ![q][p] = NoSocket] /\ sockets' = [sockets EXCEPT ![s] = Closed]
    BY <1>7 DEF SocketCloses
  <2>3. \A t \in Sockets \ {s} : sockets'[t] = sockets[t]
    BY <2>2 DEF SignalInv
  <2>4. \A r \in Room, c \in Caller : hub'[r][c] = IF r = q /\ c = p THEN NoSocket ELSE hub[r][c]
    BY <2>1, <2>2 DEF SignalInv
  <2>5. \A r \in Room, c \in Caller : hub[r][c] = s => r = q /\ c = p
    BY <1>0
  <2>6. HubIsLive'
    BY <2>3, <2>4, <2>5 DEF SignalInv, HubIsLive
  <2>7. QED
    BY <2>1, <2>2, <2>3, <2>6 DEF SignalInv, Closed
<1>8. CASE Api
  <2>1. ASSUME NEW r, NEW c, NEW p, NEW set, NEW max, NEW asked,
               \/ CreateRoom(c, r, set, max) \/ QuickCall(c, r, p) \/ InvitePeers(r, set)
               \/ JoinStarts(c, r, asked) \/ JoinEnds(c, r) \/ LeaveRoom(c, r)
        PROVE  Same
    BY <2>1 DEF CreateRoom, QuickCall, JoinStarts, JoinEnds, LeaveRoom, InvitePeers,
       signalVars, Same
  <2>2. Same \/ \E r \in Room, c \in Caller : CloseRoom(c, r)
    BY <1>8, <2>1, Zenon DEF Api
  <2>3. QED
    BY <1>1, <1>2, <1>3, <2>2
<1>9. CASE Bridge
  BY <1>1, <1>9 DEF Bridge, InviteLooks, InviteStores, signalVars, Same
<1>10. CASE Background
  <2>1. Same \/ \E p \in Peer : HookRemoves(p)
    BY <1>10 DEF Background, HookLooks, Ages, CleanUp, signalVars, Same
  <2>2. QED
    BY <1>1, <1>2, <1>4, <2>1
<1>11. CASE Signals
  BY <1>5, <1>6, <1>7, <1>11 DEF Signals
<1>12. CASE UNCHANGED voiceVars \/ UNCHANGED vars
  BY <1>1, <1>12 DEF voiceVars, vars, signalVars, Same
<1>13. QED
  BY <1>8, <1>9, <1>10, <1>11, <1>12 DEF Next

\* The hub holds no sender of a closed socket, nor of another room or peer
\* (signal.rs register, unregister).
THEOREM HubStaysLive == Spec => []HubIsLive
<1>1. Init => SignalInv
  BY DEF Init, VoiceInit, SignalInv, HubIsLive, Closed, NoSocket
<1>2. SignalInv => HubIsLive
  BY DEF SignalInv
<1>3. QED
  BY <1>1, <1>2, SignalStep, PTL DEF Spec

--------------------------------------------------------------------------------
(* The feed.                                                                   *)

Rows == [Post -> [Blob -> Statuses]]

\* What every row and task is, and whose.
Typed ==
  /\ posts \subseteq Post /\ unfetched \subseteq Theirs /\ uploads \subseteq Mine
  /\ rows \in Rows /\ tasks \subseteq Task
  /\ \A m \in inbox : m.post \in Theirs
  /\ crashes \in Nat /\ deletes \in Nat

\* Only posts of peers are fetched.
Worked ==
  /\ ActiveIsWorkedOn
  /\ \A p \in Mine, b \in Blob : rows[p][b] = "none"

Had(p) == Attach[p] \subseteq store \cup gone

\* A row that is complete has its blob; a peer's post has its rows, and the owner's
\* its blobs.
Truthful ==
  /\ \A p \in Post, b \in Blob : rows[p][b] = "complete" => b \in store \cup gone
  /\ \A p \in (posts \cap Theirs) \ (unfetched \cup orphaned) :
       \A b \in Attach[p] : rows[p][b] # "none"
  /\ \A p \in uploads \cup (posts \cap Mine) : Had(p)

\* Before any crash or deletion a task is the only one of its row, and its post has
\* come and been taken up.
Once ==
  crashes = 0 /\ deletes = 0 =>
    /\ phase = "up" /\ unfetched \subseteq posts
    /\ \A t \in tasks : t.post \in posts \ unfetched
    /\ \A t, u \in tasks : t.post = u.post /\ t.blob = u.blob => t = u

--------------------------------------------------------------------------------
(* What the steps have in common.                                              *)

LEMMA SpawnedShape ==
  ASSUME NEW k \in Slots, NEW pairs \in SUBSET (Theirs \X Blob)
  PROVE  /\ Spawned(k, pairs) \subseteq Task
         /\ \A t \in Spawned(k, pairs) : <<t.post, t.blob>> \in pairs /\ t.slot = k
         /\ \A r \in pairs : \E t \in Spawned(k, pairs) : t.post = r[1] /\ t.blob = r[2]
         /\ \A t, u \in Spawned(k, pairs) : t.post = u.post /\ t.blob = u.blob => t = u
<1>1. \A r \in pairs : r[1] \in Theirs /\ r[2] \in Blob /\ r = <<r[1], r[2]>>
  OBVIOUS
<1> DEFINE TaskOf(r) == [post |-> r[1], blob |-> r[2], slot |-> k, st |-> "check"]
<1>2. \A r \in pairs : /\ TaskOf(r) \in Task
                        /\ <<TaskOf(r).post, TaskOf(r).blob>> = r /\ TaskOf(r).slot = k
                        /\ TaskOf(r).post = r[1] /\ TaskOf(r).blob = r[2]
  BY <1>1 DEF Task
<1>3. Spawned(k, pairs) = {TaskOf(r) : r \in pairs}
  BY DEF Spawned
<1> HIDE DEF TaskOf
<1>4. QED
  BY <1>2, <1>3

LEMMA MarkedRows ==
  ASSUME Typed, NEW t \in tasks, NEW status \in Statuses, Marked(t, status)
  PROVE  /\ t.post \in Theirs /\ t.blob \in Blob
         /\ rows' \in Rows
         /\ \A p \in Post, b \in Blob :
              rows'[p][b] = IF p = t.post /\ b = t.blob /\ rows[p][b] # "none"
                              THEN status ELSE rows[p][b]
BY DEF Typed, Marked, Task, Rows, Post

\* What a step of a task does: it marks its row and goes on, or ends with a row that
\* is not under way.
Steps(t) ==
  /\ \/ \E st \in {"check", "request", "poll"} : Advance(t, st) /\ (rows' = rows \/ Marked(t, "fetching"))
     \/ Finish(t) /\ Marked(t, "failed")
     \/ Finish(t) /\ Marked(t, "complete") /\ t.blob \in store
  /\ UNCHANGED <<inbox, posts, unfetched, uploads, store, phase, gone, orphaned, counters>>

LEMMA TaskSteps == ASSUME NEW t \in tasks, TaskStep(t) PROVE Steps(t)
BY DEF TaskStep, Steps, Checks, Requests, Finds, TimesOut, SeesBlob

LEMMA AdvanceShape ==
  ASSUME Typed, NEW t \in tasks, NEW st \in {"check", "request", "poll"}
  PROVE  LET u == [t EXCEPT !.st = st] IN
         u \in Task /\ u.post = t.post /\ u.blob = t.blob
BY DEF Typed, Task

--------------------------------------------------------------------------------
LEMMA TypedStep == Typed /\ [FeedNext]_feedVars => Typed'
<1> SUFFICES ASSUME Typed, [FeedNext]_feedVars PROVE Typed'
  OBVIOUS
<1>1. CASE FeedApi
  <2>1. ASSUME NEW p \in Mine, NEW stored \in SUBSET Attach[p], Uploads(p, stored) PROVE Typed'
    BY <2>1 DEF Uploads, Typed, counters
  <2>2. ASSUME NEW p \in Mine, Publishes(p) PROVE Typed'
    BY <2>2 DEF Publishes, Typed, Post, counters
  <2>3. ASSUME NEW p \in Post, Deletes(p) PROVE Typed'
    <3>1. NoRows \in [Blob -> Statuses]
      BY DEF NoRows, Statuses
    <3>2. rows' \in Rows
      BY <2>3, <3>1 DEF Deletes, RowsGone, Typed, Rows
    <3>3. QED
      BY <2>3, <3>2 DEF Deletes, RowsGone, Typed
  <2>4. QED
    BY <1>1, <2>1, <2>2, <2>3 DEF FeedApi
<1>2. CASE Daemon
  <2>1. ASSUME NEW p \in Theirs, NEW first \in BOOLEAN, Forwards(p, first) PROVE Typed'
    BY <2>1 DEF Forwards, Typed
  <2>2. ASSUME NEW m \in inbox, NEW taken \in BOOLEAN, NEW answered \in BOOLEAN,
               Posts(m, taken, answered)
        PROVE  Typed'
    <3>1. m.post \in Theirs /\ [m EXCEPT !.left = @ - 1].post = m.post
      BY DEF Typed
    <3>2. \A n \in inbox' : n.post \in Theirs
      BY <2>2, <3>1 DEF Posts, Typed
    <3>3. posts' \subseteq Post /\ unfetched' \subseteq Theirs
      BY <2>2, <3>1 DEF Posts, Ingests, Typed, Post
    <3>4. QED
      BY <2>2, <3>2, <3>3 DEF Posts, Typed, counters
  <2>3. QED
    BY <1>2, <2>1, <2>2 DEF Daemon
<1>3. CASE Starts
  <2>1. ASSUME NEW p \in Theirs, NEW k \in Slots, Fetches(p, k) PROVE Typed'
    <3>1. p \in Post /\ Attach[p] \subseteq Blob
      BY FeedAssumption DEF Post
    <3>2. Spawned(k, {p} \X Attach[p]) \subseteq Task
      BY <3>1, SpawnedShape
    <3>3. rows' \in Rows
      BY <2>1, <3>1 DEF Fetches, Typed, Rows, Statuses
    <3>4. QED
      BY <2>1, <3>2, <3>3 DEF Fetches, Typed, counters
  <2>2. ASSUME NEW k \in Slots, Resumes(k) PROVE Typed'
    <3> DEFINE waiting == {r \in Theirs \X Blob : Active(r[1], r[2])}
    <3>1. Spawned(k, waiting) \subseteq Task
      BY SpawnedShape
    <3>2. QED
      BY <2>2, <3>1 DEF Resumes, Typed, counters
  <2>3. QED
    BY <1>3, <2>1, <2>2 DEF Starts
<1>4. ASSUME NEW t \in tasks, TaskStep(t) PROVE Typed'
  <2>1. Steps(t)
    BY <1>4, TaskSteps
  <2>2. rows' \in Rows
    BY <2>1, MarkedRows DEF Steps, Statuses, Typed
  <2>3. tasks' \subseteq Task
    <3>1. CASE tasks' = tasks \ {t}
      BY <3>1 DEF Typed
    <3>2. ASSUME NEW st \in {"check", "request", "poll"}, Advance(t, st) PROVE tasks' \subseteq Task
      BY <3>2, AdvanceShape DEF Advance, Typed
    <3>3. QED
      BY <2>1, <3>1, <3>2 DEF Steps, Finish
  <2>4. QED
    BY <2>1, <2>2, <2>3 DEF Steps, Typed, counters
<1>5. CASE Outside
  BY <1>5 DEF Outside, Arrives, GivesUp, DeletedElsewhere, Crashes, Restarts, Typed, counters
<1>6. CASE UNCHANGED feedVars
  BY <1>6 DEF feedVars, counters, Typed
<1>7. QED
  BY <1>1, <1>2, <1>3, <1>4, <1>5, <1>6 DEF FeedNext

--------------------------------------------------------------------------------
LEMMA WorkedStep == Typed /\ Worked /\ [FeedNext]_feedVars => Worked'
<1> SUFFICES ASSUME Typed, Worked, [FeedNext]_feedVars PROVE Worked'
  OBVIOUS
<1> USE DEF Worked, ActiveIsWorkedOn, Active, TasksOf
<1>1. ASSUME UNCHANGED <<rows, tasks, phase>> PROVE Worked'
  BY <1>1
<1>2. CASE FeedApi
  <2>1. ASSUME NEW p \in Mine, NEW stored \in SUBSET Attach[p], Uploads(p, stored) PROVE Worked'
    BY <1>1, <2>1 DEF Uploads
  <2>2. ASSUME NEW p \in Mine, Publishes(p) PROVE Worked'
    BY <1>1, <2>2 DEF Publishes
  <2>3. ASSUME NEW p \in Post, Deletes(p) PROVE Worked'
    <3>1. \A q \in Post, b \in Blob : rows'[q][b] = rows[q][b] \/ rows'[q][b] = "none"
      BY <2>3 DEF Deletes, RowsGone, NoRows, Typed, Rows
    <3>2. QED
      BY <2>3, <3>1 DEF Deletes, Post
  <2>4. QED
    BY <1>2, <2>1, <2>2, <2>3 DEF FeedApi
<1>3. CASE Daemon
  BY <1>1, <1>3 DEF Daemon, Forwards, Posts
<1>4. CASE Starts
  <2>1. ASSUME NEW p \in Theirs, NEW k \in Slots, Fetches(p, k) PROVE Worked'
    <3>1. p \in Post /\ p \notin Mine /\ Attach[p] \subseteq Blob
      BY FeedAssumption DEF Post
    <3>2. \A q \in Post, b \in Blob :
            rows'[q][b] = rows[q][b] \/ (q = p /\ b \in Attach[p] /\ rows'[q][b] = "pending")
      BY <2>1, <3>1 DEF Fetches, Typed, Rows
    <3>3. \A b \in Attach[p] : \E t \in tasks' : t.post = p /\ t.blob = b
      <4>1. \A r \in {p} \X Attach[p] : \E t \in tasks' : t.post = r[1] /\ t.blob = r[2]
        BY <2>1, <3>1, SpawnedShape DEF Fetches
      <4>2. \A b \in Attach[p] : <<p, b>> \in {p} \X Attach[p] /\ <<p, b>>[1] = p /\ <<p, b>>[2] = b
        OBVIOUS
      <4>3. QED
        BY <4>1, <4>2
    <3>4. tasks \subseteq tasks' /\ phase' = phase
      BY <2>1 DEF Fetches
    <3>5. QED
      BY <3>1, <3>2, <3>3, <3>4 DEF Post
  <2>2. ASSUME NEW k \in Slots, Resumes(k) PROVE Worked'
    <3> DEFINE waiting == {r \in Theirs \X Blob : Active(r[1], r[2])}
    <3>1. \A r \in waiting : \E t \in tasks' : t.post = r[1] /\ t.blob = r[2]
      BY <2>2, SpawnedShape DEF Resumes
    <3>2. \A p \in Theirs, b \in Blob : Active(p, b) => <<p, b>> \in waiting
      OBVIOUS
    <3> HIDE DEF waiting
    <3>3. \A p \in Theirs, b \in Blob : Active(p, b) => \E t \in tasks' : t.post = p /\ t.blob = b
      BY <3>1, <3>2
    <3>4. rows' = rows
      BY <2>2 DEF Resumes
    <3>5. QED
      BY <3>3, <3>4 DEF Post
  <2>3. QED
    BY <1>4, <2>1, <2>2 DEF Starts
<1>5. ASSUME NEW t \in tasks, TaskStep(t) PROVE Worked'
  <2>1. Steps(t) /\ t.post \in Theirs /\ t.blob \in Blob /\ t.post \notin Mine
    BY <1>5, TaskSteps, FeedAssumption DEF Typed, Task
  <2>2. \A p \in Post, b \in Blob : p # t.post \/ b # t.blob => rows'[p][b] = rows[p][b]
    BY <2>1, MarkedRows DEF Steps, Statuses
  <2>3. phase' = phase /\ \A u \in tasks : u # t => u \in tasks'
    BY <2>1 DEF Steps, Advance, Finish
  <2>4. \/ \E u \in tasks' : u.post = t.post /\ u.blob = t.blob
        \/ ~Active(t.post, t.blob)'
    <3>1. ASSUME NEW st \in {"check", "request", "poll"}, Advance(t, st)
          PROVE  \E u \in tasks' : u.post = t.post /\ u.blob = t.blob
      BY <3>1, AdvanceShape DEF Advance
    <3>2. ASSUME NEW status \in {"failed", "complete"}, Marked(t, status)
          PROVE  ~Active(t.post, t.blob)'
      BY <2>1, <3>2, MarkedRows DEF Statuses, Post
    <3>3. QED
      BY <2>1, <3>1, <3>2 DEF Steps
  <2>5. \A p \in Post, b \in Blob : phase' = "up" /\ Active(p, b)' =>
          \E u \in tasks' : u.post = p /\ u.blob = b
    <3> SUFFICES ASSUME NEW p \in Post, NEW b \in Blob, phase' = "up", Active(p, b)'
                 PROVE  \E u \in tasks' : u.post = p /\ u.blob = b
      OBVIOUS
    <3>1. CASE p = t.post /\ b = t.blob
      BY <2>4, <3>1
    <3>2. CASE p # t.post \/ b # t.blob
      <4>1. PICK u \in tasks : u.post = p /\ u.blob = b
        BY <2>2, <2>3, <3>2
      <4>2. u # t
        BY <3>2, <4>1
      <4>3. QED
        BY <2>3, <4>1, <4>2
    <3>3. QED
      BY <3>1, <3>2
  <2>6. \A p \in Mine, b \in Blob : rows'[p][b] = "none"
    BY <2>1, <2>2 DEF Post
  <2>7. QED
    BY <2>5, <2>6
<1>6. CASE Outside
  <2>1. CASE \E b \in Blob : Arrives(b) \/ GivesUp(b) \/ DeletedElsewhere(b)
    BY <1>1, <2>1 DEF Arrives, GivesUp, DeletedElsewhere
  <2>2. CASE Crashes \/ Restarts
    BY <2>2 DEF Crashes, Restarts
  <2>3. QED
    BY <1>6, <2>1, <2>2 DEF Outside
<1>7. CASE UNCHANGED feedVars
  BY <1>1, <1>7 DEF feedVars
<1>8. QED
  BY <1>2, <1>3, <1>4, <1>5, <1>6, <1>7 DEF FeedNext

--------------------------------------------------------------------------------
LEMMA TruthfulStep == Typed /\ Truthful /\ [FeedNext]_feedVars => Truthful'
<1> SUFFICES ASSUME Typed, Truthful, [FeedNext]_feedVars PROVE Truthful'
  OBVIOUS
<1> USE DEF Truthful, Had
<1>1. ASSUME UNCHANGED <<rows, posts, unfetched, orphaned, uploads, store, gone>> PROVE Truthful'
  BY <1>1
<1>2. CASE FeedApi
  <2>1. ASSUME NEW p \in Mine, NEW stored \in SUBSET Attach[p], Uploads(p, stored) PROVE Truthful'
    <3>1. store' \cup gone' = store \cup gone \cup stored
      BY <2>1 DEF Uploads
    <3>2. UNCHANGED <<rows, posts, unfetched, orphaned>>
      BY <2>1 DEF Uploads
    <3>3. uploads' = uploads \/ (uploads' = uploads \cup {p} /\ stored = Attach[p])
      BY <2>1 DEF Uploads
    <3>4. QED
      BY <3>1, <3>2, <3>3
  <2>2. ASSUME NEW p \in Mine, Publishes(p) PROVE Truthful'
    <3>1. p \notin Theirs
      BY FeedAssumption
    <3>2. QED
      BY <2>2, <3>1 DEF Publishes
  <2>3. ASSUME NEW p \in Post, Deletes(p) PROVE Truthful'
    <3>1. /\ \A b \in Blob : rows'[p][b] = "none"
          /\ \A q \in Post : q # p => rows'[q] = rows[q]
      BY <2>3 DEF Deletes, RowsGone, NoRows, Typed, Rows
    <3>2. posts' = posts \ {p} /\ orphaned' = orphaned \ {p} /\ UNCHANGED <<unfetched, uploads, store, gone>>
      BY <2>3 DEF Deletes, RowsGone
    <3>3. QED
      BY <3>1, <3>2 DEF Post
  <2>4. QED
    BY <1>2, <2>1, <2>2, <2>3 DEF FeedApi
<1>3. CASE Daemon
  <2>1. ASSUME NEW p \in Theirs, NEW first \in BOOLEAN, Forwards(p, first) PROVE Truthful'
    BY <1>1, <2>1 DEF Forwards
  <2>2. ASSUME NEW m \in inbox, NEW taken \in BOOLEAN, NEW answered \in BOOLEAN,
               Posts(m, taken, answered)
        PROVE  Truthful'
    <3>1. m.post \in Theirs /\ m.post \notin Mine
      BY FeedAssumption DEF Typed
    <3>2. UNCHANGED <<rows, orphaned, uploads, store, gone>>
      BY <2>2 DEF Posts
    <3>3. CASE UNCHANGED <<posts, unfetched>>
      BY <3>2, <3>3
    <3>4. CASE Ingests(m.post)
      <4>1. posts' = posts \cup {m.post} /\ unfetched \subseteq unfetched'
        BY <3>4 DEF Ingests
      <4>2. m.post \in posts \cup unfetched' \/ Attach[m.post] = {}
        BY <3>4 DEF Ingests, Fresh
      <4>3. QED
        BY <3>1, <3>2, <4>1, <4>2
    <3>5. QED
      BY <2>2, <3>3, <3>4 DEF Posts
  <2>3. QED
    BY <1>3, <2>1, <2>2 DEF Daemon
<1>4. CASE Starts
  <2>1. ASSUME NEW p \in Theirs, NEW k \in Slots, Fetches(p, k) PROVE Truthful'
    <3>1. p \in Post /\ Attach[p] \subseteq Blob
      BY FeedAssumption DEF Post
    <3>2. \A q \in Post, b \in Blob :
            rows'[q][b] = rows[q][b] \/ (rows[q][b] = "none" /\ rows'[q][b] = "pending")
      BY <2>1, <3>1 DEF Fetches, Typed, Rows
    <3>3. p \in posts => \A b \in Attach[p] : rows'[p][b] # "none"
      BY <2>1, <3>1 DEF Fetches, Typed, Rows
    <3>4. unfetched' = unfetched \ {p} /\ UNCHANGED <<posts, orphaned, uploads, store, gone>>
      BY <2>1 DEF Fetches
    <3>5. \A q \in Theirs : q \in Post /\ Attach[q] \subseteq Blob
      BY FeedAssumption DEF Post
    <3>6. \A q \in (posts \cap Theirs) \ (unfetched' \cup orphaned) :
            \A b \in Attach[q] : rows'[q][b] # "none"
      <4> TAKE q \in (posts \cap Theirs) \ (unfetched' \cup orphaned)
      <4>1. CASE q = p
        BY <3>3, <4>1
      <4>2. CASE q # p
        BY <3>2, <3>4, <3>5, <4>2
      <4>3. QED
        BY <4>1, <4>2
    <3>7. QED
      BY <3>2, <3>4, <3>6
  <2>2. ASSUME NEW k \in Slots, Resumes(k) PROVE Truthful'
    BY <1>1, <2>2 DEF Resumes
  <2>3. QED
    BY <1>4, <2>1, <2>2 DEF Starts
<1>5. ASSUME NEW t \in tasks, TaskStep(t) PROVE Truthful'
  <2>1. Steps(t)
    BY <1>5, TaskSteps
  <2>2. \A p \in Post, b \in Blob : rows'[p][b] = rows[p][b]
          \/ (rows[p][b] # "none" /\ rows'[p][b] \in {"fetching", "failed"})
          \/ (rows[p][b] # "none" /\ rows'[p][b] = "complete" /\ b \in store)
    BY <2>1, MarkedRows DEF Steps, Statuses
  <2>3. UNCHANGED <<posts, unfetched, orphaned, uploads, store, gone>>
    BY <2>1 DEF Steps
  <2>4. \A q \in Theirs : q \in Post /\ Attach[q] \subseteq Blob
    BY FeedAssumption DEF Post
  <2>5. QED
    BY <2>2, <2>3, <2>4
<1>6. CASE Outside
  <2>1. ASSUME NEW b \in Blob, Arrives(b) \/ GivesUp(b) \/ DeletedElsewhere(b) PROVE Truthful'
    <3>1. store \cup gone \subseteq store' \cup gone'
      BY <2>1 DEF Arrives, GivesUp, DeletedElsewhere
    <3>2. UNCHANGED <<rows, posts, unfetched, orphaned, uploads>>
      BY <2>1 DEF Arrives, GivesUp, DeletedElsewhere
    <3>3. QED
      BY <3>1, <3>2
  <2>2. CASE Crashes \/ Restarts
    BY <2>2 DEF Crashes, Restarts
  <2>3. QED
    BY <1>6, <2>1, <2>2 DEF Outside
<1>7. CASE UNCHANGED feedVars
  BY <1>1, <1>7 DEF feedVars
<1>8. QED
  BY <1>2, <1>3, <1>4, <1>5, <1>6, <1>7 DEF FeedNext

--------------------------------------------------------------------------------
LEMMA OnceStep == Typed /\ Once /\ [FeedNext]_feedVars => Once'
<1> SUFFICES ASSUME Typed, Once, [FeedNext]_feedVars, crashes' = 0, deletes' = 0
             PROVE  /\ phase' = "up" /\ unfetched' \subseteq posts'
                    /\ \A t \in tasks' : t.post \in posts' \ unfetched'
                    /\ \A t, u \in tasks' : t.post = u.post /\ t.blob = u.blob => t = u
  BY DEF Once
<1> DEFINE Goal == /\ phase' = "up" /\ unfetched' \subseteq posts'
                   /\ \A t \in tasks' : t.post \in posts' \ unfetched'
                   /\ \A t, u \in tasks' : t.post = u.post /\ t.blob = u.blob => t = u
<1>1. ASSUME UNCHANGED <<tasks, posts, unfetched, phase, crashes, deletes>> PROVE Goal
  BY <1>1 DEF Once
<1>2. CASE FeedApi
  <2>1. ASSUME NEW p \in Mine, NEW stored \in SUBSET Attach[p], Uploads(p, stored) PROVE Goal
    BY <1>1, <2>1 DEF Uploads, counters
  <2>2. ASSUME NEW p \in Mine, Publishes(p) PROVE Goal
    BY <2>2 DEF Publishes, counters, Once
  <2>3. ASSUME NEW p \in Post, Deletes(p) PROVE Goal
    BY <2>3 DEF Deletes, Typed
  <2>4. QED
    BY <1>2, <2>1, <2>2, <2>3 DEF FeedApi
<1>3. CASE Daemon
  <2>1. ASSUME NEW p \in Theirs, NEW first \in BOOLEAN, Forwards(p, first) PROVE Goal
    BY <1>1, <2>1 DEF Forwards
  <2>2. ASSUME NEW m \in inbox, NEW taken \in BOOLEAN, NEW answered \in BOOLEAN,
               Posts(m, taken, answered)
        PROVE  Goal
    <3>1. UNCHANGED <<tasks, phase, crashes, deletes>>
      BY <2>2 DEF Posts, counters
    <3>2. CASE UNCHANGED <<posts, unfetched>>
      BY <1>1, <3>1, <3>2
    <3>3. CASE Ingests(m.post)
      BY <3>1, <3>3 DEF Ingests, Fresh, Once
    <3>4. QED
      BY <2>2, <3>2, <3>3 DEF Posts
  <2>3. QED
    BY <1>3, <2>1, <2>2 DEF Daemon
<1>4. CASE Starts
  <2>1. ASSUME NEW p \in Theirs, NEW k \in Slots, Fetches(p, k) PROVE Goal
    <3> DEFINE new == Spawned(k, {p} \X Attach[p])
    <3>1. {p} \X Attach[p] \in SUBSET (Theirs \X Blob)
      BY FeedAssumption DEF Post
    <3>2. \A t \in new : t.post = p
      <4>1. \A t \in new : <<t.post, t.blob>> \in {p} \X Attach[p]
        BY <3>1, SpawnedShape
      <4>2. QED
        BY <4>1
    <3>3. \A t, u \in new : t.post = u.post /\ t.blob = u.blob => t = u
      BY <3>1, SpawnedShape
    <3>4. /\ p \in unfetched /\ unfetched' = unfetched \ {p} /\ tasks' = tasks \cup new
          /\ UNCHANGED <<posts, phase, crashes, deletes>>
      BY <2>1 DEF Fetches, counters
    <3> HIDE DEF new
    <3>5. QED
      BY <3>2, <3>3, <3>4 DEF Once
  <2>2. ASSUME NEW k \in Slots, Resumes(k) PROVE Goal
    BY <2>2 DEF Resumes, counters, Once
  <2>3. QED
    BY <1>4, <2>1, <2>2 DEF Starts
<1>5. ASSUME NEW t \in tasks, TaskStep(t) PROVE Goal
  <2>1. Steps(t)
    BY <1>5, TaskSteps
  <2>2. UNCHANGED <<posts, unfetched, phase, crashes, deletes>>
    BY <2>1 DEF Steps, counters
  <2>3. CASE tasks' = tasks \ {t}
    BY <2>2, <2>3 DEF Once
  <2>4. ASSUME NEW st \in {"check", "request", "poll"}, Advance(t, st) PROVE Goal
    <3>1. PICK u : tasks' = (tasks \ {t}) \cup {u} /\ u.post = t.post /\ u.blob = t.blob
      BY <2>4, AdvanceShape DEF Advance
    <3>2. QED
      BY <2>2, <3>1 DEF Once
  <2>5. QED
    BY <2>1, <2>3, <2>4 DEF Steps, Finish
<1>6. CASE Outside
  BY <1>1, <1>6 DEF Outside, Arrives, GivesUp, DeletedElsewhere, Crashes, Restarts, counters,
                    Typed, Once
<1>7. CASE UNCHANGED feedVars
  BY <1>1, <1>7 DEF feedVars, counters
<1>8. QED
  BY <1>2, <1>3, <1>4, <1>5, <1>6, <1>7 DEF FeedNext

--------------------------------------------------------------------------------
LEMMA InitShape == FeedInit => Typed /\ Worked /\ Truthful /\ Once
<1> SUFFICES ASSUME FeedInit PROVE Typed /\ Worked /\ Truthful /\ Once
  OBVIOUS
<1>1. rows \in Rows /\ \A p \in Post, b \in Blob : rows[p][b] = "none"
  BY DEF FeedInit, NoRows, Rows, Statuses
<1>2. QED
  BY <1>1 DEF FeedInit, Typed, Worked, ActiveIsWorkedOn, Active, Truthful, Once, Post

\* A transfer under way has a task, through crashes, deletions and deliveries that
\* are repeated (blob_fetcher.rs fetch_post_blobs, resume_active_transfers).
THEOREM WorkedOn == FeedSpec => []ActiveIsWorkedOn
<1>1. FeedInit => Typed /\ Worked
  BY InitShape
<1>2. Worked => ActiveIsWorkedOn
  BY DEF Worked
<1>3. QED
  BY <1>1, <1>2, TypedStep, WorkedStep, PTL DEF FeedSpec

LEMMA StatusFollows == Typed /\ Truthful => StatusTrue
<1> SUFFICES ASSUME Typed, Truthful, NEW p \in posts \ (unfetched \cup orphaned),
                    AttachmentStatus(p) \in {"local", "complete"}
             PROVE  Attach[p] \subseteq store \cup gone
  BY DEF StatusTrue
<1> DEFINE known == {rows[p][b] : b \in TransfersOf(p)}
<1>1. known = {} \/ known = {"complete"}
  BY DEF AttachmentStatus
<1>2. \A b \in Blob : rows[p][b] # "none" => rows[p][b] = "complete"
  BY <1>1 DEF TransfersOf
<1>3. p \in Post /\ Attach[p] \subseteq Blob
  BY FeedAssumption DEF Typed
<1>4. CASE p \in Mine
  BY <1>4 DEF Truthful, Had
<1>5. CASE p \in Theirs
  BY <1>2, <1>3, <1>5 DEF Truthful
<1>6. QED
  BY <1>3, <1>4, <1>5 DEF Post

\* A post reported "local" or "complete" has its blobs, but for the exceptions the
\* property names (api.rs get_attachment_status).
THEOREM StatusStaysTrue == FeedSpec => []StatusTrue
<1>1. FeedInit => Typed /\ Truthful
  BY InitShape
<1>2. QED
  BY <1>1, TypedStep, TruthfulStep, StatusFollows, PTL DEF FeedSpec

LEMMA OneFollows == Once => OneFetch
<1> SUFFICES ASSUME Once, crashes = 0, deletes = 0, NEW p \in Theirs, NEW b \in Blob
             PROVE  Cardinality(TasksOf(p, b)) <= 1
  BY DEF OneFetch
<1>1. CASE TasksOf(p, b) = {}
  BY <1>1, FS_EmptySet
<1>2. CASE TasksOf(p, b) # {}
  <2>1. PICK t : TasksOf(p, b) = {t}
    <3>1. PICK t : t \in TasksOf(p, b)
      BY <1>2
    <3>2. \A u \in TasksOf(p, b) : u = t
      BY <3>1 DEF TasksOf, Once
    <3>3. QED
      BY <3>1, <3>2
  <2>2. Cardinality({t}) = 1
    BY FS_Singleton
  <2>3. QED
    BY <2>1, <2>2
<1>3. QED
  BY <1>1, <1>2

\* However often a post is delivered, it is fetched once (api.rs p2pcd_inbound).
THEOREM FetchedOnce == FeedSpec => []OneFetch
<1>1. FeedInit => Typed /\ Once
  BY InitShape
<1>2. QED
  BY <1>1, TypedStep, OnceStep, OneFollows, PTL DEF FeedSpec

--------------------------------------------------------------------------------
(* Types of the voice rooms, and of the event stream below them.               *)

LEMMA CapTypeInit == CapInit => CapTypeOK
<1> SUFFICES ASSUME CapInit PROVE CapTypeOK
  OBVIOUS
<1>1. <<>> \in Seq(Message) /\ Len(<<>>) = 0
  BY EmptySeq
<1>2. due \in [Peer -> Seq(Message)] /\ hooks \in [Peer -> Nat]
  BY <1>1 DEF CapInit
<1>3. bus \in Seq(Message) /\ wire \in Seq(Message) /\ Len(bus) <= Capacity
  BY <1>1, CapEventsAssumption DEF CapInit
<1>4. changes \in 0 .. MaxChanges /\ breaks \in 0 .. MaxBreaks
  BY CapEventsAssumption DEF CapInit
<1>5. QED
  BY <1>2, <1>3, <1>4 DEF CapInit, CapTypeOK

\* An event that is published keeps the bus within its capacity.
LEMMA PublishedType ==
  ASSUME CapTypeOK, NEW e \in Message, Published(e)
  PROVE  bus' \in Seq(Message) /\ Len(bus') <= Capacity /\ lagged' \in BOOLEAN
<1>1. CASE UNCHANGED busVars
  BY <1>1 DEF busVars, CapTypeOK
<1>2. CASE Len(bus) < Capacity /\ bus' = Append(bus, e) /\ UNCHANGED lagged
  <2>1. bus' \in Seq(Message) /\ Len(bus') = Len(bus) + 1 /\ Len(bus) \in Nat
    BY <1>2, AppendProperties, LenProperties DEF CapTypeOK
  <2>2. QED
    BY <1>2, <2>1, CapEventsAssumption DEF CapTypeOK
<1>3. CASE bus' = <<>> /\ lagged' = TRUE
  BY <1>3, EmptySeq, CapEventsAssumption
<1>4. QED
  BY <1>1, <1>2, <1>3 DEF Published

LEMMA EventType ==
  ASSUME NEW p \in Peer
  PROVE  Event("peer-active", p) \in Message /\ Event("peer-inactive", p) \in Message
BY DEF Event, Message

LEMMA EngineType ==
  ASSUME CapTypeOK, NEW p \in Peer,
         (\E told \in BOOLEAN : Up(p, told)) \/ Down(p) \/ Publish(p) \/ Report(p) \/ Replace(p)
  PROVE  CapTypeOK'
<1> USE DEF busVars, streamVars, ghostVars
<1>1. ASSUME NEW e \in Message, due' = [due EXCEPT ![p] = Append(due[p], e)]
      PROVE  due' \in [Peer -> Seq(Message)]
  <2>1. Append(due[p], e) \in Seq(Message)
    BY AppendProperties DEF CapTypeOK
  <2>2. QED
    BY <1>1, <2>1 DEF CapTypeOK
<1>2. Change(p) => changes' \in 0 .. MaxChanges /\ p \notin dropping
  BY CapEventsAssumption DEF Change, CapTypeOK
<1>3. ASSUME NEW told \in BOOLEAN, Up(p, told) PROVE CapTypeOK'
  <2>1. due' \in [Peer -> Seq(Message)]
    BY <1>1, <1>3, EventType DEF Up, CapTypeOK
  <2>2. QED
    BY <1>2, <1>3, <2>1 DEF Up, CapTypeOK
<1>4. CASE Down(p)
  <2>1. due' \in [Peer -> Seq(Message)]
    BY <1>1, <1>4, EventType DEF Down
  <2>2. QED
    BY <1>2, <1>4, <2>1 DEF Down, CapTypeOK
<1>5. CASE Publish(p)
  <2>1. /\ Head(due[p]) \in Message /\ Tail(due[p]) \in Seq(Message)
    BY <1>5, HeadTailProperties DEF Publish, CapTypeOK
  <2>2. due' \in [Peer -> Seq(Message)]
    BY <1>5, <2>1 DEF Publish, CapTypeOK
  <2>3. bus' \in Seq(Message) /\ Len(bus') <= Capacity /\ lagged' \in BOOLEAN
    BY <1>5, <2>1, PublishedType DEF Publish
  <2>4. QED
    BY <1>5, <2>2, <2>3 DEF Publish, CapTypeOK
<1>6. CASE Report(p)
  <2>1. bus' \in Seq(Message) /\ Len(bus') <= Capacity /\ lagged' \in BOOLEAN
    BY <1>6, EventType, PublishedType DEF Report
  <2>2. QED
    BY <1>2, <1>6, <2>1 DEF Report, CapTypeOK
<1>7. CASE Replace(p)
  BY <1>7 DEF Replace, CapTypeOK
<1>8. QED
  BY <1>3, <1>4, <1>5, <1>6, <1>7

LEMMA StreamType ==
  ASSUME CapTypeOK, Streams \/ \E restart \in BOOLEAN : Break(restart)
  PROVE  CapTypeOK'
<1> USE DEF busVars, streamVars, ghostVars
<1>0. <<>> \in Seq(Message) /\ Len(<<>>) = 0 /\ 0 <= Capacity
  BY EmptySeq, CapEventsAssumption
<1>1. CASE Subscribe
  BY <1>0, <1>1 DEF Subscribe, CapTypeOK
<1>2. CASE SendSnapshot
  <2>1. Snapshot(active) \in Message
    BY DEF Snapshot, Message, CapTypeOK
  <2>2. wire' \in Seq(Message)
    BY <1>2, <2>1 DEF SendSnapshot
  <2>3. QED
    BY <1>2, <2>2 DEF SendSnapshot, CapTypeOK
<1>3. CASE Forward
  <2>1. /\ Head(bus) \in Message /\ Tail(bus) \in Seq(Message) /\ Len(Tail(bus)) = Len(bus) - 1
        /\ Len(bus) \in Nat
    BY <1>3, HeadTailProperties, LenProperties DEF Forward, CapTypeOK
  <2>2. wire' \in Seq(Message)
    BY <1>3, <2>1, AppendProperties DEF Forward, CapTypeOK
  <2>3. bus' \in Seq(Message) /\ Len(bus') <= Capacity
    BY <1>3, <2>1, CapEventsAssumption DEF Forward, CapTypeOK
  <2>4. QED
    BY <1>3, <2>2, <2>3 DEF Forward, CapTypeOK
<1>4. CASE End
  BY <1>4 DEF End, CapTypeOK
<1>5. CASE Reconnect
  BY <1>5 DEF Reconnect, CapTypeOK
<1>6. CASE Receive
  <2> DEFINE msg == Head(wire)
  <2>1. msg \in Message /\ Tail(wire) \in Seq(Message)
    BY <1>6, HeadTailProperties DEF Receive, CapTypeOK
  <2>2. /\ msg.type = "snapshot" => msg.peers \subseteq Peer
        /\ msg.type # "snapshot" => msg.type \in {"peer-active", "peer-inactive"} /\ msg.peer \in Peer
    BY <2>1 DEF Message
  <2>3. /\ wire' = Tail(wire)
        /\ \/ /\ msg.type = "snapshot" /\ tracker' = msg.peers
              /\ vanished' = vanished \cup (tracker \ msg.peers) /\ UNCHANGED hooks
           \/ /\ msg.type # "snapshot" /\ tracker' = tracker \cup {msg.peer}
              /\ UNCHANGED <<hooks, vanished>>
           \/ /\ msg.type # "snapshot" /\ tracker' = tracker \ {msg.peer}
              /\ hooks' = [hooks EXCEPT ![msg.peer] = @ + 1] /\ UNCHANGED vanished
        /\ UNCHANGED <<active, due, dropping, busVars, stream, untold, changes, breaks>>
    BY <1>6, <2>2 DEF Receive
  <2> HIDE DEF msg
  <2>4. tracker' \subseteq Peer /\ vanished' \subseteq Peer /\ hooks' \in [Peer -> Nat]
    BY <2>2, <2>3 DEF CapTypeOK
  <2>5. QED
    BY <2>1, <2>3, <2>4 DEF CapTypeOK
<1>7. ASSUME NEW restart \in BOOLEAN, Break(restart) PROVE CapTypeOK'
  <2>1. breaks' \in 0 .. MaxBreaks
    BY <1>7, CapEventsAssumption DEF Break, CapTypeOK
  <2>2. active' \subseteq Peer /\ dropping' \subseteq active' /\ due' \in [Peer -> Seq(Message)]
    BY <1>0, <1>7 DEF Break, CapTypeOK
  <2>3. QED
    BY <1>0, <1>7, <2>1, <2>2 DEF Break, CapTypeOK
<1>8. QED
  BY <1>1, <1>2, <1>3, <1>4, <1>5, <1>6, <1>7 DEF Streams

LEMMA CapTypeStep == CapTypeOK /\ [Next]_vars => CapTypeOK'
<1> SUFFICES ASSUME CapTypeOK, [Next]_vars PROVE CapTypeOK'
  OBVIOUS
<1>1. CASE UNCHANGED capVars
  BY <1>1 DEF capVars, busVars, streamVars, ghostVars, CapTypeOK
<1>2. CASE CapNext
  BY <1>2, EngineType, StreamType DEF CapNext
<1>3. CASE Api
  BY <1>1, <1>3 DEF Api, CreateRoom, QuickCall, JoinStarts, JoinEnds, LeaveRoom, CloseRoom,
     InvitePeers
<1>4. CASE Bridge
  BY <1>1, <1>4 DEF Bridge, InviteLooks, InviteStores
<1>5. CASE Background
  <2>1. ASSUME NEW p \in Peer, HookLooks(p) PROVE CapTypeOK'
    BY <2>1 DEF HookLooks, busVars, streamVars, ghostVars, CapTypeOK
  <2>2. QED
    BY <1>1, <1>5, <2>1 DEF Background, HookRemoves, Ages, CleanUp
<1>6. CASE Signals
  BY <1>1, <1>6 DEF Signals, SocketChecks, SocketJoins, SocketCloses
<1>7. QED
  BY <1>1, <1>2, <1>3, <1>4, <1>5, <1>6 DEF Next, vars

ARoom == [members : SUBSET Caller, invited : SUBSET Caller, max : Nat, by : Caller,
          age : 0 .. 2, kind : {"none", "local", "remote"}]

\* What the steps of the capability itself keep.
VoiceTypeOK ==
  /\ rooms \in [Room -> ARoom]
  /\ hung \in BOOLEAN /\ joining \subseteq Caller \X Room /\ inviting \subseteq Peer \X Room
  /\ doomed \subseteq Peer /\ late \subseteq Peer
  /\ hub \in [Room -> [Caller -> Sockets \cup {NoSocket}]]
  /\ sockets \in [Sockets -> [room : Room, peer : Caller, st : {"closed", "checked", "live"}]]
  /\ count \in 0 .. Wrap - 1
  /\ calls \in 0 .. MaxCalls

LEMMA NoRoomType == NoRoom \in ARoom
BY DEF NoRoom, ARoom, Caller

LEMMA ClosedType == Closed \in [room : Room, peer : Caller, st : {"closed", "checked", "live"}]
<1>1. (CHOOSE r \in Room : TRUE) \in Room
  BY VoiceAssumption
<1>2. QED
  BY <1>1 DEF Closed, Caller

LEMMA LeftType ==
  ASSUME NEW room \in ARoom, NEW c
  PROVE  Left(room, c) \in ARoom
BY NoRoomType DEF Left, ARoom

LEMMA VoiceTypeInit == Init => VoiceTypeOK
<1> SUFFICES ASSUME Init PROVE VoiceTypeOK
  OBVIOUS
<1>1. rooms \in [Room -> ARoom]
  BY NoRoomType DEF Init, VoiceInit
<1>2. sockets \in [Sockets -> [room : Room, peer : Caller, st : {"closed", "checked", "live"}]]
  BY ClosedType DEF Init, VoiceInit
<1>3. hub \in [Room -> [Caller -> Sockets \cup {NoSocket}]]
  BY DEF Init, VoiceInit
<1>4. count \in 0 .. Wrap - 1 /\ calls \in 0 .. MaxCalls
  BY VoiceAssumption DEF Init, VoiceInit
<1>5. QED
  BY <1>1, <1>2, <1>3, <1>4 DEF Init, VoiceInit, VoiceTypeOK

LEMMA CountType ==
  ASSUME NEW k \in Nat
  PROVE  k % Wrap \in 0 .. Wrap - 1
BY VoiceAssumption

LEMMA SeatedType == ASSUME VoiceTypeOK, NEW c, Seated(c) PROVE late' \subseteq Peer
BY DEF Seated, VoiceTypeOK

LEMMA CallType == ASSUME VoiceTypeOK, Call PROVE calls' \in 0 .. MaxCalls
BY VoiceAssumption DEF Call, VoiceTypeOK

LEMMA ApiType == ASSUME VoiceTypeOK, Api PROVE VoiceTypeOK'
<1> USE DEF signalVars
<1>0. PICK r \in Room :
        \/ \E c \in Caller :
             \/ \E set \in SUBSET (Caller \ {c}), max \in Limit : CreateRoom(c, r, set, max)
             \/ \E p \in Caller \ {c} : QuickCall(c, r, p)
             \/ \E asked \in BOOLEAN : JoinStarts(c, r, asked)
             \/ JoinEnds(c, r) \/ LeaveRoom(c, r) \/ CloseRoom(c, r)
        \/ \E p \in Caller : InvitePeers(r, {p})
  BY DEF Api
<1>1. ASSUME NEW room \in ARoom, rooms' = [rooms EXCEPT ![r] = room]
      PROVE  rooms' \in [Room -> ARoom]
  BY <1>1 DEF VoiceTypeOK
<1>2. rooms[r] \in ARoom
  BY DEF VoiceTypeOK
<1>3. ASSUME NEW c \in Caller, NEW set \in SUBSET Caller, NEW max \in Nat, CreateRoom(c, r, set, max)
      PROVE  VoiceTypeOK'
  <2>1. rooms' \in [Room -> ARoom]
    <3>1. [members |-> {c}, invited |-> set, max |-> max, by |-> c, age |-> 0, kind |-> "local"] \in ARoom
      BY DEF ARoom
    <3>2. QED
      BY <1>1, <1>3, <3>1 DEF CreateRoom
  <2>2. late' \subseteq Peer /\ calls' \in 0 .. MaxCalls
    BY <1>3, SeatedType, CallType DEF CreateRoom
  <2>3. QED
    BY <1>3, <2>1, <2>2 DEF CreateRoom, VoiceTypeOK
<1>4. ASSUME NEW c \in Caller, NEW asked \in BOOLEAN, JoinStarts(c, r, asked) PROVE VoiceTypeOK'
  <2>1. calls' \in 0 .. MaxCalls /\ joining' \subseteq Caller \X Room
    BY <1>4, CallType DEF JoinStarts, VoiceTypeOK
  <2>2. QED
    BY <1>4, <2>1 DEF JoinStarts, VoiceTypeOK
<1>5. ASSUME NEW c \in Caller, JoinEnds(c, r) PROVE VoiceTypeOK'
  <2>1. rooms' \in [Room -> ARoom]
    <3> DEFINE new == [[rooms[r] EXCEPT !.members = @ \cup {c}] EXCEPT !.invited = @ \ {c}]
    <3>1. new \in ARoom
      BY <1>2 DEF ARoom
    <3>2. CASE rooms' = rooms
      BY <3>2 DEF VoiceTypeOK
    <3>3. CASE rooms' = [rooms EXCEPT ![r].members = @ \cup {c}, ![r].invited = @ \ {c}]
      <4>1. rooms' = [rooms EXCEPT ![r] = new]
        BY <3>3 DEF VoiceTypeOK
      <4>2. QED
        BY <1>1, <3>1, <4>1
    <3>4. QED
      BY <1>5, <3>2, <3>3 DEF JoinEnds
  <2>2. late' \subseteq Peer
    BY <1>5, SeatedType DEF JoinEnds, VoiceTypeOK
  <2>3. count' \in 0 .. Wrap - 1
    <3>1. count + Wrap - 1 \in Nat
      BY VoiceAssumption DEF VoiceTypeOK
    <3>2. QED
      BY <1>5, <3>1, CountType DEF JoinEnds, VoiceTypeOK
  <2>4. QED
    BY <1>5, <2>1, <2>2, <2>3 DEF JoinEnds, VoiceTypeOK
<1>6. ASSUME NEW c \in Caller, LeaveRoom(c, r) PROVE VoiceTypeOK'
  <2>1. rooms' \in [Room -> ARoom] /\ calls' \in 0 .. MaxCalls
    BY <1>1, <1>2, <1>6, LeftType, CallType DEF LeaveRoom
  <2>2. QED
    BY <1>6, <2>1 DEF LeaveRoom, VoiceTypeOK
<1>7. ASSUME NEW c \in Caller, CloseRoom(c, r) PROVE VoiceTypeOK'
  <2>1. rooms' \in [Room -> ARoom] /\ calls' \in 0 .. MaxCalls
    BY <1>1, <1>7, NoRoomType, CallType DEF CloseRoom
  <2>2. hub' \in [Room -> [Caller -> Sockets \cup {NoSocket}]]
    BY <1>7 DEF CloseRoom, VoiceTypeOK
  <2>3. count' \in 0 .. Wrap - 1
    BY <1>7, VoiceAssumption DEF CloseRoom
  <2>4. QED
    BY <1>7, <2>1, <2>2, <2>3 DEF CloseRoom, VoiceTypeOK
<1>8. ASSUME NEW p \in Caller, InvitePeers(r, {p}) PROVE VoiceTypeOK'
  <2>1. Invited(rooms[r], {p}) \in ARoom
    BY <1>2 DEF Invited, ARoom
  <2>2. rooms' \in [Room -> ARoom] /\ calls' \in 0 .. MaxCalls
    BY <1>1, <1>8, <2>1, CallType DEF InvitePeers
  <2>3. QED
    BY <1>8, <2>2 DEF InvitePeers, VoiceTypeOK
<1>9. Limit \subseteq Nat /\ 2 \in Nat
  BY VoiceAssumption
<1>10. ASSUME NEW c \in Caller, NEW p \in Caller, QuickCall(c, r, p) PROVE VoiceTypeOK'
  BY <1>3, <1>10 DEF QuickCall
<1>11. QED
  BY <1>0, <1>3, <1>4, <1>5, <1>6, <1>7, <1>8, <1>9, <1>10

LEMMA BridgeType == ASSUME VoiceTypeOK, Bridge PROVE VoiceTypeOK'
<1> USE DEF signalVars
<1>0. PICK r \in Room, p \in Peer : InviteLooks(p, r) \/ InviteStores(p, r)
  BY DEF Bridge
<1>1. CASE InviteLooks(p, r)
  <2>1. calls' \in 0 .. MaxCalls
    BY <1>1, CallType DEF InviteLooks
  <2>2. hung' \in BOOLEAN /\ inviting' \subseteq Peer \X Room
    <3>1. CASE Exists(r)
      BY <1>1, <3>1 DEF InviteLooks, VoiceTypeOK
    <3>2. CASE ~Exists(r)
      BY <1>1, <3>2 DEF InviteLooks, VoiceTypeOK
    <3>3. QED
      BY <3>1, <3>2
  <2>3. QED
    BY <1>1, <2>1, <2>2 DEF InviteLooks, VoiceTypeOK
<1>2. CASE InviteStores(p, r)
  <2>1. rooms' \in [Room -> ARoom]
    <3>1. [members |-> {}, invited |-> {p}, max |-> 10, by |-> p, age |-> 0, kind |-> "remote"] \in ARoom
      BY DEF ARoom, Caller
    <3>2. QED
      BY <1>2, <3>1 DEF InviteStores, VoiceTypeOK
  <2>2. count' \in 0 .. Wrap - 1
    BY <1>2, CountType DEF InviteStores, VoiceTypeOK
  <2>3. QED
    BY <1>2, <2>1, <2>2 DEF InviteStores, VoiceTypeOK
<1>3. QED
  BY <1>0, <1>1, <1>2

LEMMA BackgroundType == ASSUME VoiceTypeOK, Background PROVE VoiceTypeOK'
<1> USE DEF signalVars, roomVars
<1>1. ASSUME NEW p \in Peer, HookLooks(p) PROVE VoiceTypeOK'
  BY <1>1 DEF HookLooks, VoiceTypeOK
<1>2. ASSUME NEW p \in Peer, HookRemoves(p) PROVE VoiceTypeOK'
  <2>1. rooms' \in [Room -> ARoom]
    BY <1>2, LeftType DEF HookRemoves, VoiceTypeOK
  <2>2. hub' \in [Room -> [Caller -> Sockets \cup {NoSocket}]]
    BY <1>2 DEF HookRemoves, VoiceTypeOK
  <2>3. QED
    BY <1>2, <2>1, <2>2 DEF HookRemoves, VoiceTypeOK
<1>3. ASSUME NEW r \in Room, Ages(r) PROVE VoiceTypeOK'
  <2>1. rooms[r] \in ARoom
    BY DEF VoiceTypeOK
  <2>2. [rooms[r] EXCEPT !.age = @ + 1] \in ARoom
    BY <1>3, <2>1 DEF Ages, ARoom
  <2>3. rooms' = [rooms EXCEPT ![r] = [rooms[r] EXCEPT !.age = @ + 1]]
    BY <1>3 DEF Ages
  <2>4. rooms' \in [Room -> ARoom] /\ calls' \in 0 .. MaxCalls
    BY <1>3, <2>2, <2>3, CallType DEF Ages, VoiceTypeOK
  <2>5. QED
    BY <1>3, <2>4 DEF Ages, VoiceTypeOK
<1>4. CASE CleanUp
  <2>1. \A room \in ARoom : [room EXCEPT !.invited = {}] \in ARoom
    BY DEF ARoom
  <2>2. rooms' \in [Room -> ARoom]
    BY <1>4, <2>1, NoRoomType DEF CleanUp, VoiceTypeOK
  <2>3. QED
    BY <1>4, <2>2 DEF CleanUp, VoiceTypeOK
<1>5. QED
  BY <1>1, <1>2, <1>3, <1>4 DEF Background

LEMMA SignalsType == ASSUME VoiceTypeOK, Signals PROVE VoiceTypeOK'
<1> USE DEF roomVars
<1> DEFINE Socket == [room : Room, peer : Caller, st : {"closed", "checked", "live"}]
<1>1. ASSUME NEW s \in Sockets, NEW c \in Caller, NEW r \in Room, SocketChecks(s, c, r)
      PROVE  VoiceTypeOK'
  <2>1. [room |-> r, peer |-> c, st |-> "checked"] \in Socket
    OBVIOUS
  <2>2. sockets' \in [Sockets -> Socket] /\ calls' \in 0 .. MaxCalls
    BY <1>1, <2>1, CallType DEF SocketChecks, VoiceTypeOK
  <2>3. QED
    BY <1>1, <2>2 DEF SocketChecks, VoiceTypeOK
<1>2. ASSUME NEW s \in Sockets, NEW to \in Sockets \cup {NoSocket},
             hub' = [hub EXCEPT ![sockets[s].room][sockets[s].peer] = to]
      PROVE  hub' \in [Room -> [Caller -> Sockets \cup {NoSocket}]]
  <2>1. sockets[s].room \in Room /\ sockets[s].peer \in Caller
    BY DEF VoiceTypeOK
  <2>2. QED
    BY <1>2, <2>1 DEF VoiceTypeOK
<1>3. ASSUME NEW s \in Sockets, SocketJoins(s) PROVE VoiceTypeOK'
  <2>1. sockets[s] \in Socket
    BY DEF VoiceTypeOK
  <2>2. [sockets[s] EXCEPT !.st = "live"] \in Socket
    BY <2>1
  <2>3. sockets' \in [Sockets -> Socket]
    BY <1>3, <2>2 DEF SocketJoins, VoiceTypeOK
  <2>4. hub' \in [Room -> [Caller -> Sockets \cup {NoSocket}]]
    BY <1>2, <1>3 DEF SocketJoins
  <2>5. QED
    BY <1>3, <2>3, <2>4 DEF SocketJoins, VoiceTypeOK
<1>4. ASSUME NEW s \in Sockets, SocketCloses(s) PROVE VoiceTypeOK'
  <2>1. sockets' \in [Sockets -> Socket]
    BY <1>4, ClosedType DEF SocketCloses, VoiceTypeOK
  <2>2. hub' \in [Room -> [Caller -> Sockets \cup {NoSocket}]]
    BY <1>2, <1>4 DEF SocketCloses
  <2>3. QED
    BY <1>4, <2>1, <2>2 DEF SocketCloses, VoiceTypeOK
<1>5. QED
  BY <1>1, <1>3, <1>4 DEF Signals

\* Rooms, hub, sockets and what the event stream holds have their types: a client's
\* seat and socket are its own, the bus stays within its capacity (event_bus.rs), and
\* the counter of invitations within its width, for any peers, rooms and sockets.
THEOREM VoiceTypeCorrect == Spec => []TypeOK
<1>1. Init => CapTypeOK /\ VoiceTypeOK
  BY CapTypeInit, VoiceTypeInit DEF Init
<1>2. VoiceTypeOK /\ [Next]_vars => VoiceTypeOK'
  <2>1. ASSUME UNCHANGED voiceVars, VoiceTypeOK PROVE VoiceTypeOK'
    BY <2>1 DEF voiceVars, roomVars, signalVars, VoiceTypeOK
  <2>2. QED
    BY <2>1, ApiType, BridgeType, BackgroundType, SignalsType DEF Next, vars
<1>3. CapTypeOK /\ VoiceTypeOK => TypeOK
  BY DEF VoiceTypeOK, TypeOK, ARoom
<1>4. QED
  BY <1>1, <1>2, <1>3, CapTypeStep, PTL DEF Spec

--------------------------------------------------------------------------------
(* Types of the feed.                                                          *)

\* What Typed leaves open.
Bounded ==
  /\ inbox \subseteq [post : Theirs, left : 1 .. Attempts]
  /\ store \subseteq Blob /\ requested \subseteq Blob /\ gone \subseteq Blob
  /\ phase \in {"up", "starting", "down"} /\ orphaned \subseteq Theirs
  /\ deliveries \in 0 .. MaxDeliveries /\ crashes \in 0 .. MaxCrashes
  /\ deletes \in 0 .. MaxDeletes

LEMMA BoundedStep == Typed /\ Bounded /\ [FeedNext]_feedVars => Bounded'
<1> SUFFICES ASSUME Typed, Bounded, [FeedNext]_feedVars PROVE Bounded'
  OBVIOUS
<1> USE DEF counters
<1>1. CASE FeedApi
  <2>1. ASSUME NEW p \in Mine, NEW stored \in SUBSET Attach[p], Uploads(p, stored) PROVE Bounded'
    <3>1. Attach[p] \subseteq Blob
      BY FeedAssumption DEF Post
    <3>2. QED
      BY <2>1, <3>1 DEF Uploads, Bounded
  <2>2. ASSUME NEW p \in Mine, Publishes(p) PROVE Bounded'
    BY <2>2 DEF Publishes, Bounded
  <2>3. ASSUME NEW p \in Post, Deletes(p) PROVE Bounded'
    BY <2>3, FeedAssumption DEF Deletes, Bounded
  <2>4. QED
    BY <1>1, <2>1, <2>2, <2>3 DEF FeedApi
<1>2. CASE Daemon
  <2>1. ASSUME NEW p \in Theirs, NEW first \in BOOLEAN, Forwards(p, first) PROVE Bounded'
    <3>1. [post |-> p, left |-> Attempts] \in [post : Theirs, left : 1 .. Attempts]
      BY FeedAssumption
    <3>2. deliveries' \in 0 .. MaxDeliveries
      BY <2>1, FeedAssumption DEF Forwards, Bounded
    <3>3. QED
      BY <2>1, <3>1, <3>2 DEF Forwards, Bounded
  <2>2. ASSUME NEW m \in inbox, NEW taken \in BOOLEAN, NEW answered \in BOOLEAN,
               Posts(m, taken, answered)
        PROVE  Bounded'
    <3>1. m \in [post : Theirs, left : 1 .. Attempts]
      BY DEF Bounded
    <3>2. m.left # 1 => [m EXCEPT !.left = @ - 1] \in [post : Theirs, left : 1 .. Attempts]
      BY <3>1, FeedAssumption
    <3>3. inbox' \subseteq [post : Theirs, left : 1 .. Attempts]
      BY <2>2, <3>2 DEF Posts, Bounded
    <3>4. QED
      BY <2>2, <3>3 DEF Posts, Bounded
  <2>3. QED
    BY <1>2, <2>1, <2>2 DEF Daemon
<1>3. CASE Starts
  BY <1>3 DEF Starts, Fetches, Resumes, Bounded
<1>4. ASSUME NEW t \in tasks, TaskStep(t) PROVE Bounded'
  <2>1. t.blob \in Blob
    BY DEF Typed, Task
  <2>2. requested' \subseteq Blob
    BY <1>4, <2>1 DEF TaskStep, Checks, Requests, Finds, TimesOut, Asked, Bounded
  <2>3. QED
    BY <1>4, <2>2, TaskSteps DEF Steps, Bounded
<1>5. CASE Outside
  <2>1. ASSUME NEW b \in Blob, Arrives(b) \/ GivesUp(b) PROVE Bounded'
    BY <2>1 DEF Arrives, GivesUp, Bounded
  <2>2. ASSUME NEW b \in Blob, DeletedElsewhere(b) PROVE Bounded'
    BY <2>2, FeedAssumption DEF DeletedElsewhere, Bounded
  <2>3. CASE Crashes
    BY <2>3, FeedAssumption DEF Crashes, Bounded, Typed
  <2>4. CASE Restarts
    BY <2>4 DEF Restarts, Bounded
  <2>5. QED
    BY <1>5, <2>1, <2>2, <2>3, <2>4 DEF Outside
<1>6. CASE UNCHANGED feedVars
  BY <1>6 DEF feedVars, Bounded
<1>7. QED
  BY <1>1, <1>2, <1>3, <1>4, <1>5, <1>6 DEF FeedNext

\* Posts, rows, messages and tasks have their types: only posts of peers are posted to
\* the capability, fetched and orphaned, and a message has an attempt left
\* (post_inbound_with_retry), for any posts, blobs and attempts.
THEOREM FeedTypeCorrect == FeedSpec => []FeedTypeOK
<1>1. FeedInit => Typed /\ Bounded
  BY InitShape, FeedAssumption DEF FeedInit, Bounded
<1>2. Typed /\ Bounded => FeedTypeOK
  BY DEF Typed, Bounded, Rows, FeedTypeOK
<1>3. QED
  BY <1>1, <1>2, TypedStep, BoundedStep, PTL DEF FeedSpec
================================================================================
