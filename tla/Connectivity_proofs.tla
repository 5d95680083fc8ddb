-------------------------- MODULE Connectivity_proofs --------------------------
(* Matchmaking and hole punching, for any number of nodes, calls, sessions,     *)
(* invites, NATs and tries; and the types of matchmaking.                        *)
EXTENDS HolePunch, Matchmaking, FiniteSetTheorems, SequenceTheorems, WellFoundedInduction,
        TLAPS

--------------------------------------------------------------------------------
(* The key WireGuard has is that of the punch which was last at the key file,   *)
(* on every node where no two were there at once.                               *)

AtFile(n, k) == task[n][k].stage \in {"keyed", "set", "unset"}

\* What an assignment to one field of a task or a tunnel rests on.
Shapes ==
  /\ DOMAIN task = Side /\ DOMAIN tunnel = Side
  /\ \A n \in Side : /\ DOMAIN task[n] = Invite /\ "key" \in DOMAIN tunnel[n]
                     /\ \A k \in Invite : "stage" \in DOMAIN task[n][k]
  /\ keyFile \in [Side -> Invite \cup {"none"}]
  /\ given \in [Side -> Invite \cup {"none"}]

\* One punch at a time is at the file; until it has set the peer the file holds
\* its key, and afterwards WireGuard does.
Alone(n) ==
  /\ \A k, l \in Invite : AtFile(n, k) /\ AtFile(n, l) => k = l
  /\ \A k \in Invite : Is(n, k, "keyed") => keyFile[n] = k /\ given[n] = k
  /\ given[n] # "none" /\ (\A k \in Invite : ~Is(n, k, "keyed")) => tunnel[n].key = given[n]

Inv == Shapes /\ \A n \in Side \ overlapped : Alone(n)

\* A step that brings no punch to the file or away from it, and leaves every key.
Apart ==
  /\ UNCHANGED <<keyFile, ghostVars>>
  /\ DOMAIN tunnel' = Side
  /\ \A n \in Side : "key" \in DOMAIN tunnel'[n] /\ tunnel'[n].key = tunnel[n].key
  /\ DOMAIN task' = Side
  /\ \A n \in Side : DOMAIN task'[n] = Invite
  /\ \A n \in Side, k \in Invite :
       /\ "stage" \in DOMAIN task'[n][k]
       /\ AtFile(n, k) = AtFile(n, k)' /\ Is(n, k, "keyed") = Is(n, k, "keyed")'

LEMMA ApartKeeps == ASSUME Inv, Apart PROVE Inv'
<1>1. Shapes'
  BY DEF Inv, Shapes, Apart, ghostVars
<1>2. ASSUME NEW n \in Side \ overlapped' PROVE Alone(n)'
  <2>1. Alone(n) /\ n \in Side /\ given'[n] = given[n] /\ keyFile'[n] = keyFile[n]
        /\ tunnel'[n].key = tunnel[n].key
    BY <1>2 DEF Inv, Apart, ghostVars
  <2>2. \A k \in Invite : AtFile(n, k) = AtFile(n, k)' /\ Is(n, k, "keyed") = Is(n, k, "keyed")'
    BY <2>1 DEF Apart
  <2>3. (\A k, l \in Invite : AtFile(n, k) /\ AtFile(n, l) => k = l)'
    BY <2>1, <2>2 DEF Alone
  <2>4. (\A k \in Invite : Is(n, k, "keyed") => keyFile[n] = k /\ given[n] = k)'
    BY <2>1, <2>2 DEF Alone
  <2>5. QED
    BY <2>1, <2>2, <2>3, <2>4 DEF Alone
<1>3. QED
  BY <1>1, <1>2 DEF Inv

\* A task that goes from one stage away from the file to another.
LEMMA MovedIsApart ==
  ASSUME Inv, NEW n \in Side, NEW k \in Invite, ~AtFile(n, k), NEW t,
         "stage" \in DOMAIN t, t.stage \notin {"keyed", "set", "unset"},
         task' = [task EXCEPT ![n][k] = t],
         UNCHANGED <<keyFile, ghostVars, tunnel>>
  PROVE  Apart
BY DEF Inv, Shapes, Apart, AtFile, Is, ghostVars

LEMMA EndsIsApart ==
  ASSUME Inv, NEW n \in Side, NEW k \in Invite, ~AtFile(n, k),
         NEW stage, stage \notin {"keyed", "set", "unset"}, Ends(n, k, stage),
         UNCHANGED <<keyFile, ghostVars, tunnel>>
  PROVE  Apart
<1> DEFINE t == [Idle EXCEPT !.stage = stage]
<1>1. task' = [task EXCEPT ![n][k] = t] /\ "stage" \in DOMAIN t /\ t.stage = stage
  BY DEF Ends, Idle
<1> HIDE DEF t
<1>2. QED
  BY <1>1, MovedIsApart

\* A punch that begins is the last at the file; if it is not alone there, its node
\* is out of the theorem.
LEMMA StartsKeeps ==
  ASSUME Inv, NEW n \in Side, NEW k \in Invite, ~AtFile(n, k), NEW t,
         "stage" \in DOMAIN t, t.stage = "keyed",
         task' = [task EXCEPT ![n][k] = t], WritesKey(n, k), UNCHANGED tunnel
  PROVE  Inv'
<1>1. Shapes'
  BY DEF Inv, Shapes, WritesKey
<1>2. ASSUME NEW m \in Side \ overlapped' PROVE Alone(m)'
  <2>1. m \in Side /\ Alone(m)
    BY <1>2 DEF Inv, WritesKey
  <2>2. CASE m # n
    BY <2>1, <2>2 DEF Inv, Shapes, Alone, AtFile, Is, WritesKey
  <2>3. CASE m = n
    <3>1. \A l \in Invite \ {k} : ~AtFile(n, l)
      BY <1>2, <2>3 DEF WritesKey, AtFile
    <3>2. /\ AtFile(n, k)' /\ Is(n, k, "keyed")'
          /\ \A l \in Invite \ {k} : ~AtFile(n, l)' /\ ~Is(n, l, "keyed")'
      BY <3>1 DEF Inv, Shapes, AtFile, Is
    <3>3. keyFile'[n] = k /\ given'[n] = k
      BY DEF Inv, Shapes, WritesKey
    <3>4. QED
      BY <2>3, <3>2, <3>3 DEF Alone
  <2>4. QED
    BY <2>2, <2>3
<1>3. QED
  BY <1>1, <1>2 DEF Inv

LEMMA StartsInv ==
  ASSUME Inv, NEW n \in Side, NEW k \in Invite, ~AtFile(n, k),
         NEW ours, NEW info, NEW round, Starts(n, k, ours, info, round), UNCHANGED tunnel
  PROVE  Inv'
<1> DEFINE t == [Idle EXCEPT !.stage = "keyed", !.round = round,
                            !.config = PunchConfig(ours, info)]
<1>1. task' = [task EXCEPT ![n][k] = t] /\ "stage" \in DOMAIN t /\ t.stage = "keyed"
      /\ WritesKey(n, k)
  BY DEF Starts, Idle
<1> HIDE DEF t
<1>2. QED
  BY <1>1, StartsKeeps

\* Assignments to the stage of a task keep the shape of all of them.
LEMMA StageShapes ==
  ASSUME Inv, NEW n \in Side, NEW k \in Invite, NEW stage,
         task' = [task EXCEPT ![n][k].stage = stage]
  PROVE  /\ DOMAIN task' = Side
         /\ \A m \in Side : DOMAIN task'[m] = Invite
         /\ \A m \in Side, l \in Invite : "stage" \in DOMAIN task'[m][l]
BY DEF Inv, Shapes

--------------------------------------------------------------------------------
(* The steps at the file.                                                     *)

LEMMA SetPeerKeeps == ASSUME Inv, NEW n \in Side, NEW k \in Invite, SetPeer(n, k) PROVE Inv'
<1>1. Shapes'
  <2>1. PICK stage : task' = [task EXCEPT ![n][k].stage = stage]
    BY DEF SetPeer, To
  <2>2. DOMAIN tunnel' = Side /\ \A m \in Side : "key" \in DOMAIN tunnel'[m]
    <3>1. CASE keyFile[n] = "none"
      BY <3>1 DEF Inv, Shapes, SetPeer
    <3>2. CASE keyFile[n] # "none"
      BY <3>2 DEF Inv, Shapes, SetPeer
    <3>3. QED
      BY <3>1, <3>2
  <2>3. keyFile' = keyFile /\ given' = given
    BY DEF SetPeer, ghostVars
  <2>4. QED
    BY <2>1, <2>2, <2>3, StageShapes DEF Inv, Shapes
<1>2. ASSUME NEW m \in Side \ overlapped' PROVE Alone(m)'
  <2>1. m \in Side /\ Alone(m) /\ given'[m] = given[m] /\ keyFile'[m] = keyFile[m]
    BY <1>2 DEF Inv, SetPeer, ghostVars
  <2>2. CASE m # n
    BY <2>1, <2>2 DEF Inv, Shapes, Alone, AtFile, Is, SetPeer, To
  <2>3. CASE m = n
    <3>1. Is(n, k, "keyed") /\ keyFile[n] = k /\ given[n] = k /\ keyFile[n] # "none"
      BY <2>1, <2>3, PunchAssumption DEF Alone, SetPeer
    <3>2. AtFile(n, k) /\ \A l \in Invite \ {k} : ~AtFile(n, l)
      BY <2>1, <2>3, <3>1 DEF Alone, AtFile, Is
    <3>3. ~Is(n, k, "keyed")' /\ AtFile(n, k)'
          /\ \A l \in Invite \ {k} : ~AtFile(n, l)' /\ ~Is(n, l, "keyed")'
      BY <3>1, <3>2 DEF Inv, Shapes, AtFile, Is, SetPeer, To
    <3>4. tunnel'[n].key = given'[n]
      BY <2>1, <2>3, <3>1 DEF Inv, Shapes, SetPeer
    <3>5. QED
      BY <2>3, <3>3, <3>4 DEF Alone
  <2>4. QED
    BY <2>2, <2>3
<1>3. QED
  BY <1>1, <1>2 DEF Inv

LEMMA RemoveKeyKeeps == ASSUME Inv, NEW n \in Side, NEW k \in Invite, RemoveKey(n, k) PROVE Inv'
<1>1. Shapes'
  <2>1. keyFile' \in [Side -> Invite \cup {"none"}] /\ given' = given /\ tunnel' = tunnel
    BY DEF Inv, Shapes, RemoveKey, wgVars, ghostVars
  <2>2. CASE To(n, k, "trying")
    BY <2>1, <2>2, StageShapes DEF Inv, Shapes, To
  <2>3. CASE Ends(n, k, "failed")
    BY <2>1, <2>3 DEF Inv, Shapes, Ends, Idle
  <2>4. QED
    BY <2>2, <2>3 DEF RemoveKey
<1>2. ASSUME NEW m \in Side \ overlapped' PROVE Alone(m)'
  <2>1. m \in Side /\ Alone(m) /\ given'[m] = given[m] /\ tunnel' = tunnel
    BY <1>2 DEF Inv, RemoveKey, ghostVars, wgVars
  <2>2. CASE m # n
    BY <2>1, <2>2 DEF Inv, Shapes, Alone, AtFile, Is, RemoveKey, To, Ends
  <2>3. CASE m = n
    <3>1. AtFile(n, k) /\ ~Is(n, k, "keyed") /\ \A l \in Invite \ {k} : ~AtFile(n, l)
      BY <2>1, <2>3 DEF Alone, AtFile, Is, RemoveKey
    <3>2. \A l \in Invite : ~AtFile(n, l)' /\ ~Is(n, l, "keyed")'
      BY <3>1 DEF Inv, Shapes, AtFile, Is, RemoveKey, To, Ends, Idle
    <3>3. \A l \in Invite : ~Is(n, l, "keyed")
      BY <3>1 DEF AtFile, Is
    <3>4. QED
      BY <2>1, <2>3, <3>2, <3>3 DEF Alone
  <2>4. QED
    BY <2>2, <2>3
<1>3. QED
  BY <1>1, <1>2 DEF Inv

--------------------------------------------------------------------------------

LEMMA InitInv == Init => Inv
BY DEF Init, Inv, Shapes, Alone, AtFile, Is, Idle, NoTunnel

LEMMA Step == Inv /\ [Next]_vars => Inv'
<1> SUFFICES ASSUME Inv, [Next]_vars PROVE Inv'
  OBVIOUS
<1> USE DEF Is, AtFile, To, Ends, StartsRefresh, ghostVars, wgVars, natVars
<1>1. ASSUME NEW n \in Side, NEW k \in Invite, GenerateAccept(n, k) PROVE Inv'
  <2>1. Apart
    BY <1>1 DEF GenerateAccept, Inv, Shapes, Apart
  <2>2. QED
    BY <2>1, ApartKeeps
<1>2. ASSUME NEW n \in Side, NEW k \in Invite, NEW a \in 0 .. 2, FinishAccept(n, k, a) PROVE Inv'
  <2>1. Apart
    BY <1>2 DEF FinishAccept, Inv, Shapes, Apart, Idle
  <2>2. QED
    BY <2>1, ApartKeeps
<1>3. ASSUME NEW n \in Side, NEW k \in Invite, RedeemAccept(n, k) PROVE Inv'
  BY <1>3, StartsInv DEF RedeemAccept
<1>4. ASSUME NEW n \in Side, NEW k \in Invite, Punch(n, k) PROVE Inv'
  <2>1. CASE SetPeer(n, k)
    BY <2>1, SetPeerKeeps
  <2>2. CASE RemoveKey(n, k)
    BY <2>2, RemoveKeyKeeps
  <2>3. CASE Try(n, k)
    <3>1. Apart
      BY <2>3 DEF Try, Inv, Shapes, Apart
    <3>2. QED
      BY <3>1, ApartKeeps
  <2>4. CASE TriesOn(n, k)
    <3>1. Apart
      BY <2>4 DEF TriesOn, Inv, Shapes, Apart
    <3>2. QED
      BY <3>1, ApartKeeps
  <2>5. CASE Connected(n, k) \/ GivesUp(n, k)
    <3>1. PICK stage \in {"stored", "done", "relaying", "failed"} :
            task' = [task EXCEPT ![n][k] = [Idle EXCEPT !.stage = stage]]
      BY <2>5 DEF Connected, GivesUp
    <3>2. Apart
      BY <2>5, <3>1, EndsIsApart DEF Connected, GivesUp
    <3>3. QED
      BY <3>2, ApartKeeps
  <2>6. QED
    BY <1>4, <2>1, <2>2, <2>3, <2>4, <2>5 DEF Punch
<1>5. ASSUME NEW n \in Side, NEW k \in Invite, NEW info, NEW stage,
             task[n][k].stage \in {"relaying", "waiting", "gathering"},
             Tell(n, k, info), UNCHANGED <<wgVars>>
      PROVE Inv'
  <2>1. CASE n = Host[k]
    <3> DEFINE t == [Idle EXCEPT !.stage = "asked", !.ours = info.type]
    <3>1. task' = [task EXCEPT ![n][k] = t] /\ "stage" \in DOMAIN t /\ t.stage = "asked"
      BY <1>5, <2>1 DEF Tell, Idle
    <3> HIDE DEF t
    <3>2. Apart
      BY <1>5, <2>1, <3>1, MovedIsApart DEF Tell
    <3>3. QED
      BY <3>2, ApartKeeps
  <2>2. CASE n # Host[k]
    BY <1>5, <2>2, StartsInv DEF Tell
  <2>3. QED
    BY <2>1, <2>2
<1>6. ASSUME NEW n \in Side, NEW k \in Invite, Relayed(n, k) PROVE Inv'
  <2>1. CASE NoRelay(n, k)
    <3>1. PICK stage \in {"failed"} :
            task' = [task EXCEPT ![n][k] = [Idle EXCEPT !.stage = stage]]
      BY <2>1 DEF NoRelay
    <3>2. Apart
      BY <2>1, <3>1, EndsIsApart DEF NoRelay
    <3>3. QED
      BY <3>2, ApartKeeps
  <2>4. CASE Gather(n, k)
    <3>1. Apart
      BY <2>4 DEF Gather, Gathering, Inv, Shapes, Apart
    <3>2. QED
      BY <3>1, ApartKeeps
  <2>2. CASE GatheredCached(n, k)
    BY <1>5, <2>2 DEF GatheredCached, Gathering
  <2>3. CASE Exchanged(n, k)
    BY <2>3, StartsInv DEF Exchanged
  <2>5. QED
    BY <1>6, <2>1, <2>2, <2>3, <2>4 DEF Relayed
<1>7. ASSUME NEW n \in Side, NEW k \in Invite, NEW a \in 0 .. 2, Gathered(n, k, a) PROVE Inv'
  BY <1>5, <1>7 DEF Gathered
<1>8. ASSUME NEW n \in Side, Send(n) PROVE Inv'
  <2>1. /\ DOMAIN tunnel' = Side
        /\ \A m \in Side : "key" \in DOMAIN tunnel'[m] /\ tunnel'[m].key = tunnel[m].key
    <3>1. CASE tunnel' = tunnel
      BY <3>1 DEF Inv, Shapes
    <3>2. CASE tunnel' = [tunnel EXCEPT ![Peer(n)].endpoint = SeenAt(n, tunnel[n].endpoint)]
      BY <3>2 DEF Inv, Shapes
    <3>3. QED
      BY <1>8, <3>1, <3>2 DEF Send
  <2>3. Apart
    BY <1>8, <2>1 DEF Send, Inv, Shapes, Apart
  <2>2. QED
    BY <2>3, ApartKeeps
<1>9. CASE UNCHANGED vars
  <2>1. Apart
    BY <1>9 DEF vars, Inv, Shapes, Apart
  <2>2. QED
    BY <2>1, ApartKeeps
<1>10. QED
  BY <1>1, <1>2, <1>3, <1>4, <1>6, <1>7, <1>8, <1>9 DEF Next

\* WireGuard gets the key of the punch that was last at the key file, on every
\* node where no two punches met there (connectivity/punch.rs add_peer).
THEOREM KeysAreOwn == Spec => []KeyIsOwn
<1>1. Inv => KeyIsOwn
  BY DEF Inv, Alone, KeyIsOwn
<1>2. QED
  BY <1>1, InitInv, Step, PTL DEF Spec

--------------------------------------------------------------------------------
(* The port a predictable peer will be seen at is among the candidates.  First  *)
(* what is listed, and the order in which it is tried.                          *)

\* The last place.
Slots == 2 + 2 * Strides + 2 * Neighbours

\* A set of ports with places of their own.
Placed(set) ==
  /\ \A e \in set : e.place \in 1 .. Slots /\ e.port \in Int
  /\ \A e, f \in set : e.place = f.place => e = f

Legible(info) == info.port \in Int /\ info.wg \in Int /\ info.stride \in Int

By(info, i) == info.stride * i

LEMMA ListedIs ==
  ASSUME NEW info, NEW e \in Listed(info)
  PROVE  \/ e = At(1, info.port)
         \/ e = At(2, info.wg)
         \/ \E i \in 1 .. Strides : e = At(2 * i + 1, Up(info.port, By(info, i)))
         \/ \E i \in 1 .. Strides : e = At(2 * i + 2, Down(info.port, By(info, i)))
         \/ \E i \in 1 .. Neighbours : e = At(2 + 2 * Strides + 2 * i - 1, info.port + i)
         \/ \E i \in 1 .. Neighbours : e = At(2 + 2 * Strides + 2 * i, info.port - i)
<1> DEFINE base == info.port
           by(i) == info.stride * i
           last == 2 + 2 * Strides
           right == {At(2 * i + 1, Up(base, by(i))) : i \in 1 .. Strides}
           left == {At(2 * i + 2, Down(base, by(i))) : i \in 1 .. Strides}
           above == {At(last + 2 * i - 1, base + i) : i \in 1 .. Neighbours}
           below == {At(last + 2 * i, base - i) : i \in 1 .. Neighbours}
<1>1. Listed(info) = {At(1, base), At(2, info.wg)}
                       \cup (IF info.stride = 0 THEN {} ELSE right \cup left) \cup above \cup below
  BY DEF Listed
<1>2. e \in right => \E i \in 1 .. Strides : e = At(2 * i + 1, Up(info.port, By(info, i)))
  BY Zenon DEF By
<1>3. e \in left =>
        \E i \in 1 .. Strides : e = At(2 * i + 2, Down(info.port, By(info, i)))
  BY Zenon DEF By
<1>4. /\ e \in above =>
           \E i \in 1 .. Neighbours : e = At(2 + 2 * Strides + 2 * i - 1, info.port + i)
      /\ e \in below => \E i \in 1 .. Neighbours : e = At(2 + 2 * Strides + 2 * i, info.port - i)
  BY Zenon
<1>5. e \in {At(1, base), At(2, info.wg)} => e = At(1, info.port) \/ e = At(2, info.wg)
  OBVIOUS
<1> HIDE DEF right, left, above, below, base, by, last
<1>6. \/ e \in {At(1, base), At(2, info.wg)} \/ e \in right \/ e \in left
      \/ e \in above \/ e \in below
  BY <1>1
<1> QED
  BY <1>2, <1>3, <1>4, <1>5, <1>6

\* The i-th of each of the six sorts of ports that are listed.
Many(s) == IF s <= 2 THEN 1 ELSE IF s <= 4 THEN Strides ELSE Neighbours
Place(s, i) ==
  CASE s = 1 -> 1 [] s = 2 -> 2 [] s = 3 -> 2 * i + 1 [] s = 4 -> 2 * i + 2
    [] s = 5 -> 2 + 2 * Strides + 2 * i - 1 [] s = 6 -> 2 + 2 * Strides + 2 * i
Value(info, s, i) ==
  CASE s = 1 -> info.port [] s = 2 -> info.wg
    [] s = 3 -> Up(info.port, By(info, i)) [] s = 4 -> Down(info.port, By(info, i))
    [] s = 5 -> info.port + i [] s = 6 -> info.port - i

LEMMA ListedSort ==
  ASSUME NEW info, NEW e \in Listed(info)
  PROVE  \E s \in 1 .. 6 : \E i \in 1 .. Many(s) : e = At(Place(s, i), Value(info, s, i))
<1>1. CASE e = At(1, info.port)
  <2>1. Many(1) = 1 /\ Place(1, 1) = 1 /\ Value(info, 1, 1) = info.port
    BY DEF Many, Place, Value
  <2> QED
    BY <1>1, <2>1
<1>2. CASE e = At(2, info.wg)
  <2>1. Many(2) = 1 /\ Place(2, 1) = 2 /\ Value(info, 2, 1) = info.wg
    BY DEF Many, Place, Value
  <2> QED
    BY <1>2, <2>1
<1>3. ASSUME NEW i \in 1 .. Strides, e = At(2 * i + 1, Up(info.port, By(info, i)))
      PROVE  \E s \in 1 .. 6 : \E j \in 1 .. Many(s) : e = At(Place(s, j), Value(info, s, j))
  <2>1. Many(3) = Strides /\ Place(3, i) = 2 * i + 1 /\ Value(info, 3, i) = Up(info.port, By(info, i))
    BY DEF Many, Place, Value
  <2> QED
    BY <1>3, <2>1
<1>4. ASSUME NEW i \in 1 .. Strides, e = At(2 * i + 2, Down(info.port, By(info, i)))
      PROVE  \E s \in 1 .. 6 : \E j \in 1 .. Many(s) : e = At(Place(s, j), Value(info, s, j))
  <2>1. Many(4) = Strides /\ Place(4, i) = 2 * i + 2 /\ Value(info, 4, i) = Down(info.port, By(info, i))
    BY DEF Many, Place, Value
  <2> QED
    BY <1>4, <2>1
<1>5. ASSUME NEW i \in 1 .. Neighbours, e = At(2 + 2 * Strides + 2 * i - 1, info.port + i)
      PROVE  \E s \in 1 .. 6 : \E j \in 1 .. Many(s) : e = At(Place(s, j), Value(info, s, j))
  <2>1. /\ Many(5) = Neighbours /\ Place(5, i) = 2 + 2 * Strides + 2 * i - 1
        /\ Value(info, 5, i) = info.port + i
    BY DEF Many, Place, Value
  <2> QED
    BY <1>5, <2>1
<1>6. ASSUME NEW i \in 1 .. Neighbours, e = At(2 + 2 * Strides + 2 * i, info.port - i)
      PROVE  \E s \in 1 .. 6 : \E j \in 1 .. Many(s) : e = At(Place(s, j), Value(info, s, j))
  <2>1. /\ Many(6) = Neighbours /\ Place(6, i) = 2 + 2 * Strides + 2 * i
        /\ Value(info, 6, i) = info.port - i
    BY DEF Many, Place, Value
  <2> QED
    BY <1>6, <2>1
<1> QED
  BY <1>1, <1>2, <1>3, <1>4, <1>5, <1>6, ListedIs

LEMMA ListedPlaced == ASSUME NEW info, Legible(info) PROVE Placed(Listed(info))
<1>0. Strides \in Nat /\ Neighbours \in Nat
  BY PortAssumption
<1>1. ASSUME NEW s \in 1 .. 6, NEW i \in 1 .. Many(s)
      PROVE  Place(s, i) \in 1 .. Slots /\ Value(info, s, i) \in Int
  <2>1. /\ i \in Nat /\ By(info, i) \in Int
        /\ s \in {3, 4} => i \in 1 .. Strides
        /\ s \in {5, 6} => i \in 1 .. Neighbours
    BY <1>0 DEF By, Legible, Many
  <2>2. Up(info.port, By(info, i)) \in Int /\ Down(info.port, By(info, i)) \in Int
    BY <2>1 DEF Up, Down, ToI16, Abs, Legible
  <2>3. Place(s, i) \in 1 .. Slots
    BY <1>0, <2>1 DEF Place, Slots
  <2>4. Value(info, s, i) \in Int
    BY <2>1, <2>2 DEF Value, Legible
  <2> QED
    BY <2>3, <2>4
<1>2. ASSUME NEW s \in 1 .. 6, NEW i \in 1 .. Many(s), NEW t \in 1 .. 6, NEW j \in 1 .. Many(t),
             Place(s, i) = Place(t, j)
      PROVE  s = t /\ i = j
  <2>1. /\ i \in Nat /\ j \in Nat
        /\ s \in {1, 2} => i = 1
        /\ s \in {3, 4} => i \in 1 .. Strides
        /\ s \in {5, 6} => i \in 1 .. Neighbours
        /\ t \in {1, 2} => j = 1
        /\ t \in {3, 4} => j \in 1 .. Strides
        /\ t \in {5, 6} => j \in 1 .. Neighbours
    BY <1>0 DEF Many
  <2> QED
    BY <1>0, <1>2, <2>1 DEF Place
<1>3. \A k, p : At(k, p).place = k /\ At(k, p).port = p
  BY DEF At
<1>4. ASSUME NEW e \in Listed(info) PROVE e.place \in 1 .. Slots /\ e.port \in Int
  BY <1>1, <1>3, ListedSort
<1>5. ASSUME NEW e \in Listed(info), NEW f \in Listed(info), e.place = f.place PROVE e = f
  <2>1. PICK s \in 1 .. 6 : \E i \in 1 .. Many(s) : e = At(Place(s, i), Value(info, s, i))
    BY ListedSort
  <2>2. PICK i \in 1 .. Many(s) : e = At(Place(s, i), Value(info, s, i))
    BY <2>1
  <2>3. PICK t \in 1 .. 6 : \E j \in 1 .. Many(t) : f = At(Place(t, j), Value(info, t, j))
    BY ListedSort
  <2>4. PICK j \in 1 .. Many(t) : f = At(Place(t, j), Value(info, t, j))
    BY <2>3
  <2>5. Place(s, i) = Place(t, j)
    BY <1>3, <1>5, <2>2, <2>4
  <2> QED
    BY <1>2, <2>2, <2>4, <2>5
<1> QED
  BY <1>4, <1>5 DEF Placed

LEMMA PlacedFinite == ASSUME NEW set, Placed(set) PROVE IsFiniteSet(set)
<1> DEFINE f == [e \in set |-> e.place]
<1>1. f \in Injection(set, 1 .. Slots)
  BY DEF Placed, Injection, IsInjective
<1>2. IsFiniteSet(1 .. Slots)
  BY PortAssumption, FS_Interval DEF Slots
<1>3. QED
  BY <1>1, <1>2, FS_Injection

\* A set of numbers has a least one.
LEMMA LeastOf ==
  ASSUME NEW R, NEW T, T \subseteq Nat,
         \E x \in T : \A y \in T : ~(<<y, x>> \in R),
         \A y, z \in Nat : y < z => <<y, z>> \in R
  PROVE  \E x \in T : \A y \in T : x <= y
<1>1. PICK x \in T : \A y \in T : ~(<<y, x>> \in R)
  OBVIOUS
<1>2. ASSUME NEW y \in T PROVE x <= y
  <2>1. ~(y < x)
    BY <1>1
  <2>2. x \in Nat /\ y \in Nat
    OBVIOUS
  <2>3. QED
    BY <2>1, <2>2
<1>3. QED
  BY <1>2

LEMMA LeastPlace ==
  ASSUME NEW T, T \subseteq Nat, T # {}
  PROVE  \E x \in T : \A y \in T : x <= y
<1>1. \E x \in T : \A y \in T : ~ (<<y, x>> \in OpToRel(<, Nat))
  BY WFMin, NatLessThanWellFounded, Zenon
<1>2. \A x, y \in Nat : x < y => <<x, y>> \in OpToRel(<, Nat)
  BY Zenon DEF OpToRel
<1>3. QED
  BY <1>1, <1>2, LeastOf, Zenon

\* Of the entries of one port one is the first.
LEMMA FirstOf ==
  ASSUME NEW set, Placed(set), NEW p, \E e \in set : e.port = p
  PROVE  \E c \in set : c.port = p /\ \A f \in set : f.port = p => c.place <= f.place
<1> DEFINE places == {k \in Nat : \E f \in set : f.port = p /\ f.place = k}
<1>1. \A f \in set : f.place \in Nat
  BY PortAssumption DEF Placed, Slots
<1>2. places \subseteq Nat /\ places # {}
  BY <1>1
<1>3. \A f \in set : f.port = p => f.place \in places
  BY <1>1
<1>4. \A k \in places : \E f \in set : f.port = p /\ f.place = k
  OBVIOUS
<1> HIDE DEF places
<1>5. PICK k \in places : \A q \in places : k <= q
  BY <1>2, LeastPlace, Zenon
<1>7. QED
  BY <1>3, <1>4, <1>5

\* Every port that is listed, is not 0 and fits is a candidate.
LEMMA ListedIsCandidate ==
  ASSUME NEW info, Legible(info), NEW e \in Listed(info), e.port \in Usable
  PROVE  \E c \in Candidates(info) : c.port = e.port
<1>1. Placed(Listed(info))
  BY ListedPlaced, Zenon
<1>2. PICK c \in Listed(info) :
         /\ c.port = e.port
         /\ \A f \in Listed(info) : f.port = e.port => c.place <= f.place
  BY <1>1, FirstOf, Zenon
<1>3. c.port \in Usable /\ \A f \in Listed(info) : f.port = c.port => c.place <= f.place
  BY <1>2, Zenon
<1>4. c \in Candidates(info)
  BY <1>3, Zenon DEF Candidates, Once
<1> QED
  BY <1>2, <1>4, Zenon

\* As many go before an entry as the entry's turn is.
LEMMA BeforeIsTurn ==
  ASSUME NEW set, IsFiniteSet(set), Placed(set)
  PROVE  /\ \A e \in set : Before(set, e) \in 0 .. Cardinality(set) - 1
         /\ \A e, f \in set : Before(set, e) = Before(set, f) => e = f
<1> DEFINE ahead(e) == {f \in set : f.place < e.place}
<1>1. \A e \in set : e.place \in Int
  BY DEF Placed
<1>2. \A e \in set : ahead(e) \subseteq set /\ e \notin ahead(e)
  BY <1>1
<1>3. \A e, f \in set : e.place < f.place => ahead(e) \subseteq ahead(f) /\ e \in ahead(f)
  BY <1>1
<1>4. \A e : Before(set, e) = Cardinality(ahead(e))
  BY DEF Before
<1> HIDE DEF ahead
<1>5. \A e \in set : /\ IsFiniteSet(ahead(e)) /\ Cardinality(ahead(e)) \in Nat
                     /\ Cardinality(ahead(e)) < Cardinality(set) /\ Cardinality(set) \in Nat
  <2> SUFFICES ASSUME NEW e \in set
               PROVE  /\ IsFiniteSet(ahead(e)) /\ Cardinality(ahead(e)) \in Nat
                      /\ Cardinality(ahead(e)) < Cardinality(set) /\ Cardinality(set) \in Nat
    OBVIOUS
  <2>1. IsFiniteSet(ahead(e)) /\ Cardinality(ahead(e)) <= Cardinality(set)
        /\ (Cardinality(set) = Cardinality(ahead(e)) => set = ahead(e))
    BY <1>2, FS_Subset
  <2>2. Cardinality(ahead(e)) \in Nat /\ Cardinality(set) \in Nat
    BY <2>1, FS_CardinalityType
  <2> QED
    BY <1>2, <2>1, <2>2
<1>6. ASSUME NEW e \in set, NEW f \in set, e.place < f.place
      PROVE  Cardinality(ahead(e)) < Cardinality(ahead(f))
  <2>1. ahead(e) \subseteq ahead(f) /\ ahead(e) # ahead(f)
    BY <1>2, <1>3, <1>6
  <2>2. Cardinality(ahead(e)) <= Cardinality(ahead(f))
        /\ (Cardinality(ahead(f)) = Cardinality(ahead(e)) => ahead(f) = ahead(e))
    BY <1>5, <2>1, FS_Subset
  <2> QED
    BY <1>5, <2>1, <2>2
<1>7. ASSUME NEW e \in set, NEW f \in set, Cardinality(ahead(e)) = Cardinality(ahead(f))
      PROVE  e = f
  <2>1. ~(e.place < f.place) /\ ~(f.place < e.place)
    BY <1>5, <1>6, <1>7
  <2>2. e.place = f.place
    BY <1>1, <2>1
  <2> QED
    BY <2>2 DEF Placed
<1> QED
  BY <1>4, <1>5, <1>7

\* Every candidate gets its turn in as many tries as there are candidates (run_punch).
THEOREM EveryTurn ==
  ASSUME NEW info, Legible(info), NEW c \in Candidates(info)
  PROVE  \E at \in 0 .. Cardinality(Candidates(info)) - 1 :
            Turn(Candidates(info), at) = c.port
<1> DEFINE set == Candidates(info)
<1>1. set \subseteq Listed(info)
  BY DEF Candidates, Once
<1>2. Placed(set)
  BY <1>1, ListedPlaced DEF Placed
<1>3. IsFiniteSet(set) /\ Cardinality(set) \in Nat
  BY <1>2, PlacedFinite, FS_CardinalityType
<1>4. c \in set
  OBVIOUS
<1> HIDE DEF set
<1> DEFINE at == Before(set, c)
<1>5. at \in 0 .. Cardinality(set) - 1
  BY <1>2, <1>3, <1>4, BeforeIsTurn
<1>6. at % Cardinality(set) = at
  BY <1>3, <1>5
<1>7. \A e \in set : Before(set, e) = at % Cardinality(set) <=> e = c
  BY <1>2, <1>3, <1>4, <1>6, BeforeIsTurn
<1>8. Turn(set, at) = c.port
  BY <1>4, <1>7, Zenon DEF Turn
<1> QED
  BY <1>5, <1>8 DEF set

--------------------------------------------------------------------------------
(* Whatever is known of a symmetric NAT, read, sent or told, has its stride.    *)

\* What is known of a NAT, and what is told of it.
Words == {"none", "open", "cone", "symmetric", "unknown"}
Knowledge == [type : Words, port : Int, stride : Int]
Notes == [type : Words, port : Int, stride : Int, wg : {WgPort}]

\* A symmetric NAT is known by its own stride.
Honest(m, i) == i.type = "symmetric" =>
  nat[m].kind = "symmetric" /\ i.stride = nat[m].stride /\ i.stride # 0

TaskStages == {"idle", "accepting", "waiting", "keyed", "set", "unset", "trying", "checking",
               "stored", "done", "failed", "relaying", "asked", "gathering"}
TaskShape == [stage : TaskStages, read : Knowledge, ours : Words,
              config : [peer : Notes, initiate : BOOLEAN], at : Int, round : Int]
MailShape == [token : Notes, request : Notes, exchange : Notes]

\* What a task has read is of its own node, what it has been told of the other one;
\* the guest accepts and the host asks.
TaskTrue(n, k, t) ==
  /\ t \in TaskShape
  /\ Honest(n, t.read)
  /\ Honest(Peer(n), t.config.peer) /\ t.config.peer.port \in Port
  /\ t.stage = "accepting" => n # Host[k]
  /\ t.stage = "asked" => n = Host[k]
MailTrue(k, m) ==
  /\ m \in MailShape
  /\ Honest(Host[k], m.request)
  /\ Honest(Peer(Host[k]), m.token) /\ Honest(Peer(Host[k]), m.exchange)

ProfilesTrue == profile \in [Side -> Knowledge] /\ \A n \in Side : Honest(n, profile[n])
TasksTrue ==
  /\ task \in [Side -> [Invite -> TaskShape]]
  /\ \A n \in Side, k \in Invite : TaskTrue(n, k, task[n][k])
MailsTrue == mail \in [Invite -> MailShape] /\ \A k \in Invite : MailTrue(k, mail[k])

\* A NAT that keeps ports shows WireGuard's own.
OwnPort ==
  /\ DOMAIN mapped = Side
  /\ \A m \in Side : nat[m].kind # "symmetric" /\ nat[m].keeps =>
       \A d \in DOMAIN mapped[m] : mapped[m][d] = WgPort

GuessInv ==
  nat \in Nats /\ used \in [Side -> Int] /\ ProfilesTrue /\ TasksTrue /\ MailsTrue /\ OwnPort

LEMMA TwoSides ==
  /\ \A n \in Side : Peer(n) \in Side /\ Peer(n) # n /\ Peer(Peer(n)) = n
  /\ \A n, m \in Side : m # n => m = Peer(n)
<1>1. IsFiniteSet(Side) /\ Cardinality(Side) = 2
  BY PunchAssumption
<1>2. PICK x \in Side : TRUE
  BY <1>1, FS_EmptySet
<1>3. IsFiniteSet(Side \ {x}) /\ Cardinality(Side \ {x}) = 1
  BY <1>1, <1>2, FS_RemoveElement
<1>4. PICK y : Side \ {x} = {y}
  BY <1>3, FS_Singleton
<1>5. Side = {x, y} /\ x # y
  BY <1>2, <1>4
<1>6. Peer(x) = y /\ Peer(y) = x
  BY <1>5 DEF Peer
<1> QED
  BY <1>5, <1>6

LEMMA NatIs ==
  ASSUME nat \in Nats, NEW n \in Side
  PROVE  nat[n].base \in Int /\ nat[n].stride \in Int /\ nat[n].keeps \in BOOLEAN
<1>1. nat[n] \in NatShape
  BY PunchAssumption
<1>2. nat[n].base \in Port /\ nat[n].keeps \in BOOLEAN /\ nat[n].stride \in Stride
  BY <1>1, Zenon DEF NatShape
<1> QED
  BY <1>2 DEF Port, Stride

\* What STUN finds is of the NAT the node is behind.
LEMMA FoundTrue ==
  ASSUME nat \in Nats, NEW n \in Side, NEW u \in Int, NEW answers
  PROVE  Characterized(nat[n], u, answers) \in Knowledge
         /\ Honest(n, Characterized(nat[n], u, answers))
<1> DEFINE x == nat[n]
           here == Reflected(x, u, 0)
           next == Reflected(x, u, 1)
           found == Characterized(x, u, answers)
<1>1. x.base \in Int /\ x.stride \in Int /\ x.keeps \in BOOLEAN /\ OtherPort \in Int
  BY NatIs, PortAssumption DEF Usable, Port
<1>2. \/ found = Unknown \/ found = [type |-> "cone", port |-> here, stride |-> 0]
      \/ here # next /\ found = [type |-> "symmetric", port |-> here, stride |-> next - here]
  BY Zenon DEF Characterized, Classified
<1>3. here \in Int /\ (here # next =>
         x.kind = "symmetric" /\ next - here = x.stride /\ x.stride # 0)
  <2>1. CASE x.kind = "symmetric"
    <3>1. here = x.base + x.stride * u /\ next = x.base + x.stride * (u + 1)
      BY <1>1, <2>1 DEF Reflected, NextPort
    <3>2. x.stride * (u + 1) = x.stride * u + x.stride /\ x.stride * u \in Int
      BY <1>1
    <3> HIDE DEF here, next
    <3> QED
      BY <1>1, <2>1, <3>1, <3>2
  <2>2. CASE x.kind # "symmetric"
    <3>1. here = Outside(x, OtherPort) /\ next = here
      BY <2>2 DEF Reflected
    <3>2. here \in Int
      BY <1>1, <3>1 DEF Outside
    <3> QED
      BY <3>1, <3>2
  <2> QED
    BY <2>1, <2>2
<1> HIDE DEF here, next, found
<1>4. CASE found = Unknown
  BY <1>4 DEF Unknown, Words, Knowledge, Honest, found
<1>5. CASE found = [type |-> "cone", port |-> here, stride |-> 0]
  BY <1>3, <1>5 DEF Words, Knowledge, Honest, found
<1>6. CASE here # next /\ found = [type |-> "symmetric", port |-> here, stride |-> next - here]
  BY <1>1, <1>3, <1>6 DEF Words, Knowledge, Honest, found, x
<1> QED
  BY <1>2, <1>4, <1>5, <1>6

LEMMA FreshTrue ==
  ASSUME GuessInv, NEW n \in Side, NEW k \in Invite, NEW answers
  PROVE  Fresh(n, k, answers) \in Knowledge /\ Honest(n, Fresh(n, k, answers))
<1>1. task[n][k].read \in Knowledge /\ Honest(n, task[n][k].read)
  BY DEF GuessInv, TasksTrue, TaskTrue, TaskShape
<1>2. /\ Characterized(nat[n], used[n], answers) \in Knowledge
      /\ Honest(n, Characterized(nat[n], used[n], answers))
  BY FoundTrue DEF GuessInv
<1> QED
  BY <1>1, <1>2, Zenon DEF Fresh, Refreshed

\* What a node sends of what it knows is as true, and so is what is read of it.
LEMMA InfoTrue ==
  ASSUME NEW n, NEW p \in Knowledge, Honest(n, p)
  PROVE  Info(p) \in Notes /\ Honest(n, Info(p))
BY DEF Info, Knowledge, Notes, Honest

LEMMA TypeIs ==
  ASSUME NEW word \in Words
  PROVE  NatType(word) \in Words /\ (NatType(word) = "symmetric" => word = "symmetric")
BY DEF NatType, Words

LEMMA ReceivedTrue ==
  ASSUME NEW n, NEW i \in Notes, Honest(n, i)
  PROVE  Received(i) \in Notes /\ Honest(n, Received(i)) /\ Received(i).port \in Port
<1>1. WgPort \in Nat /\ WgPort < 65536
  BY PortAssumption DEF Usable, Port
<1>2. WgPort % 65536 = WgPort
  BY <1>1
<1>3. i.port % 65536 \in Port /\ i.port % 65536 \in Int
  BY DEF Notes, Port
<1>4. /\ Received(i).type = NatType(i.type) /\ Received(i).port = i.port % 65536
      /\ Received(i).stride = i.stride /\ Received(i).wg = WgPort
      /\ Received(i) = [type |-> NatType(i.type), port |-> i.port % 65536,
                        stride |-> i.stride, wg |-> WgPort]
  BY <1>2 DEF Received, Notes
<1>5. NatType(i.type) \in Words /\ (NatType(i.type) = "symmetric" => i.type = "symmetric")
  BY TypeIs DEF Notes
<1> QED
  BY <1>3, <1>4, <1>5 DEF Notes, Honest

LEMMA DecodedTrue ==
  ASSUME NEW n, NEW i \in Notes, Honest(n, i), Decodes(i)
  PROVE  Decoded(i) \in Notes /\ Honest(n, Decoded(i)) /\ Decoded(i).port \in Port
<1>1. /\ Decoded(i).type = NatType(i.type) /\ Decoded(i).port = i.port
      /\ Decoded(i).stride = i.stride
      /\ Decoded(i) = [type |-> NatType(i.type), port |-> i.port,
                       stride |-> i.stride, wg |-> i.wg]
  BY DEF Decoded, Notes
<1>2. NatType(i.type) \in Words /\ (NatType(i.type) = "symmetric" => i.type = "symmetric")
  BY TypeIs DEF Notes
<1>3. i.port \in Port
  BY DEF Decodes
<1> QED
  BY <1>1, <1>2, <1>3 DEF Notes, Honest

--------------------------------------------------------------------------------
\* A task's stage changes, or the task ends.
LEMMA TaskPut ==
  ASSUME TasksTrue, nat' = nat, NEW n \in Side, NEW k \in Invite, NEW t, TaskTrue(n, k, t),
         task' = [task EXCEPT ![n][k] = t]
  PROVE  TasksTrue'
<1>1. t \in TaskShape
  BY DEF TaskTrue
<1>2. task' \in [Side -> [Invite -> TaskShape]]
  BY <1>1 DEF TasksTrue
<1>3. ASSUME NEW m \in Side, NEW l \in Invite PROVE TaskTrue(m, l, task'[m][l])
  BY DEF TasksTrue
<1>4. ASSUME NEW m \in Side, NEW l \in Invite PROVE TaskTrue(m, l, task[m][l])'
  BY <1>3, <1>4 DEF TaskTrue, Honest
<1> QED
  BY <1>2, <1>4 DEF TasksTrue

\* Whatever does not change stays true, as no NAT changes.
LEMMA StaysTrue ==
  ASSUME GuessInv, nat' = nat
  PROVE  /\ nat' \in Nats
         /\ used' = used => used' \in [Side -> Int]
         /\ profile' = profile => ProfilesTrue'
         /\ task' = task => TasksTrue'
         /\ mail' = mail => MailsTrue'
         /\ mapped' = mapped => OwnPort'
<1>1. profile' = profile => ProfilesTrue'
  BY DEF GuessInv, ProfilesTrue, Honest
<1>2. task' = task => TasksTrue'
  BY DEF GuessInv, TasksTrue, TaskTrue, Honest
<1>3. mail' = mail => MailsTrue'
  BY DEF GuessInv, MailsTrue, MailTrue, Honest
<1>4. mapped' = mapped => OwnPort'
  BY DEF GuessInv, OwnPort
<1> QED
  BY <1>1, <1>2, <1>3, <1>4 DEF GuessInv

LEMMA MailPut ==
  ASSUME MailsTrue, nat' = nat, NEW k \in Invite, NEW m, MailTrue(k, m),
         mail' = [mail EXCEPT ![k] = m]
  PROVE  MailsTrue'
<1>1. m \in MailShape
  BY DEF MailTrue
<1>2. mail' \in [Invite -> MailShape]
  BY <1>1 DEF MailsTrue
<1>3. ASSUME NEW l \in Invite PROVE MailTrue(l, mail'[l])
  BY DEF MailsTrue
<1>4. ASSUME NEW l \in Invite PROVE MailTrue(l, mail[l])'
  BY <1>3, <1>4 DEF MailTrue, Honest
<1> QED
  BY <1>2, <1>4 DEF MailsTrue

LEMMA ToTrue ==
  ASSUME TasksTrue, nat' = nat, NEW n \in Side, NEW k \in Invite,
         NEW stage \in TaskStages \ {"accepting", "asked"}, To(n, k, stage)
  PROVE  TasksTrue'
<1> DEFINE t == [task[n][k] EXCEPT !.stage = stage]
<1>1. TaskTrue(n, k, task[n][k]) /\ task \in [Side -> [Invite -> TaskShape]]
  BY DEF TasksTrue
<1>2. /\ t \in TaskShape /\ t.stage = stage /\ t.read = task[n][k].read
      /\ t.config = task[n][k].config
  BY <1>1 DEF TaskShape
<1>3. TaskTrue(n, k, t)
  BY <1>1, <1>2 DEF TaskTrue
<1>4. task' = [task EXCEPT ![n][k] = t]
  BY DEF To
<1> HIDE DEF t
<1> QED
  BY <1>3, <1>4, TaskPut

LEMMA IdleTrue ==
  ASSUME NEW n \in Side, NEW k \in Invite, NEW stage \in TaskStages \ {"accepting", "asked"}
  PROVE  TaskTrue(n, k, [Idle EXCEPT !.stage = stage])
<1>1. None \in Knowledge /\ ~(None.type = "symmetric")
  BY DEF None, Knowledge, Words
<1>2. NoConfig.peer \in Notes /\ NoConfig.peer.type = "none" /\ NoConfig.peer.port = 0
      /\ NoConfig.initiate \in BOOLEAN /\ NoConfig = [peer |-> NoConfig.peer, initiate |-> NoConfig.initiate]
  BY DEF NoConfig, PunchConfig, NoInfo, Info, None, Notes, Words, Initiates
<1>3. 0 \in Port
  BY DEF Port
<1> DEFINE t == [Idle EXCEPT !.stage = stage]
<1>4. t = [stage |-> stage, read |-> None, ours |-> "none", config |-> NoConfig, at |-> 0, round |-> 1]
  BY DEF Idle
<1>5. t \in TaskShape
  BY <1>1, <1>2, <1>4 DEF TaskShape, Words
<1>6. t.read = None /\ t.config = NoConfig /\ t.stage = stage
  BY <1>4
<1> HIDE DEF t
<1>7. TaskTrue(n, k, t)
  BY <1>1, <1>2, <1>3, <1>5, <1>6 DEF TaskTrue, Honest
<1> QED
  BY <1>7 DEF t

LEMMA EndsTrue ==
  ASSUME TasksTrue, nat' = nat, NEW n \in Side, NEW k \in Invite,
         NEW stage \in TaskStages \ {"accepting", "asked"}, Ends(n, k, stage)
  PROVE  TasksTrue'
BY IdleTrue, TaskPut DEF Ends

LEMMA StartsRefreshTrue ==
  ASSUME GuessInv, nat' = nat, NEW n \in Side, NEW k \in Invite, NEW stage \in TaskStages,
         stage = "accepting" => n # Host[k], stage # "asked", StartsRefresh(n, k, stage)
  PROVE  TasksTrue'
<1> DEFINE s == [task[n][k] EXCEPT !.stage = stage]
           t == [s EXCEPT !.read = profile[n]]
<1>1. TaskTrue(n, k, task[n][k]) /\ task \in [Side -> [Invite -> TaskShape]]
  BY DEF GuessInv, TasksTrue
<1>2. profile[n] \in Knowledge /\ Honest(n, profile[n])
  BY DEF GuessInv, ProfilesTrue
<1>3. /\ s \in TaskShape /\ s.stage = stage /\ s.config = task[n][k].config
  BY <1>1, <1>2 DEF TaskShape
<1>6. t = [task[n][k] EXCEPT !.stage = stage, !.read = profile[n]]
  OBVIOUS
<1> HIDE DEF s
<1>7. /\ t \in TaskShape /\ t.stage = stage /\ t.read = profile[n]
      /\ t.config = task[n][k].config
  BY <1>2, <1>3 DEF TaskShape
<1>4. TaskTrue(n, k, t)
  BY <1>1, <1>2, <1>7 DEF TaskTrue
<1>5. task' = [task EXCEPT ![n][k] = t]
  BY <1>1, <1>6 DEF StartsRefresh, TaskShape
<1> HIDE DEF t
<1> QED
  BY <1>4, <1>5, TaskPut DEF GuessInv

\* A punch is given what it has been told of the peer.
LEMMA StartsTrue ==
  ASSUME GuessInv, nat' = nat, NEW n \in Side, NEW k \in Invite, NEW ours,
         NEW info \in Notes, Honest(Peer(n), info), info.port \in Port,
         NEW round \in Int, Starts(n, k, ours, info, round)
  PROVE  TasksTrue'
<1> DEFINE config == PunchConfig(ours, info)
           s == [Idle EXCEPT !.stage = "keyed"]
           u == [s EXCEPT !.round = round]
           t == [u EXCEPT !.config = config]
<1>1. config.peer = info /\ config \in [peer : Notes, initiate : BOOLEAN]
  BY DEF PunchConfig, Initiates
<1>2. TaskTrue(n, k, s)
  BY IdleTrue DEF TaskStages
<1>3. t = [Idle EXCEPT !.stage = "keyed", !.round = round, !.config = config]
  OBVIOUS
<1>8. s.stage = "keyed"
  BY DEF Idle
<1> HIDE DEF s
<1>4. u \in TaskShape /\ u.stage = "keyed" /\ u.read = s.read
  BY <1>2, <1>8 DEF TaskTrue, TaskShape
<1> HIDE DEF config, u
<1>5. t \in TaskShape /\ t.stage = "keyed" /\ t.read = s.read /\ t.config = config
  BY <1>1, <1>4 DEF TaskShape
<1>6. task' = [task EXCEPT ![n][k] = t]
  BY <1>3 DEF Starts, config
<1> HIDE DEF t
<1>7. TaskTrue(n, k, t)
  BY <1>1, <1>2, <1>5 DEF TaskTrue
<1> QED
  BY <1>6, <1>7, TaskPut DEF GuessInv

LEMMA RefreshTrue ==
  ASSUME GuessInv, NEW n \in Side, NEW k \in Invite, NEW answers \in 0 .. 2,
         Refresh(n, k, answers)
  PROVE  nat' = nat /\ used' \in [Side -> Int] /\ ProfilesTrue'
<1> DEFINE found == Characterized(nat[n], used[n], answers)
           next == Saved(profile[n], task[n][k].read, found)
<1>1. nat' = nat
  BY DEF Refresh
<1>2. used' \in [Side -> Int]
  BY DEF Refresh, Given, GuessInv
<1>3. found \in Knowledge /\ Honest(n, found)
  BY FoundTrue DEF GuessInv
<1>4. profile[n] \in Knowledge /\ Honest(n, profile[n]) /\ profile \in [Side -> Knowledge]
  BY DEF GuessInv, ProfilesTrue
<1>5. profile' = [profile EXCEPT ![n] = next]
  BY DEF Refresh
<1> HIDE DEF found
<1>6. next \in Knowledge /\ Honest(n, next)
  BY <1>3, <1>4, Zenon DEF Saved
<1> HIDE DEF next
<1>7. profile' \in [Side -> Knowledge]
  BY <1>4, <1>5, <1>6
<1>8. ASSUME NEW m \in Side PROVE Honest(m, profile'[m])
  BY <1>4, <1>5, <1>6 DEF GuessInv, ProfilesTrue
<1>9. ASSUME NEW m \in Side PROVE Honest(m, profile[m])'
  BY <1>1, <1>8, <1>9 DEF Honest
<1> QED
  BY <1>1, <1>2, <1>7, <1>9 DEF ProfilesTrue

LEMMA MailIs ==
  ASSUME GuessInv, NEW k \in Invite
  PROVE  /\ MailTrue(k, mail[k]) /\ mail \in [Invite -> MailShape]
         /\ mail[k].token \in Notes /\ Honest(Peer(Host[k]), mail[k].token)
         /\ mail[k].request \in Notes /\ Honest(Host[k], mail[k].request)
         /\ mail[k].exchange \in Notes /\ Honest(Peer(Host[k]), mail[k].exchange)
         /\ Host[k] \in Side
  BY PunchAssumption DEF GuessInv, MailsTrue, MailTrue, MailShape

LEMMA NothingTrue == ASSUME NEW n PROVE NoInfo \in Notes /\ Honest(n, NoInfo)
  BY DEF NoInfo, Info, None, Notes, Words, Honest

\* What is told is told of the node that tells it.
LEMMA TellTrue ==
  ASSUME GuessInv, nat' = nat, NEW n \in Side, NEW k \in Invite, NEW info \in Notes,
         Honest(n, info), Tell(n, k, info)
  PROVE  TasksTrue' /\ MailsTrue'
<1>1. Host[k] \in Side /\ MailTrue(k, mail[k]) /\ mail \in [Invite -> MailShape]
  BY MailIs
<1>2. CASE n = Host[k]
  <2> DEFINE t == [Idle EXCEPT !.stage = "asked", !.ours = info.type]
             m == [mail[k] EXCEPT !.request = info]
             s == [Idle EXCEPT !.stage = "idle"]
  <2>1. mail' = [mail EXCEPT ![k] = m] /\ task' = [task EXCEPT ![n][k] = t]
    BY <1>1, <1>2 DEF Tell
  <2>2. MailTrue(k, m)
    <3>1. /\ m \in MailShape /\ m.request = info /\ m.token = mail[k].token
          /\ m.exchange = mail[k].exchange
      BY <1>1 DEF MailShape
    <3> QED
      BY <1>1, <1>2, <3>1 DEF MailTrue
  <2>3. TaskTrue(n, k, t)
    <3>1. TaskTrue(n, k, s)
      BY IdleTrue DEF TaskStages
    <3>2. /\ s \in TaskShape /\ t = [s EXCEPT !.stage = "asked", !.ours = info.type]
      BY <3>1 DEF TaskTrue, Idle
    <3>3. t \in TaskShape /\ t.read = s.read /\ t.config = s.config /\ t.stage = "asked"
      BY <3>2 DEF TaskShape, TaskStages, Notes
    <3> QED
      BY <1>2, <3>1, <3>3 DEF TaskTrue
  <2> HIDE DEF t, m, s
  <2> QED
    BY <2>1, <2>2, <2>3, MailPut, TaskPut DEF GuessInv
<1>3. CASE n # Host[k]
  <2> DEFINE m == [mail[k] EXCEPT !.exchange = info, !.request = NoInfo]
  <2>1. /\ mail' = [mail EXCEPT ![k] = m]
        /\ Starts(n, k, info.type, Received(mail[k].request), 2)
    BY <1>1, <1>3 DEF Tell, MailShape
  <2>2. n = Peer(Host[k]) /\ Peer(n) = Host[k]
    BY <1>1, <1>3, TwoSides
  <2>3. MailTrue(k, m)
    <3>1. /\ m \in MailShape /\ m.exchange = info /\ m.token = mail[k].token
          /\ m.request = NoInfo
      BY <1>1, NothingTrue DEF MailShape
    <3> QED
      BY <1>1, <2>2, <3>1, NothingTrue DEF MailTrue
  <2>4. /\ Received(mail[k].request) \in Notes /\ Honest(Peer(n), Received(mail[k].request))
        /\ Received(mail[k].request).port \in Port
    BY <2>2, MailIs, ReceivedTrue
  <2> HIDE DEF m
  <2>5. TasksTrue'
    BY <2>1, <2>4, StartsTrue
  <2> QED
    BY <2>1, <2>3, <2>5, MailPut DEF GuessInv
<1> QED
  BY <1>2, <1>3

--------------------------------------------------------------------------------
\* A port that WireGuard is seen at is its own when the NAT keeps ports.
LEMMA LearnsOwn ==
  ASSUME OwnPort, NEW n \in Side, NEW d, nat[n].kind # "symmetric", nat[n].keeps
  PROVE  \A p \in DOMAIN Learns(n, d) : Learns(n, d)[p] = WgPort
<1>1. SeenAt(n, d) = WgPort
  BY DEF SeenAt, OwnPort, Outside
<1> QED
  BY <1>1 DEF Learns, OwnPort

LEMMA SendTrue ==
  ASSUME GuessInv, NEW n \in Side, Send(n)
  PROVE  GuessInv'
<1> DEFINE d == tunnel[n].endpoint
           m == Peer(n)
<1>1. UNCHANGED <<nat, profile, mail, task>>
  BY DEF Send
<1>2. used' \in [Side -> Int]
  BY DEF Send, Given, GuessInv
<1>3. m \in Side /\ OwnPort
  BY TwoSides DEF GuessInv
<1>4. \/ mapped' = [mapped EXCEPT ![n] = Learns(n, d), ![m] = Learns(m, SeenAt(n, d))]
      \/ mapped' = [mapped EXCEPT ![n] = Learns(n, d)]
  BY DEF Send
<1> HIDE DEF d, m
<1>5. DOMAIN mapped' = Side
  BY <1>3, <1>4 DEF OwnPort
<1>6. ASSUME NEW p \in Side, nat[p].kind # "symmetric", nat[p].keeps
      PROVE  \A e \in DOMAIN mapped'[p] : mapped'[p][e] = WgPort
  <2>1. mapped'[p] = mapped[p] \/ \E e : mapped'[p] = Learns(p, e)
    BY <1>3, <1>4 DEF OwnPort
  <2> QED
    BY <1>3, <1>6, <2>1, LearnsOwn DEF OwnPort
<1>7. OwnPort'
  BY <1>1, <1>5, <1>6 DEF OwnPort
<1> QED
  BY <1>1, <1>2, <1>7, StaysTrue DEF GuessInv

LEMMA TryTrue ==
  ASSUME GuessInv, NEW n \in Side, NEW k \in Invite, Try(n, k)
  PROVE  nat' = nat /\ TasksTrue'
<1> DEFINE s == [task[n][k] EXCEPT !.stage = "checking"]
           t == [s EXCEPT !.at = @ + 1]
<1>1. TaskTrue(n, k, task[n][k]) /\ task \in [Side -> [Invite -> TaskShape]] /\ nat' = nat
  BY DEF GuessInv, TasksTrue, Try, natVars
<1>2. t = [task[n][k] EXCEPT !.stage = "checking", !.at = @ + 1]
  OBVIOUS
<1>3. /\ s \in TaskShape /\ s.stage = "checking" /\ s.config = task[n][k].config
      /\ s.read = task[n][k].read
  BY <1>1 DEF TaskTrue, TaskShape, TaskStages
<1>4. task' = [task EXCEPT ![n][k] = t]
  BY <1>1, <1>2 DEF Try, TaskShape
<1> HIDE DEF s
<1>5. t \in TaskShape /\ t.stage = "checking" /\ t.config = s.config /\ t.read = s.read
  BY <1>3 DEF TaskShape
<1> HIDE DEF t
<1>6. TaskTrue(n, k, t)
  BY <1>1, <1>3, <1>5 DEF TaskTrue
<1> QED
  BY <1>1, <1>4, <1>6, TaskPut DEF GuessInv

\* A step that leaves what is known and told alone, and the ports of WireGuard.
Quietly == UNCHANGED <<natVars, mail, mapped>>

LEMMA QuietTrue == ASSUME GuessInv, Quietly, TasksTrue' PROVE GuessInv'
  BY StaysTrue DEF Quietly, natVars, GuessInv

LEMMA PunchTrue ==
  ASSUME GuessInv, NEW n \in Side, NEW k \in Invite, Punch(n, k)
  PROVE  GuessInv'
<1>1. TasksTrue
  BY DEF GuessInv
<1>2. CASE SetPeer(n, k)
  <2>1. To(n, k, "unset") \/ To(n, k, "set")
    BY <1>2 DEF SetPeer
  <2>2. Quietly
    BY <1>2 DEF SetPeer, Quietly
  <2> QED
    BY <1>1, <2>1, <2>2, ToTrue, QuietTrue DEF TaskStages, Quietly, natVars
<1>3. CASE RemoveKey(n, k)
  <2>1. To(n, k, "trying") \/ Ends(n, k, "failed")
    BY <1>3 DEF RemoveKey
  <2>2. Quietly
    BY <1>3 DEF RemoveKey, Quietly, wgVars
  <2> QED
    BY <1>1, <2>1, <2>2, ToTrue, EndsTrue, QuietTrue DEF TaskStages, Quietly, natVars
<1>4. CASE Try(n, k)
  <2>1. Quietly
    BY <1>4 DEF Try, Quietly
  <2> QED
    BY <1>4, <2>1, TryTrue, QuietTrue
<1>5. CASE Connected(n, k)
  <2>1. Ends(n, k, "stored") \/ Ends(n, k, "done")
    BY <1>5 DEF Connected
  <2>2. Quietly
    BY <1>5 DEF Connected, Quietly, wgVars
  <2> QED
    BY <1>1, <2>1, <2>2, EndsTrue, QuietTrue DEF TaskStages, Quietly, natVars
<1>6. CASE TriesOn(n, k)
  <2>1. To(n, k, "trying") /\ Quietly
    BY <1>6 DEF TriesOn, Quietly, wgVars
  <2> QED
    BY <1>1, <2>1, ToTrue, QuietTrue DEF TaskStages, Quietly, natVars
<1>7. CASE GivesUp(n, k)
  <2>1. Ends(n, k, "relaying") \/ Ends(n, k, "failed")
    BY <1>7 DEF GivesUp
  <2>2. Quietly
    BY <1>7 DEF GivesUp, Quietly, wgVars
  <2> QED
    BY <1>1, <2>1, <2>2, EndsTrue, QuietTrue DEF TaskStages, Quietly, natVars
<1> QED
  BY <1>2, <1>3, <1>4, <1>5, <1>6, <1>7 DEF Punch

LEMMA RelayedTrue ==
  ASSUME GuessInv, NEW n \in Side, NEW k \in Invite, Relayed(n, k)
  PROVE  GuessInv'
<1>1. TasksTrue
  BY DEF GuessInv
<1>2. CASE NoRelay(n, k)
  <2>1. Ends(n, k, "failed") /\ Quietly
    BY <1>2 DEF NoRelay, Quietly, wgVars
  <2> QED
    BY <1>1, <2>1, EndsTrue, QuietTrue DEF TaskStages, Quietly, natVars
<1>3. CASE Gather(n, k)
  <2>1. StartsRefresh(n, k, "gathering") /\ Quietly
    BY <1>3 DEF Gather, Quietly, wgVars
  <2> QED
    BY <2>1, StartsRefreshTrue, QuietTrue DEF TaskStages, Quietly, natVars
<1>4. CASE GatheredCached(n, k)
  <2>1. Tell(n, k, Info(profile[n])) /\ UNCHANGED <<nat, used, profile, mapped>>
    BY <1>4 DEF GatheredCached, natVars, wgVars
  <2>2. profile[n] \in Knowledge /\ Honest(n, profile[n])
    BY DEF GuessInv, ProfilesTrue
  <2>3. TasksTrue' /\ MailsTrue'
    BY <2>1, <2>2, InfoTrue, TellTrue
  <2> QED
    BY <2>1, <2>3, StaysTrue DEF GuessInv
<1>5. CASE Exchanged(n, k)
  <2> DEFINE info == Received(mail[k].exchange)
             m == [mail[k] EXCEPT !.exchange = NoInfo]
  <2>1. /\ n = Host[k] /\ Starts(n, k, task[n][k].ours, info, 2)
        /\ UNCHANGED <<nat, used, profile, mapped>>
    BY <1>1, <1>5 DEF Exchanged, Is, TasksTrue, TaskTrue, natVars, wgVars
  <2>2. info \in Notes /\ Honest(Peer(n), info) /\ info.port \in Port
    BY <2>1, MailIs, ReceivedTrue
  <2>3. mail' = [mail EXCEPT ![k] = m]
    BY <1>5, MailIs DEF Exchanged, MailShape
  <2>4. MailTrue(k, m)
    <3>1. MailTrue(k, mail[k])
      BY MailIs
    <3>2. /\ m \in MailShape /\ m.exchange = NoInfo /\ m.token = mail[k].token
          /\ m.request = mail[k].request
      BY <3>1, NothingTrue DEF MailTrue, MailShape
    <3> QED
      BY <3>1, <3>2, NothingTrue DEF MailTrue
  <2> HIDE DEF info, m
  <2>5. TasksTrue'
    BY <2>1, <2>2, StartsTrue
  <2>6. MailsTrue'
    BY <2>1, <2>3, <2>4, MailPut DEF GuessInv
  <2> QED
    BY <2>1, <2>5, <2>6, StaysTrue DEF GuessInv
<1> QED
  BY <1>2, <1>3, <1>4, <1>5 DEF Relayed

LEMMA RedeemTrue ==
  ASSUME GuessInv, NEW n \in Side, NEW k \in Invite, RedeemAccept(n, k)
  PROVE  GuessInv'
<1> DEFINE info == Decoded(mail[k].token)
           m == [mail[k] EXCEPT !.token = NoInfo]
<1>1. /\ n = Host[k] /\ Starts(n, k, profile[n].type, info, 1) /\ Decodes(mail[k].token)
      /\ UNCHANGED <<nat, used, profile, mapped>>
  BY DEF RedeemAccept, natVars, wgVars
<1>2. info \in Notes /\ Honest(Peer(n), info) /\ info.port \in Port
  BY <1>1, MailIs, DecodedTrue
<1>3. mail' = [mail EXCEPT ![k] = m]
  BY MailIs DEF RedeemAccept, MailShape
<1>4. MailTrue(k, m)
  <2>1. MailTrue(k, mail[k])
    BY MailIs
  <2>2. /\ m \in MailShape /\ m.token = NoInfo /\ m.exchange = mail[k].exchange
        /\ m.request = mail[k].request
    BY <2>1, NothingTrue DEF MailTrue, MailShape
  <2> QED
    BY <2>1, <2>2, NothingTrue DEF MailTrue
<1> HIDE DEF info, m
<1>5. TasksTrue'
  BY <1>1, <1>2, StartsTrue
<1>6. MailsTrue'
  BY <1>1, <1>3, <1>4, MailPut DEF GuessInv
<1> QED
  BY <1>1, <1>5, <1>6, StaysTrue DEF GuessInv

LEMMA AcceptTrue ==
  ASSUME GuessInv, NEW n \in Side, NEW k \in Invite, NEW answers \in 0 .. 2,
         FinishAccept(n, k, answers)
  PROVE  GuessInv'
<1> DEFINE info == Info(Fresh(n, k, answers))
           m == [mail[k] EXCEPT !.token = info]
<1>1. /\ nat' = nat /\ used' \in [Side -> Int] /\ ProfilesTrue'
      /\ Ends(n, k, "waiting") /\ mapped' = mapped
  BY RefreshTrue DEF FinishAccept, wgVars
<1>2. n = Peer(Host[k])
  BY MailIs, TwoSides DEF FinishAccept, Is, GuessInv, TasksTrue, TaskTrue
<1>3. info \in Notes /\ Honest(n, info)
  BY FreshTrue, InfoTrue
<1>4. mail' = [mail EXCEPT ![k] = m]
  BY MailIs DEF FinishAccept, MailShape
<1> HIDE DEF info
<1>5. MailTrue(k, m)
  <2>1. MailTrue(k, mail[k])
    BY MailIs
  <2>2. /\ m \in MailShape /\ m.token = info /\ m.exchange = mail[k].exchange
        /\ m.request = mail[k].request
    BY <1>3, <2>1 DEF MailTrue, MailShape
  <2> QED
    BY <1>2, <1>3, <2>1, <2>2 DEF MailTrue
<1> HIDE DEF m
<1>6. TasksTrue' /\ MailsTrue'
  BY <1>1, <1>4, <1>5, EndsTrue, MailPut DEF GuessInv, TaskStages
<1> QED
  BY <1>1, <1>6, StaysTrue DEF GuessInv

LEMMA GatheredTrue ==
  ASSUME GuessInv, NEW n \in Side, NEW k \in Invite, NEW answers \in 0 .. 2,
         Gathered(n, k, answers)
  PROVE  GuessInv'
<1>1. /\ nat' = nat /\ used' \in [Side -> Int] /\ ProfilesTrue' /\ mapped' = mapped
      /\ Tell(n, k, Info(Fresh(n, k, answers)))
  BY RefreshTrue DEF Gathered, wgVars
<1>2. Info(Fresh(n, k, answers)) \in Notes /\ Honest(n, Info(Fresh(n, k, answers)))
  BY FreshTrue, InfoTrue
<1>3. TasksTrue' /\ MailsTrue'
  BY <1>1, <1>2, TellTrue
<1> QED
  BY <1>1, <1>3, StaysTrue DEF GuessInv

LEMMA GuessInit == Init => GuessInv
<1> SUFFICES ASSUME Init PROVE GuessInv
  OBVIOUS
<1>1. nat \in Nats /\ used \in [Side -> Int] /\ OwnPort
  BY DEF Init, OwnPort
<1>2. None \in Knowledge /\ ~(None.type = "symmetric")
  BY DEF None, Knowledge, Words
<1>3. ProfilesTrue
  BY <1>2 DEF Init, ProfilesTrue, Honest
<1>4. MailsTrue
  <2>1. \A k \in Invite : mail[k] = [token |-> NoInfo, request |-> NoInfo, exchange |-> NoInfo]
    BY DEF Init
  <2>2. mail \in [Invite -> MailShape]
    BY NothingTrue DEF Init, MailShape
  <2> QED
    BY <2>1, <2>2, NothingTrue DEF MailsTrue, MailTrue
<1>5. TasksTrue
  <2> DEFINE s == [Idle EXCEPT !.stage = "idle"]
  <2>1. s = Idle
    BY DEF Idle
  <2>2. \A n \in Side, k \in Invite : TaskTrue(n, k, s)
    BY IdleTrue DEF TaskStages
  <2> HIDE DEF s
  <2>3. \A n \in Side, k \in Invite : TaskTrue(n, k, Idle)
    BY <2>1, <2>2
  <2>4. \A n \in Side, k \in Invite : task[n][k] = Idle
    BY DEF Init
  <2>5. task \in [Side -> [Invite -> TaskShape]]
    BY <2>3 DEF Init, TaskTrue
  <2> QED
    BY <2>3, <2>4, <2>5 DEF TasksTrue
<1> QED
  BY <1>1, <1>3, <1>4, <1>5 DEF GuessInv

LEMMA GuessStep == GuessInv /\ [Next]_vars => GuessInv'
<1> SUFFICES ASSUME GuessInv, [Next]_vars PROVE GuessInv'
  OBVIOUS
<1>1. ASSUME NEW n \in Side, NEW k \in Invite, GenerateAccept(n, k) PROVE GuessInv'
  <2>1. StartsRefresh(n, k, "accepting") /\ n # Host[k] /\ Quietly
    BY <1>1 DEF GenerateAccept, Quietly, wgVars
  <2> QED
    BY <2>1, StartsRefreshTrue, QuietTrue DEF TaskStages, Quietly, natVars
<1>2. CASE UNCHANGED vars
  <2>1. Quietly /\ task' = task
    BY <1>2 DEF vars, Quietly, natVars, wgVars
  <2> QED
    BY <2>1, StaysTrue, QuietTrue DEF Quietly, natVars
<1> QED
  BY <1>1, <1>2, RedeemTrue, PunchTrue, RelayedTrue, AcceptTrue, GatheredTrue, SendTrue DEF Next

LEMMA GuessesFromNotes == GuessInv => GuessesRight
<1> SUFFICES ASSUME GuessInv, NEW n \in Side, NEW k \in Invite, nat[n].kind # "symmetric",
                    Predictable(Peer(n), SeenAt(n, 0), task[n][k].config.peer)
             PROVE  \E c \in Candidates(task[n][k].config.peer) :
                      c.port = SeenAt(Peer(n), SeenAt(n, 0))
  BY DEF GuessesRight
<1> DEFINE info == task[n][k].config.peer
           m == Peer(n)
           port == SeenAt(n, 0)
<1>1. info \in Notes /\ Honest(m, info) /\ info.port \in Port
  BY DEF GuessInv, TasksTrue, TaskTrue, TaskShape
<1>2. info.port \in Int /\ info.wg = WgPort /\ info.stride \in Int /\ WgPort \in Usable
      /\ WgPort \in Int /\ info.port < 65536
  BY <1>1, PortAssumption DEF Notes, Port, Usable
<1>3. Legible(info) /\ m \in Side
  BY <1>2, TwoSides DEF Legible
<1>4. CASE nat[m].kind # "symmetric" /\ nat[m].keeps
  <2>1. SeenAt(m, port) = WgPort
    BY <1>3, <1>4 DEF SeenAt, OwnPort, Outside, GuessInv
  <2>2. At(2, info.wg) \in Listed(info)
    BY DEF Listed
  <2>3. At(2, info.wg).port = WgPort
    BY <1>2 DEF At
  <2> QED
    BY <1>2, <1>3, <2>1, <2>2, <2>3, ListedIsCandidate
<1>5. CASE ~(nat[m].kind # "symmetric" /\ nat[m].keeps)
  <2>1. /\ info.type = "symmetric" /\ port \notin DOMAIN mapped[m] /\ SeenAt(m, port) \in Usable
        /\ \E i \in 1 .. Strides : /\ NextPort(nat[m], used[m] - i) = info.port
                                   /\ nat[m].stride * i < 32768
    BY <1>5 DEF Predictable
  <2>2. PICK i \in 1 .. Strides : /\ NextPort(nat[m], used[m] - i) = info.port
                                  /\ nat[m].stride * i < 32768
    BY <2>1
  <2> DEFINE base == nat[m].base
             stride == nat[m].stride
             u == used[m]
             by == stride * i
  <2>3. /\ base \in Int /\ stride \in Int /\ u \in Int /\ i \in Int /\ i >= 1
        /\ nat[m].kind = "symmetric" /\ info.stride = stride /\ stride # 0
    BY <1>1, <1>3, <2>1, NatIs, PortAssumption DEF Honest, GuessInv
  <2>4. SeenAt(m, port) = base + stride * u
    BY <2>1, <2>3 DEF SeenAt, NextPort
  <2>5. info.port = base + stride * (u - i)
    BY <2>2 DEF NextPort
  <2>6. stride * (u - i) = stride * u - by /\ by \in Int /\ stride * u \in Int
    BY <2>3
  <2>7. stride > 0 => by > 0
    BY <2>3
  <2>8. stride < 0 => by < 0
    BY <2>3
  <2> HIDE DEF base, stride, by, u
  <2>9. SeenAt(m, port) = info.port + by /\ SeenAt(m, port) > 0
    BY <1>2, <2>1, <2>3, <2>4, <2>5, <2>6 DEF Usable, Port
  <2>10. At(2 * i + 1, Up(info.port, info.stride * i)) \in Listed(info)
    BY <2>3 DEF Listed
  <2>11. At(2 * i + 2, Down(info.port, info.stride * i)) \in Listed(info)
    BY <2>3 DEF Listed
  <2>12. info.stride * i = by
    BY <2>3 DEF by, stride
  <2>13. CASE stride > 0
    <3>1. by < 32768 /\ by > 0
      BY <2>2, <2>7, <2>13 DEF by, stride
    <3>2. Up(info.port, by) = info.port + by
      BY <1>2, <2>6, <3>1 DEF Up, ToI16
    <3>3. At(2 * i + 1, Up(info.port, by)).port = SeenAt(m, port)
      BY <2>9, <3>2 DEF At
    <3> QED
      BY <1>3, <2>1, <2>10, <2>12, <3>3, ListedIsCandidate
  <2>14. CASE stride < 0
    <3>1. by < 0 /\ -by < 65536
      BY <1>2, <2>6, <2>8, <2>9, <2>14
    <3>2. Down(info.port, by) = info.port + by
      BY <1>2, <2>6, <3>1 DEF Down, Abs
    <3>3. At(2 * i + 2, Down(info.port, by)).port = SeenAt(m, port)
      BY <2>9, <3>2 DEF At
    <3> QED
      BY <1>3, <2>1, <2>11, <2>12, <3>3, ListedIsCandidate
  <2> QED
    BY <2>3, <2>13, <2>14
<1> QED
  BY <1>4, <1>5

\* A node that is told of a NAT that keeps ports, or of a symmetric one in time, tries the
\* port the peer will be seen at (build_candidates, refresh_mapping).
THEOREM GuessesStayRight == Spec => []GuessesRight
  BY GuessInit, GuessStep, GuessesFromNotes, PTL DEF Spec

--------------------------------------------------------------------------------
(* The capacity of a relay.                                                   *)

\* As long as no two OPENs were checked together, one at a time is between its
\* check and its circuit, and there still is room for it.
Roomy(n, m) == opening[n][m] # NoOpen =>
  /\ {n, m} \in Session /\ Cardinality(circuits[n]) < MaxCircuits[{n, m}]
  /\ \A k \in Node : opening[n][k] # NoOpen => k = m

Booked ==
  /\ DOMAIN circuits = Node /\ DOMAIN opening = Node /\ DOMAIN peers = Node
  /\ \A n \in Node : /\ IsFiniteSet(circuits[n]) /\ DOMAIN opening[n] = Node
                     /\ \A m \in peers[n] : m \in Node /\ {n, m} \in Session
  /\ raced \in BOOLEAN
  /\ ~raced => \A n, m \in Node : Roomy(n, m)
  /\ CapacityHeld

LEMMA Fewer ==
  ASSUME NEW S, NEW T, IsFiniteSet(S), T \subseteq S
  PROVE  /\ IsFiniteSet(T) /\ Cardinality(T) \in Nat /\ Cardinality(S) \in Nat
         /\ Cardinality(T) <= Cardinality(S)
  BY FS_Subset, FS_CardinalityType

\* A step that adds no circuit, checks no OPEN and opens no session.
LEMMA ShrinksBooked ==
  ASSUME Booked, DOMAIN circuits' = Node, \A n \in Node : circuits'[n] \subseteq circuits[n],
         DOMAIN peers' = Node, \A n \in Node : peers'[n] \subseteq peers[n],
         UNCHANGED <<opening, raced>>
  PROVE  Booked'
<1>1. \A n \in Node : /\ IsFiniteSet(circuits'[n])
                      /\ Cardinality(circuits'[n]) <= Cardinality(circuits[n])
                      /\ Cardinality(circuits'[n]) \in Nat /\ Cardinality(circuits[n]) \in Nat
  BY Fewer DEF Booked
<1>2. ASSUME ~raced, NEW n \in Node, NEW m \in Node PROVE Roomy(n, m)'
  <2>1. Roomy(n, m) /\ opening' = opening
    BY <1>2 DEF Booked
  <2>2. {n, m} \in Session => MaxCircuits[{n, m}] \in Nat
    BY RelayAssumption
  <2>3. {n, m} \in Session /\ Cardinality(circuits[n]) < MaxCircuits[{n, m}]
          => Cardinality(circuits'[n]) < MaxCircuits[{n, m}]
    BY <1>1, <2>2
  <2> QED
    BY <2>1, <2>3 DEF Roomy
<1>3. ASSUME ~raced, NEW n \in Node, NEW m \in Node, {n, m} \in Session
      PROVE  Cardinality({c \in circuits'[n] : c.initiator = m}) <= MaxCircuits[{n, m}]
  <2> DEFINE old == {c \in circuits[n] : c.initiator = m}
             new == {c \in circuits'[n] : c.initiator = m}
  <2>1. IsFiniteSet(circuits[n]) /\ old \subseteq circuits[n] /\ new \subseteq old
    BY DEF Booked
  <2>2. IsFiniteSet(old)
    BY <2>1, Fewer
  <2>3. /\ Cardinality(new) <= Cardinality(old)
        /\ Cardinality(new) \in Nat /\ Cardinality(old) \in Nat
    BY <2>1, <2>2, Fewer
  <2>4. Cardinality(old) <= MaxCircuits[{n, m}]
    BY <1>3 DEF Booked, CapacityHeld
  <2>5. MaxCircuits[{n, m}] \in Nat
    BY <1>3, RelayAssumption
  <2> QED
    BY <2>3, <2>4, <2>5
<1> QED
  BY <1>1, <1>2, <1>3 DEF Booked, CapacityHeld

LEMMA TakeOpenBooked ==
  ASSUME Booked, NEW n \in Node, NEW m \in Node, TakeOpen(n, m) PROVE Booked'
<1> DEFINE o == Head(wire[m][n])
           refused == Cardinality(circuits[n]) >= MaxCircuits[{n, m}] \/ o.target \notin peers[n]
<1>1. /\ UNCHANGED <<circuits, peers>>
      /\ {n, m} \in Session
  BY DEF TakeOpen, Comes, Booked
<1>2. CASE refused
  BY <1>1, <1>2, ShrinksBooked DEF TakeOpen, Booked
<1>3. CASE ~refused
  <2>1. /\ opening' = [opening EXCEPT ![n][m] = [id |-> o.id, target |-> o.target]]
        /\ raced' = (raced \/ \E k \in Node : opening[n][k] # NoOpen)
    BY <1>3 DEF TakeOpen
  <2>2. /\ DOMAIN opening' = Node
        /\ \A k \in Node : DOMAIN opening'[k] = Node
        /\ \A k, l \in Node : k # n \/ l # m => opening'[k][l] = opening[k][l]
    BY <2>1 DEF Booked
  <2>3. raced' \in BOOLEAN /\ (raced => raced')
    BY <2>1
  <2>4. Cardinality(circuits[n]) < MaxCircuits[{n, m}]
    BY <1>1, <1>3, RelayAssumption, Fewer DEF Booked
  <2>5. ASSUME ~raced', NEW k \in Node, NEW l \in Node PROVE Roomy(k, l)'
    <3>1. ~raced /\ \A j \in Node : opening[n][j] = NoOpen
      BY <2>1, <2>5
    <3>2. CASE k = n
      BY <1>1, <2>2, <2>4, <3>1, <3>2 DEF Roomy
    <3>3. CASE k # n
      <4>1. Roomy(k, l) /\ circuits' = circuits /\ \A j \in Node : opening'[k][j] = opening[k][j]
        BY <1>1, <2>2, <3>1, <3>3 DEF Booked
      <4> QED
        BY <4>1 DEF Roomy
    <3> QED
      BY <3>2, <3>3
  <2>6. CapacityHeld'
    BY <1>1, <2>3 DEF Booked, CapacityHeld
  <2> QED
    BY <1>1, <2>2, <2>3, <2>5, <2>6 DEF Booked
<1> QED
  BY <1>2, <1>3

LEMMA StoreCircuitBooked ==
  ASSUME Booked, NEW n \in Node, NEW m \in Node, StoreCircuit(n, m) PROVE Booked'
<1> DEFINE o == opening[n][m]
           c == [id |-> o.id, initiator |-> m, target |-> o.target]
           kept == Without(circuits[n], o.id)
<1>1. /\ o # NoOpen /\ UNCHANGED <<peers, raced>>
      /\ circuits' = [circuits EXCEPT ![n] = kept \cup {c}]
      /\ opening' = [opening EXCEPT ![n][m] = NoOpen]
  BY DEF StoreCircuit
<1>2. /\ DOMAIN opening' = Node /\ DOMAIN circuits' = Node
      /\ \A k \in Node : DOMAIN opening'[k] = Node
      /\ \A k, l \in Node : opening'[k][l] = IF k = n /\ l = m THEN NoOpen ELSE opening[k][l]
      /\ \A k \in Node : circuits'[k] = IF k = n THEN kept \cup {c} ELSE circuits[k]
  BY <1>1 DEF Booked
<1>3. /\ IsFiniteSet(circuits[n]) /\ kept \subseteq circuits[n]
      /\ IsFiniteSet(kept) /\ Cardinality(kept) \in Nat
      /\ Cardinality(kept) <= Cardinality(circuits[n]) /\ Cardinality(circuits[n]) \in Nat
  BY Fewer DEF Booked, Without
<1>4. /\ IsFiniteSet(kept \cup {c}) /\ Cardinality(kept \cup {c}) \in Nat
      /\ Cardinality(kept \cup {c}) <= Cardinality(circuits[n]) + 1
  <2>1. Cardinality(kept \cup {c}) \in {Cardinality(kept), Cardinality(kept) + 1}
    BY <1>3, FS_AddElement
  <2>2. IsFiniteSet(kept \cup {c})
    BY <1>3, FS_AddElement
  <2> QED
    BY <1>3, <2>1, <2>2
<1>5. ASSUME ~raced, NEW k \in Node, NEW l \in Node PROVE Roomy(k, l)'
  <2>1. CASE k = n
    BY <1>1, <1>2, <1>5, <2>1 DEF Booked, Roomy
  <2>2. CASE k # n
    <3>1. /\ Roomy(k, l) /\ circuits'[k] = circuits[k]
          /\ \A j \in Node : opening'[k][j] = opening[k][j]
      BY <1>2, <1>5, <2>2 DEF Booked
    <3> QED
      BY <3>1 DEF Roomy
  <2> QED
    BY <2>1, <2>2
<1>6. ASSUME ~raced, NEW k \in Node, NEW l \in Node, {k, l} \in Session
      PROVE  Cardinality({e \in circuits'[k] : e.initiator = l}) <= MaxCircuits[{k, l}]
  <2> DEFINE new == {e \in circuits'[k] : e.initiator = l}
             old == {e \in circuits[k] : e.initiator = l}
  <2>1. Cardinality(old) <= MaxCircuits[{k, l}] /\ MaxCircuits[{k, l}] \in Nat
    BY <1>6, RelayAssumption DEF Booked, CapacityHeld
  <2>2. CASE k # n
    BY <1>2, <2>1, <2>2
  <2>3. CASE k = n /\ l # m
    <3>1. new \subseteq old
      BY <1>2, <2>3 DEF Without
    <3>2. IsFiniteSet(old)
      BY <2>3, <1>3, Fewer
    <3>3. /\ Cardinality(new) <= Cardinality(old)
          /\ Cardinality(new) \in Nat /\ Cardinality(old) \in Nat
      BY <3>1, <3>2, Fewer
    <3> QED
      BY <2>1, <3>3
  <2>4. CASE k = n /\ l = m
    <3>1. Cardinality(circuits[n]) < MaxCircuits[{n, m}]
      BY <1>1, <1>6 DEF Booked, Roomy
    <3>2. new \subseteq kept \cup {c}
      BY <1>2, <2>4
    <3>3. Cardinality(new) <= Cardinality(kept \cup {c}) /\ Cardinality(new) \in Nat
      BY <1>4, <3>2, Fewer
    <3>4. MaxCircuits[{n, m}] \in Nat
      BY <2>1, <2>4
    <3> QED
      BY <1>3, <1>4, <2>4, <3>1, <3>3, <3>4
  <2> QED
    BY <2>2, <2>3, <2>4
<1> QED
  BY <1>1, <1>2, <1>3, <1>4, <1>5, <1>6 DEF Booked, CapacityHeld

\* Everything else neither checks nor stores an OPEN.
Unbooked ==
  /\ UNCHANGED <<opening, raced>>
  /\ DOMAIN circuits' = Node /\ \A n \in Node : circuits'[n] \subseteq circuits[n]
  /\ DOMAIN peers' = Node /\ \A n \in Node : peers'[n] \subseteq peers[n]

LEMMA TakeUnbooked ==
  ASSUME Booked, NEW n \in Node, NEW m \in Node,
         TakeForward(n, m) \/ TakeAccept(n, m) \/ TakeData(n, m) \/ TakeClose(n, m)
  PROVE  Unbooked
<1>1. CASE TakeForward(n, m) \/ TakeAccept(n, m)
  BY <1>1 DEF TakeForward, TakeAccept, Unbooked, Booked
<1>2. CASE TakeData(n, m)
  BY <1>2 DEF TakeData, Unbooked, Booked, Without
<1>3. CASE TakeClose(n, m)
  BY <1>3 DEF TakeClose, Unbooked, Booked, Without
<1> QED
  BY <1>1, <1>2, <1>3

LEMMA CallUnbooked ==
  ASSUME Booked, NEW c \in Call, CallStep(c) \/ TimesOut(c) \/ Cancel(c)
  PROVE  Unbooked
<1> USE DEF Booked, Unbooked, handlerVars, circuitVars
<1>1. CASE Opened(c)
  BY <1>1 DEF Opened, SendData
<1>2. CASE GotExchange(c)
  BY <1>2 DEF GotExchange, CloseEnd
<1>3. CASE Ignored(c) \/ Failed(c) \/ Punched(c)
  BY <1>3 DEF Ignored, Failed, Punched
<1>4. CASE TimesOut(c) \/ Cancel(c)
  BY <1>4 DEF TimesOut, Cancel
<1> QED
  BY <1>1, <1>2, <1>3, <1>4 DEF CallStep

LEMMA TaskUnbooked ==
  ASSUME Booked, NEW t, TaskStep(t)
  PROVE  Unbooked
<1> USE DEF Booked, Unbooked, handlerVars, circuitVars
<1>1. CASE Reply(t)
  BY <1>1 DEF Reply, SendData
<1>2. CASE CloseTask(t)
  BY <1>2 DEF CloseTask, CloseEnd
<1>3. CASE PunchedTask(t)
  BY <1>3 DEF PunchedTask
<1> QED
  BY <1>1, <1>2, <1>3 DEF TaskStep

LEMMA BookedStep == Booked /\ [MatchNext]_matchVars => Booked'
<1> SUFFICES ASSUME Booked, [MatchNext]_matchVars PROVE Booked'
  OBVIOUS
<1>1. ASSUME Unbooked PROVE Booked'
  BY <1>1, ShrinksBooked DEF Unbooked
<1>2. ASSUME NEW c \in Call, NEW n \in Node, NEW relay \in Node, NEW target \in Node,
             Begin(c, n, relay, target)
      PROVE  Unbooked
  BY <1>2 DEF Begin, Unbooked, Booked
<1>3. ASSUME NEW n \in Node, Dispatch(n) PROVE Unbooked
  BY <1>3 DEF Dispatch, Unbooked, Booked, handlerVars, circuitVars
<1>4. ASSUME NEW n \in Node, NEW m \in Node, Relays(n, m) PROVE Booked'
  BY <1>1, <1>4, TakeOpenBooked, StoreCircuitBooked, TakeUnbooked DEF Relays, Take
<1>5. ASSUME NEW n \in Node, NEW m \in Node, Breaks(n, m) PROVE Unbooked
  BY <1>5, Zenon DEF Breaks, Deactivate, Unbooked, Booked
<1>6. CASE UNCHANGED matchVars
  BY <1>1, <1>6 DEF matchVars, relayVars, circuitVars, Unbooked, Booked
<1> QED
  BY <1>1, <1>2, <1>3, <1>4, <1>5, <1>6, CallUnbooked, TaskUnbooked DEF MatchNext

\* A relay has more circuits of a peer than their session allows only if two
\* OPENs were checked before either was stored (handle_open).
THEOREM CapacityStaysHeld == MatchSpec => []CapacityHeld
<1>1. MatchInit => Booked
  <2> SUFFICES ASSUME MatchInit PROVE Booked
    OBVIOUS
  <2>1. \A n \in Node : circuits[n] = {} /\ \A m \in Node : opening[n][m] = NoOpen
    BY DEF MatchInit, RelayInit
  <2>2. \A n \in Node : {c \in circuits[n] : TRUE} = {} /\ IsFiniteSet(circuits[n])
    BY <2>1, FS_EmptySet
  <2>3. ASSUME NEW n \in Node, NEW m \in Node, {n, m} \in Session
        PROVE  Cardinality({c \in circuits[n] : c.initiator = m}) <= MaxCircuits[{n, m}]
    <3>1. {c \in circuits[n] : c.initiator = m} = {}
      BY <2>1
    <3>2. MaxCircuits[{n, m}] \in Nat
      BY <2>3, RelayAssumption
    <3>3. Cardinality({c \in circuits[n] : c.initiator = m}) = 0
      BY <3>1, FS_EmptySet
    <3> QED
      BY <3>2, <3>3
  <2> QED
    BY <2>1, <2>2, <2>3 DEF MatchInit, RelayInit, Booked, Roomy, CapacityHeld
<1>2. Booked => CapacityHeld
  BY DEF Booked
<1> QED
  BY <1>1, <1>2, BookedStep, PTL DEF MatchSpec

--------------------------------------------------------------------------------
(* Whose circuit a message is about.                                          *)

Payloads == [kind : {"request", "exchange"}, call : Call]

Message ==
  [type : {"open"}, id : Nat, target : Node] \cup
  [type : {"forward"}, id : Nat, initiator : Node] \cup
  [type : {"accept", "close"}, id : Nat] \cup
  [type : {"data"}, id : Nat, payload : Payloads]

Told ==
  [type : {"opened", "closed"}, id : Nat] \cup [type : {"data"}, id : Nat, payload : Payloads]

CallType == [Call -> [node : Node \cup {0}, relay : Node \cup {0}, target : Node \cup {0},
                      id : Nat, stage : Stages]]

Asked(r) == r.stage \notin {"none", "opening"}
Past(r)  == r.stage \notin {"none", "opening", "asking"}
Between(r) == {r.node, r.relay, r.target}

\* With the calls cs: id is the circuit of call d, which passes all nodes of seen.
OfCall(d, id, cs) == cs[d].stage # "none" /\ cs[d].id = id
Owns(d, id, seen, cs) == OfCall(d, id, cs) /\ seen \subseteq Between(cs[d])

\* From x to y is a step towards the target of call r, or towards its node.
Out(x, y, r)  == (x = r.node /\ y = r.relay) \/ (x = r.relay /\ y = r.target)
Back(x, y, r) == (x = r.target /\ y = r.relay) \/ (x = r.relay /\ y = r.node)

\* A request goes out and its answer comes back, when the call has been answered.
Genuine(p, d, done) == p.call = d /\ (p.kind = "exchange" => d \in done)

Fits(w, x, y, d, r, done) ==
  /\ w.type = "open" => x = r.node /\ y = r.relay /\ w.target = r.target
  /\ w.type = "forward" => x = r.relay /\ y = r.target /\ w.initiator = r.node
  /\ w.type = "accept" => Back(x, y, r)
  /\ w.type = "data" => /\ Asked(r) /\ Genuine(w.payload, d, done)
                        /\ (w.payload.kind = "request" => Out(x, y, r))
                        /\ (w.payload.kind = "exchange" => Back(x, y, r))
  /\ w.type = "close" => Asked(r) /\ (Back(x, y, r) \/ (Past(r) /\ Out(x, y, r)))

Messages(x, y, cs, done) ==
  {w \in Message : \E d \in Call : OfCall(d, w.id, cs) /\ Fits(w, x, y, d, cs[d], done)}

\* Where a channel is listened to, and the data that may be told there.
Home(k, cs) == IF k \in Call THEN cs[k].node ELSE k
Suits(e, k, d, cs, done) ==
  /\ Asked(cs[d]) /\ Genuine(e.payload, d, done)
  /\ e.payload.kind = "request" => Home(k, cs) = cs[d].target
  /\ e.payload.kind = "exchange" => Home(k, cs) = cs[d].node
Heard(k, cs, done) ==
  {e \in Told : e.type = "data" =>
     \E d \in Call : OfCall(d, e.id, cs) /\ Suits(e, k, d, cs, done)}

WireOK(w, cs, done) ==
  /\ DOMAIN w = Node
  /\ \A x \in Node : /\ DOMAIN w[x] = Node
                     /\ \A y \in Node : w[x][y] \in Seq(Messages(x, y, cs, done))
InboxOK(b, cs, done) ==
  /\ Node \subseteq DOMAIN b
  /\ \A k \in DOMAIN b : /\ k \in Node \/ (k \in Call /\ cs[k].stage # "none")
                         /\ b[k] \in Seq(Heard(k, cs, done))

\* The three nodes of a call are different, and it has a session with its relay.
Distinct(r) ==
  /\ Between(r) \subseteq Node /\ {r.node, r.relay} \in Session /\ r.id # 0
  /\ r.node # r.relay /\ r.node # r.target /\ r.relay # r.target
CallsOK(cs, done) ==
  /\ cs \in CallType
  /\ \A c \in Call : cs[c].stage # "none" => Distinct(cs[c])
  /\ \A c \in Call : cs[c].stage = "punching" => c \in done
\* Circuits of the same number have no node in common.
Unique(cs) == \A c, d \in Call : \A id, x :
  Owns(c, id, {x}, cs) /\ Owns(d, id, {x}, cs) => c = d
ListenOK(l, cs) ==
  /\ DOMAIN l = Node
  /\ \A n \in Node : l[n] = n \/ (l[n] \in Call /\ cs[l[n]].stage # "none" /\ cs[l[n]].node = n)
\* The daemon of a target hears what is sent to it.
HearsOK(l, cs) == \A c \in Call : cs[c].stage \in Live => l[cs[c].target] = cs[c].target

EndOf(x, e, r) == x \in {r.node, r.target} /\ e.relay = r.relay
EndsOK(es, cs) ==
  /\ DOMAIN es = Node
  /\ \A n \in Node : \A e \in es[n] : \E d \in Call : OfCall(d, e.id, cs) /\ EndOf(n, e, cs[d])
PendingOK(ps, cs) ==
  /\ DOMAIN ps = Node
  /\ \A n \in Node : \A e \in ps[n] : \E d \in Call : OfCall(d, e.id, cs) /\ n = cs[d].node
CircuitOf(x, e, r) == x = r.relay /\ e.initiator = r.node /\ e.target = r.target
CircuitsOK(rs, cs) ==
  /\ DOMAIN rs = Node
  /\ \A n \in Node : \A e \in rs[n] : \E d \in Call : OfCall(d, e.id, cs) /\ CircuitOf(n, e, cs[d])
OpenOf(x, m, o, r) == x = r.relay /\ m = r.node /\ o.target = r.target
OpeningOK(os, cs) ==
  /\ DOMAIN os = Node
  /\ \A n \in Node : /\ DOMAIN os[n] = Node
                     /\ \A m \in Node : os[n][m] # NoOpen =>
                          \E d \in Call : /\ OfCall(d, os[n][m].id, cs)
                                          /\ OpenOf(n, m, os[n][m], cs[d])
Task == [node : Node, id : Nat, call : Call, stage : {"gathering", "replied", "punching"}]
TasksOK(ts, cs) == \A t \in ts :
  t \in Task /\ OfCall(t.call, t.id, cs) /\ t.node = cs[t.call].target /\ Asked(cs[t.call])
CounterOK(ct, ps) ==
  /\ ct \in [Node -> Nat \ {0}] /\ DOMAIN ps = Node
  /\ \A n \in Node : ps[n] = {m \in Node : {n, m} \in Session}

Traced ==
  /\ WireOK(wire, call, replied) /\ InboxOK(inbox, call, replied)
  /\ CallsOK(call, replied) /\ Unique(call)
  /\ ListenOK(listener, call) /\ HearsOK(listener, call)
  /\ EndsOK(ends, call) /\ PendingOK(pending, call)
  /\ CircuitsOK(circuits, call) /\ OpeningOK(opening, call) /\ TasksOK(tasks, call)
  /\ CounterOK(counter, peers)

--------------------------------------------------------------------------------
(* Calls only get further.                                                    *)

Kept(cs, done, cs2, done2) ==
  /\ done \subseteq done2
  /\ \A d \in Call : cs[d].stage # "none" =>
       /\ cs2[d].id = cs[d].id /\ cs2[d].node = cs[d].node
       /\ cs2[d].relay = cs[d].relay /\ cs2[d].target = cs[d].target
       /\ cs2[d].stage # "none"
       /\ (Asked(cs[d]) => Asked(cs2[d])) /\ (Past(cs[d]) => Past(cs2[d]))

LEMMA KeptCall ==
  ASSUME NEW cs, NEW done, NEW cs2, NEW done2, Kept(cs, done, cs2, done2),
         NEW d \in Call, NEW id, OfCall(d, id, cs)
  PROVE  /\ OfCall(d, id, cs2) /\ Between(cs2[d]) = Between(cs[d])
         /\ cs2[d].node = cs[d].node /\ cs2[d].relay = cs[d].relay /\ cs2[d].target = cs[d].target
         /\ (Asked(cs[d]) => Asked(cs2[d])) /\ (Past(cs[d]) => Past(cs2[d]))
         /\ \A p : Genuine(p, d, done) => Genuine(p, d, done2)
  BY DEF Kept, OfCall, Between, Genuine

LEMMA KeptMessages ==
  ASSUME NEW cs, NEW done, NEW cs2, NEW done2, Kept(cs, done, cs2, done2), NEW x, NEW y
  PROVE  Messages(x, y, cs, done) \subseteq Messages(x, y, cs2, done2)
<1>1. ASSUME NEW w \in Messages(x, y, cs, done) PROVE w \in Messages(x, y, cs2, done2)
  <2>1. PICK d \in Call : OfCall(d, w.id, cs) /\ Fits(w, x, y, d, cs[d], done)
    BY DEF Messages
  <2>2. OfCall(d, w.id, cs2) /\ Fits(w, x, y, d, cs2[d], done2)
    BY <2>1, KeptCall DEF Fits, Out, Back
  <2> QED
    BY <2>2 DEF Messages
<1> QED
  BY <1>1

LEMMA KeptHeard ==
  ASSUME NEW cs, NEW done, NEW cs2, NEW done2, Kept(cs, done, cs2, done2), NEW k,
         k \in Call => cs[k].stage # "none"
  PROVE  Heard(k, cs, done) \subseteq Heard(k, cs2, done2)
<1>1. ASSUME NEW e \in Heard(k, cs, done), e.type = "data" PROVE e \in Heard(k, cs2, done2)
  <2>1. PICK d \in Call : OfCall(d, e.id, cs) /\ Suits(e, k, d, cs, done)
    BY <1>1 DEF Heard
  <2>2. Home(k, cs2) = Home(k, cs)
    BY DEF Home, Kept
  <2>3. OfCall(d, e.id, cs2) /\ Suits(e, k, d, cs2, done2)
    BY <2>1, <2>2, KeptCall DEF Suits
  <2> QED
    BY <2>3 DEF Heard
<1> QED
  BY <1>1 DEF Heard

LEMMA SeqGrows ==
  ASSUME NEW S, NEW T, S \subseteq T, NEW s \in Seq(S) PROVE s \in Seq(T)
  OBVIOUS

LEMMA KeptWire ==
  ASSUME NEW cs, NEW done, NEW cs2, NEW done2, Kept(cs, done, cs2, done2),
         NEW w, WireOK(w, cs, done)
  PROVE  WireOK(w, cs2, done2)
  BY KeptMessages, SeqGrows DEF WireOK

LEMMA KeptInbox ==
  ASSUME NEW cs, NEW done, NEW cs2, NEW done2, Kept(cs, done, cs2, done2),
         NEW b, InboxOK(b, cs, done)
  PROVE  InboxOK(b, cs2, done2)
<1>1. ASSUME NEW k \in DOMAIN b
      PROVE  /\ k \in Node \/ (k \in Call /\ cs2[k].stage # "none")
             /\ b[k] \in Seq(Heard(k, cs2, done2))
  <2>1. /\ k \in Node \/ (k \in Call /\ cs[k].stage # "none")
        /\ b[k] \in Seq(Heard(k, cs, done))
    BY DEF InboxOK
  <2>2. k \in Call => cs[k].stage # "none"
    BY <2>1, CallAssumption
  <2>3. Heard(k, cs, done) \subseteq Heard(k, cs2, done2)
    BY <2>2, KeptHeard
  <2>4. b[k] \in Seq(Heard(k, cs2, done2))
    BY <2>1, <2>3, SeqGrows
  <2>5. k \in Call /\ cs[k].stage # "none" => cs2[k].stage # "none"
    BY DEF Kept
  <2> QED
    BY <2>1, <2>4, <2>5
<1> QED
  BY <1>1 DEF InboxOK

LEMMA KeptTables ==
  ASSUME NEW cs, NEW done, NEW cs2, NEW done2, Kept(cs, done, cs2, done2)
  PROVE  /\ \A l : ListenOK(l, cs) => ListenOK(l, cs2)
         /\ \A es : EndsOK(es, cs) => EndsOK(es, cs2)
         /\ \A ps : PendingOK(ps, cs) => PendingOK(ps, cs2)
         /\ \A rs : CircuitsOK(rs, cs) => CircuitsOK(rs, cs2)
         /\ \A os : OpeningOK(os, cs) => OpeningOK(os, cs2)
         /\ \A ts : TasksOK(ts, cs) => TasksOK(ts, cs2)
<1>1. ASSUME NEW l, ListenOK(l, cs) PROVE ListenOK(l, cs2)
  <2>1. \A d \in Call : cs[d].stage # "none" =>
          cs2[d].stage # "none" /\ cs2[d].node = cs[d].node
    BY DEF Kept
  <2>2. ASSUME NEW n \in Node
        PROVE  l[n] = n \/ (l[n] \in Call /\ cs2[l[n]].stage # "none" /\ cs2[l[n]].node = n)
    BY <1>1, <2>1 DEF ListenOK
  <2> QED
    BY <1>1, <2>2 DEF ListenOK
<1>2. \A es : EndsOK(es, cs) => EndsOK(es, cs2)
  BY KeptCall DEF EndsOK, EndOf
<1>3. \A ps : PendingOK(ps, cs) => PendingOK(ps, cs2)
  BY KeptCall DEF PendingOK
<1>4. \A rs : CircuitsOK(rs, cs) => CircuitsOK(rs, cs2)
  BY KeptCall DEF CircuitsOK, CircuitOf
<1>5. ASSUME NEW os, OpeningOK(os, cs) PROVE OpeningOK(os, cs2)
  <2>1. ASSUME NEW n \in Node, NEW m \in Node, os[n][m] # NoOpen
        PROVE  \E d \in Call : OfCall(d, os[n][m].id, cs2) /\ OpenOf(n, m, os[n][m], cs2[d])
    <3>1. PICK d \in Call : OfCall(d, os[n][m].id, cs) /\ OpenOf(n, m, os[n][m], cs[d])
      BY <1>5, <2>1 DEF OpeningOK
    <3> QED
      BY <3>1, KeptCall DEF OpenOf
  <2> QED
    BY <1>5, <2>1 DEF OpeningOK
<1>6. ASSUME NEW ts, TasksOK(ts, cs) PROVE TasksOK(ts, cs2)
  BY <1>6, KeptCall DEF TasksOK, Task
<1> QED
  BY <1>1, <1>2, <1>3, <1>4, <1>5, <1>6

--------------------------------------------------------------------------------
(* What is sent, taken and fired.                                             *)

LEMMA SentToOK ==
  ASSUME NEW w, NEW cs, NEW done, WireOK(w, cs, done), NEW n \in Node, NEW to, NEW msg,
         \A m \in to \cap Node : msg \in Messages(n, m, cs, done)
  PROVE  WireOK(SentTo(w, n, to, msg), cs, done)
<1> DEFINE v == SentTo(w, n, to, msg)
<1>1. /\ DOMAIN v = Node /\ \A x \in Node : DOMAIN v[x] = Node
      /\ \A x, y \in Node : \/ v[x][y] = w[x][y]
                            \/ x = n /\ y \in to /\ v[x][y] = Append(w[x][y], msg)
  BY DEF SentTo, WireOK
<1>2. ASSUME NEW x \in Node, NEW y \in Node PROVE v[x][y] \in Seq(Messages(x, y, cs, done))
  <2>1. w[x][y] \in Seq(Messages(x, y, cs, done))
    BY DEF WireOK
  <2>2. ASSUME NEW S, msg \in S, w[x][y] \in Seq(S) PROVE Append(w[x][y], msg) \in Seq(S)
    BY <2>2
  <2>3. x = n /\ y \in to => msg \in Messages(x, y, cs, done)
    OBVIOUS
  <2> QED
    BY <1>1, <2>1, <2>2, <2>3
<1> HIDE DEF v
<1> QED
  BY <1>1, <1>2 DEF WireOK, v

LEMMA SentOK ==
  ASSUME NEW w, NEW cs, NEW done, WireOK(w, cs, done), NEW n \in Node, NEW m, NEW msg,
         m \in Node => msg \in Messages(n, m, cs, done)
  PROVE  WireOK(Sent(w, n, m, msg), cs, done)
  BY SentToOK DEF Sent

LEMMA TakenOK ==
  ASSUME NEW cs, NEW done, WireOK(wire, cs, done), NEW n \in Node, NEW m \in Node, wire[m][n] # <<>>
  PROVE  WireOK(Taken(n, m), cs, done) /\ Head(wire[m][n]) \in Messages(m, n, cs, done)
<1> DEFINE v == Taken(n, m)
<1>1. /\ DOMAIN v = Node /\ \A x \in Node : DOMAIN v[x] = Node
      /\ \A x, y \in Node : v[x][y] = IF x = m /\ y = n THEN Tail(wire[m][n]) ELSE wire[x][y]
  BY DEF Taken, WireOK
<1>2. ASSUME NEW S, wire[m][n] \in Seq(S)
      PROVE  Tail(wire[m][n]) \in Seq(S) /\ Head(wire[m][n]) \in S
  BY <1>2
<1>3. \A x, y \in Node : wire[x][y] \in Seq(Messages(x, y, cs, done))
  BY DEF WireOK
<1> HIDE DEF v
<1> QED
  BY <1>1, <1>2, <1>3 DEF WireOK, v

\* An event fired at n is about a circuit that passes n.
LEMMA FiredOK ==
  ASSUME NEW cs, NEW done, InboxOK(inbox, cs, done), ListenOK(listener, cs),
         NEW n \in Node, NEW e \in Heard(n, cs, done)
  PROVE  InboxOK(Fired(n, e), cs, done)
<1> DEFINE k == listener[n]
<1>1. Home(n, cs) = n /\ Home(k, cs) = n
  BY CallAssumption DEF Home, ListenOK
<1>2. e \in Heard(k, cs, done)
  BY <1>1 DEF Heard, Suits
<1>3. ASSUME NEW S, NEW s \in Seq(S), e \in S PROVE Append(s, e) \in Seq(S)
  BY <1>3
<1>4. ASSUME k \in DOMAIN inbox
      PROVE  /\ DOMAIN Fired(n, e) = DOMAIN inbox
             /\ \A j \in DOMAIN inbox :
                  Fired(n, e)[j] = IF j = k THEN Append(inbox[k], e) ELSE inbox[j]
  BY <1>4 DEF Fired
<1>5. \A j \in DOMAIN inbox : inbox[j] \in Seq(Heard(j, cs, done))
  BY DEF InboxOK
<1>6. CASE k \in DOMAIN inbox
  BY <1>2, <1>3, <1>4, <1>5, <1>6 DEF InboxOK
<1>7. CASE k \notin DOMAIN inbox
  BY <1>7 DEF Fired
<1> QED
  BY <1>6, <1>7

LEMMA RestOK ==
  ASSUME NEW cs, NEW done, InboxOK(inbox, cs, done), NEW k \in DOMAIN inbox, inbox[k] # <<>>
  PROVE  InboxOK(Rest(k), cs, done) /\ Head(inbox[k]) \in Heard(k, cs, done)
<1>1. /\ DOMAIN Rest(k) = DOMAIN inbox
      /\ \A j \in DOMAIN inbox : Rest(k)[j] = IF j = k THEN Tail(inbox[k]) ELSE inbox[j]
  BY DEF Rest
<1>2. ASSUME NEW S, inbox[k] \in Seq(S) PROVE Tail(inbox[k]) \in Seq(S) /\ Head(inbox[k]) \in S
  BY <1>2
<1>3. \A j \in DOMAIN inbox : inbox[j] \in Seq(Heard(j, cs, done))
  BY DEF InboxOK
<1> QED
  BY <1>1, <1>2, <1>3 DEF InboxOK

LEMMA WithIn == ASSUME NEW S, NEW id \in Ids(S) PROVE With(S, id) \in S /\ With(S, id).id = id
  BY DEF With, Ids

\* Two calls whose circuits have a number and a node in common are one.
LEMMA Same ==
  ASSUME NEW cs, Unique(cs), NEW c \in Call, NEW d \in Call, NEW id, NEW s, NEW t, NEW x,
         Owns(c, id, s, cs), Owns(d, id, t, cs), x \in s, x \in t
  PROVE  c = d
<1>1. Owns(c, id, {x}, cs) /\ Owns(d, id, {x}, cs)
  BY DEF Owns
<1> QED
  BY <1>1 DEF Unique

LEMMA SameCall ==
  ASSUME Traced, NEW c \in Call, NEW d \in Call, NEW id, OfCall(c, id, call), OfCall(d, id, call),
         NEW x \in Between(call[c]), x \in Between(call[d])
  PROVE  c = d
<1>1. Owns(c, id, {x}, call) /\ Owns(d, id, {x}, call)
  BY DEF Owns
<1> QED
  BY <1>1 DEF Traced, Unique

\* What is known of a call that a table or message is about.
LEMMA CallIs ==
  ASSUME Traced, NEW d \in Call, NEW id, OfCall(d, id, call)
  PROVE  LET r == call[d] IN
         /\ id \in Nat \ {0} /\ r.node \in Node /\ r.relay \in Node /\ r.target \in Node
         /\ r.node # r.relay /\ r.node # r.target /\ r.relay # r.target
         /\ {r.node, r.relay} \in Session
         /\ r.node \in Between(r) /\ r.relay \in Between(r) /\ r.target \in Between(r)
  BY DEF Traced, CallsOK, CallType, OfCall, Distinct, Between

--------------------------------------------------------------------------------
(* Messages.                                                                  *)

\* A step of the handler leaves calls and tasks alone.
LEMMA HandledTraced ==
  ASSUME Traced, UNCHANGED <<callVars, listener, counter, peers>>,
         WireOK(wire', call, replied), InboxOK(inbox', call, replied),
         EndsOK(ends', call), PendingOK(pending', call),
         CircuitsOK(circuits', call), OpeningOK(opening', call)
  PROVE  Traced'
<1>1. call' = call /\ replied' = replied /\ tasks' = tasks
  BY DEF callVars
<1> QED
  BY <1>1 DEF Traced

\* What is known of a message that is taken.
LEMMA ComesFrom ==
  ASSUME Traced, NEW n \in Node, NEW m \in Node, NEW type, Comes(n, m, type)
  PROVE  LET w == Head(wire[m][n]) IN
         /\ WireOK(Taken(n, m), call, replied)
         /\ w \in Message /\ w.type = type /\ w.id \in Nat
         /\ \E d \in Call : OfCall(d, w.id, call) /\ Fits(w, m, n, d, call[d], replied)
<1>1. wire[m][n] # <<>> /\ Head(wire[m][n]).type = type
  BY DEF Comes
<1>2. /\ WireOK(Taken(n, m), call, replied)
      /\ Head(wire[m][n]) \in Messages(m, n, call, replied)
  BY <1>1, TakenOK DEF Traced
<1>3. \A w \in Message : w.id \in Nat
  BY DEF Message
<1> QED
  BY <1>1, <1>2, <1>3 DEF Messages

LEMMA AcceptFits ==
  ASSUME NEW cs, NEW done, NEW x, NEW y, NEW d \in Call, NEW id \in Nat, OfCall(d, id, cs),
         Back(x, y, cs[d])
  PROVE  Accept(id) \in Messages(x, y, cs, done)
  BY DEF Accept, Messages, Message, Fits

LEMMA CloseFits ==
  ASSUME NEW cs, NEW done, NEW x, NEW y, NEW d \in Call, NEW id \in Nat, OfCall(d, id, cs),
         Asked(cs[d]), Back(x, y, cs[d]) \/ (Past(cs[d]) /\ Out(x, y, cs[d]))
  PROVE  Close(id) \in Messages(x, y, cs, done)
  BY DEF Close, Messages, Message, Fits

LEMMA DataFits ==
  ASSUME NEW cs, NEW done, NEW x, NEW y, NEW d \in Call, NEW id \in Nat, OfCall(d, id, cs),
         Asked(cs[d]), NEW p \in Payloads, Genuine(p, d, done),
         p.kind = "request" => Out(x, y, cs[d]), p.kind = "exchange" => Back(x, y, cs[d])
  PROVE  Data(id, p) \in Messages(x, y, cs, done)
  BY DEF Data, Messages, Message, Fits

LEMMA TakeOpenTraced ==
  ASSUME Traced, NEW n \in Node, NEW m \in Node, TakeOpen(n, m), UNCHANGED callVars, ~disturbed'
  PROVE  Traced'
<1> DEFINE o == Head(wire[m][n])
           new == [id |-> o.id, target |-> o.target]
<1>1. /\ Comes(n, m, "open")
      /\ UNCHANGED <<circuits, ends, pending, counter, peers, listener, inbox>>
      /\ wire' = Taken(n, m)
      /\ opening' = [opening EXCEPT ![n][m] = new]
  BY DEF TakeOpen
<1>2. PICK d \in Call : OfCall(d, o.id, call) /\ Fits(o, m, n, d, call[d], replied)
  BY <1>1, ComesFrom
<1>3. o.type = "open" /\ WireOK(wire', call, replied)
  BY <1>1, ComesFrom
<1>4. new.id = o.id /\ OpenOf(n, m, new, call[d])
  BY <1>2, <1>3 DEF Fits, OpenOf
<1>5. OpeningOK(opening', call)
  <2> HIDE DEF new
  <2>1. /\ DOMAIN opening' = Node /\ \A k \in Node : DOMAIN opening'[k] = Node
        /\ \A k, l \in Node : opening'[k][l] = IF k = n /\ l = m THEN new ELSE opening[k][l]
    BY <1>1 DEF Traced, OpeningOK
  <2>2. ASSUME NEW k \in Node, NEW l \in Node, opening'[k][l] # NoOpen
        PROVE  \E b \in Call : /\ OfCall(b, opening'[k][l].id, call)
                               /\ OpenOf(k, l, opening'[k][l], call[b])
    <3>1. CASE k = n /\ l = m
      <4>1. opening'[k][l] = new
        BY <2>1, <3>1
      <4> QED
        BY <1>2, <1>4, <3>1, <4>1
    <3>2. CASE ~(k = n /\ l = m)
      <4>1. opening'[k][l] = opening[k][l]
        BY <2>1, <3>2
      <4> QED
        BY <2>2, <4>1 DEF Traced, OpeningOK
    <3> QED
      BY <3>1, <3>2
  <2> QED
    BY <2>1, <2>2 DEF OpeningOK
<1> QED
  BY <1>1, <1>3, <1>5, HandledTraced DEF Traced

\* The OPEN that a relay has checked.
LEMMA OpeningIs ==
  ASSUME Traced, NEW n \in Node, NEW m \in Node, opening[n][m] # NoOpen
  PROVE  \E d \in Call : OfCall(d, opening[n][m].id, call) /\ OpenOf(n, m, opening[n][m], call[d])
  BY DEF Traced, OpeningOK

LEMMA StoreCircuitTraced ==
  ASSUME Traced, NEW n \in Node, NEW m \in Node, StoreCircuit(n, m), UNCHANGED callVars
  PROVE  Traced'
<1> DEFINE o == opening[n][m]
           c == [id |-> o.id, initiator |-> m, target |-> o.target]
<1>1. /\ o # NoOpen /\ UNCHANGED <<ends, pending, counter, peers, listener, inbox>>
      /\ circuits' = [circuits EXCEPT ![n] = Without(@, o.id) \cup {c}]
      /\ opening' = [opening EXCEPT ![n][m] = NoOpen]
      /\ wire' = Sent(wire, n, o.target, Forward(o.id, m))
  BY DEF StoreCircuit
<1>2. PICK d \in Call : OfCall(d, o.id, call) /\ OpenOf(n, m, o, call[d])
  BY <1>1, OpeningIs
<1>3. o.id \in Nat
  BY <1>2, CallIs
<1>4. WireOK(wire', call, replied)
  <2>1. Forward(o.id, m) \in Messages(n, o.target, call, replied)
    BY <1>2, <1>3 DEF Forward, Messages, Message, Fits, OpenOf
  <2> QED
    BY <1>1, <2>1, SentOK DEF Traced
<1>5. CircuitsOK(circuits', call)
  <2>1. /\ DOMAIN circuits' = Node
        /\ \A k \in Node : \A e \in circuits'[k] : e \in circuits[k] \/ (k = n /\ e = c)
    BY <1>1 DEF Traced, CircuitsOK, Without
  <2>2. c.id = o.id /\ CircuitOf(n, c, call[d])
    BY <1>2 DEF CircuitOf, OpenOf
  <2> HIDE DEF c
  <2>3. ASSUME NEW k \in Node, NEW e \in circuits'[k]
        PROVE  \E b \in Call : OfCall(b, e.id, call) /\ CircuitOf(k, e, call[b])
    <3>1. CASE e \in circuits[k]
      BY <3>1 DEF Traced, CircuitsOK
    <3>2. CASE k = n /\ e = c
      BY <1>2, <2>2, <3>2
    <3> QED
      BY <2>1, <3>1, <3>2
  <2> QED
    BY <2>1, <2>3 DEF CircuitsOK
<1>6. OpeningOK(opening', call)
  <2>1. /\ DOMAIN opening' = Node /\ \A k \in Node : DOMAIN opening'[k] = Node
        /\ \A k, l \in Node : opening'[k][l] = NoOpen \/ opening'[k][l] = opening[k][l]
    BY <1>1 DEF Traced, OpeningOK
  <2>2. ASSUME NEW k \in Node, NEW l \in Node, opening'[k][l] # NoOpen
        PROVE  \E b \in Call : /\ OfCall(b, opening'[k][l].id, call)
                               /\ OpenOf(k, l, opening'[k][l], call[b])
    <3>1. opening'[k][l] = opening[k][l]
      BY <2>1, <2>2
    <3> QED
      BY <2>2, <3>1, OpeningIs
  <2> QED
    BY <2>1, <2>2 DEF OpeningOK
<1> QED
  BY <1>1, <1>4, <1>5, <1>6, HandledTraced DEF Traced

LEMMA EndAdded ==
  ASSUME EndsOK(ends, call), NEW n \in Node, NEW e, NEW d \in Call, OfCall(d, e.id, call),
         EndOf(n, e, call[d]), NEW old \in SUBSET ends[n]
  PROVE  EndsOK([ends EXCEPT ![n] = old \cup {e}], call)
<1> DEFINE new == [ends EXCEPT ![n] = old \cup {e}]
<1>1. DOMAIN new = Node /\ \A k \in Node : \A x \in new[k] : x \in ends[k] \/ (k = n /\ x = e)
  BY DEF EndsOK
<1> HIDE DEF new
<1>2. ASSUME NEW k \in Node, NEW x \in new[k]
      PROVE  \E b \in Call : OfCall(b, x.id, call) /\ EndOf(k, x, call[b])
  <2>1. CASE x \in ends[k]
    BY <2>1 DEF EndsOK
  <2>2. CASE k = n /\ x = e
    BY <2>2
  <2> QED
    BY <1>1, <2>1, <2>2
<1>3. EndsOK(new, call)
  BY <1>1, <1>2 DEF EndsOK
<1> QED
  BY <1>3 DEF new

\* Tables only lose what is about one number.
LEMMA WithoutOK ==
  ASSUME Traced, NEW n \in Node, NEW id
  PROVE  /\ EndsOK([ends EXCEPT ![n] = Without(@, id)], call)
         /\ PendingOK([pending EXCEPT ![n] = Without(@, id)], call)
         /\ CircuitsOK([circuits EXCEPT ![n] = Without(@, id)], call)
  BY DEF Traced, EndsOK, PendingOK, CircuitsOK, Without

\* A node that relays a circuit, or is an end of it, is so for the call whose
\* number the circuit has.
LEMMA CircuitIs ==
  ASSUME Traced, NEW n \in Node, NEW d \in Call, NEW id, OfCall(d, id, call),
         n \in Between(call[d]),
         id \in Ids(circuits[n])
  PROVE  /\ n = call[d].relay
         /\ With(circuits[n], id).initiator = call[d].node
         /\ With(circuits[n], id).target = call[d].target
<1> DEFINE e == With(circuits[n], id)
<1>1. e \in circuits[n] /\ e.id = id
  BY WithIn
<1>2. PICK b \in Call : OfCall(b, id, call) /\ CircuitOf(n, e, call[b])
  BY <1>1 DEF Traced, CircuitsOK
<1>3. b = d
  BY <1>2, SameCall DEF CircuitOf, Between
<1> QED
  BY <1>2, <1>3 DEF CircuitOf

LEMMA EndIs ==
  ASSUME Traced, NEW n \in Node, NEW d \in Call, NEW id, OfCall(d, id, call),
         n \in Between(call[d]),
         id \in Ids(ends[n])
  PROVE  n \in {call[d].node, call[d].target} /\ With(ends[n], id).relay = call[d].relay
<1> DEFINE e == With(ends[n], id)
<1>1. e \in ends[n] /\ e.id = id
  BY WithIn
<1>2. PICK b \in Call : OfCall(b, id, call) /\ EndOf(n, e, call[b])
  BY <1>1 DEF Traced, EndsOK
<1>3. b = d
  BY <1>2, SameCall DEF EndOf, Between
<1> QED
  BY <1>2, <1>3 DEF EndOf

LEMMA PendingIs ==
  ASSUME Traced, NEW n \in Node, NEW d \in Call, NEW id, OfCall(d, id, call),
         n \in Between(call[d]),
         id \in Ids(pending[n])
  PROVE  n = call[d].node
<1>1. PICK e \in pending[n] : e.id = id
  BY DEF Ids
<1>2. PICK b \in Call : OfCall(b, id, call) /\ n = call[b].node
  BY <1>1 DEF Traced, PendingOK
<1>3. b = d
  BY <1>2, SameCall DEF Between
<1> QED
  BY <1>2, <1>3

\* The links of a call.
LEMMA FitsLink ==
  ASSUME NEW w \in Message, NEW x, NEW y, NEW d, NEW r, NEW done, Fits(w, x, y, d, r, done)
  PROVE  Out(x, y, r) \/ Back(x, y, r)
  BY DEF Fits, Message, Out, Back, Payloads

LEMMA TakenFits ==
  ASSUME Traced, NEW n \in Node, NEW m \in Node, NEW type, Comes(n, m, type)
  PROVE  LET w == Head(wire[m][n]) IN
         \E d \in Call : /\ OfCall(d, w.id, call) /\ Fits(w, m, n, d, call[d], replied)
                         /\ n \in Between(call[d]) /\ m \in Between(call[d])
<1>1. PICK d \in Call : /\ OfCall(d, Head(wire[m][n]).id, call)
                        /\ Fits(Head(wire[m][n]), m, n, d, call[d], replied)
  BY ComesFrom
<1>2. Out(m, n, call[d]) \/ Back(m, n, call[d])
  BY <1>1, ComesFrom, FitsLink
<1> QED
  BY <1>1, <1>2 DEF Out, Back, Between

\* An event that carries no data says nothing of its call.
LEMMA PlainEvent ==
  ASSUME NEW n, NEW type \in {"opened", "closed"}, NEW id \in Nat
  PROVE  [type |-> type, id |-> id] \in Heard(n, call, replied)
  BY DEF Heard, Told

LEMMA TakeForwardTraced ==
  ASSUME Traced, NEW n \in Node, NEW m \in Node, TakeForward(n, m), UNCHANGED callVars
  PROVE  Traced'
<1> DEFINE f == Head(wire[m][n])
           e == [id |-> f.id, relay |-> m, remote |-> f.initiator, role |-> "target"]
<1>1. /\ Comes(n, m, "forward")
      /\ UNCHANGED <<circuits, pending, counter, opening, peers, listener>>
      /\ ends' = [ends EXCEPT ![n] = Without(ends[n], f.id) \cup {e}]
      /\ inbox' = Fired(n, [type |-> "opened", id |-> f.id])
      /\ wire' = Sent(Taken(n, m), n, m, Accept(f.id))
  BY DEF TakeForward
<1>2. f.id \in Nat /\ f.type = "forward" /\ WireOK(Taken(n, m), call, replied)
  BY <1>1, ComesFrom
<1>3. PICK d \in Call : OfCall(d, f.id, call) /\ Fits(f, m, n, d, call[d], replied)
  BY <1>1, ComesFrom
<1>4. m = call[d].relay /\ n = call[d].target
  BY <1>2, <1>3 DEF Fits
<1>5. WireOK(wire', call, replied)
  <2>1. Accept(f.id) \in Messages(n, m, call, replied)
    BY <1>2, <1>3, <1>4, AcceptFits DEF Back
  <2> QED
    BY <1>1, <1>2, <2>1, SentOK
<1>6. InboxOK(inbox', call, replied)
  BY <1>1, <1>2, PlainEvent, FiredOK DEF Traced
<1>7. EndsOK(ends', call)
  <2>1. e.id = f.id /\ EndOf(n, e, call[d]) /\ Without(ends[n], f.id) \in SUBSET ends[n]
    BY <1>4 DEF EndOf, Without
  <2> HIDE DEF e
  <2> QED
    BY <1>1, <1>3, <2>1, EndAdded DEF Traced
<1> QED
  BY <1>1, <1>5, <1>6, <1>7, HandledTraced DEF Traced

LEMMA TakeAcceptTraced ==
  ASSUME Traced, NEW n \in Node, NEW m \in Node, TakeAccept(n, m), UNCHANGED callVars
  PROVE  Traced'
<1> DEFINE id == Head(wire[m][n]).id
           e == [id |-> id, relay |-> m, remote |-> With(pending[n], id).target,
                 role |-> "initiator"]
<1>1. Comes(n, m, "accept") /\ UNCHANGED <<circuits, counter, opening, peers, listener>>
  BY DEF TakeAccept
<1>2. id \in Nat /\ Head(wire[m][n]).type = "accept" /\ WireOK(Taken(n, m), call, replied)
  BY <1>1, ComesFrom
<1>3. PICK d \in Call : /\ OfCall(d, id, call) /\ n \in Between(call[d])
                        /\ Fits(Head(wire[m][n]), m, n, d, call[d], replied)
  BY <1>1, TakenFits
<1>4. Back(m, n, call[d])
  BY <1>2, <1>3 DEF Fits
<1>5. CASE id \in Ids(circuits[n])
  <2> DEFINE k == With(circuits[n], id).initiator
  <2>1. wire' = Sent(Taken(n, m), n, k, Accept(id)) /\ UNCHANGED <<ends, pending, inbox>>
    BY <1>5 DEF TakeAccept
  <2>2. n = call[d].relay /\ k = call[d].node
    BY <1>3, <1>5, CircuitIs
  <2>3. Accept(id) \in Messages(n, k, call, replied)
    BY <1>2, <1>3, <2>2, AcceptFits DEF Back
  <2>4. WireOK(wire', call, replied)
    BY <1>2, <2>1, <2>3, SentOK
  <2> QED
    BY <1>1, <2>1, <2>4, HandledTraced DEF Traced
<1>6. CASE id \notin Ids(circuits[n]) /\ id \notin Ids(pending[n])
  <2>1. wire' = Taken(n, m) /\ UNCHANGED <<ends, pending, inbox>>
    BY <1>6 DEF TakeAccept
  <2> QED
    BY <1>1, <1>2, <2>1, HandledTraced DEF Traced
<1>7. CASE id \notin Ids(circuits[n]) /\ id \in Ids(pending[n])
  <2>1. /\ wire' = Taken(n, m)
        /\ pending' = [pending EXCEPT ![n] = Without(@, id)]
        /\ ends' = [ends EXCEPT ![n] = Without(ends[n], id) \cup {e}]
        /\ inbox' = Fired(n, [type |-> "opened", id |-> id])
    BY <1>7 DEF TakeAccept
  <2>2. InboxOK(inbox', call, replied)
    BY <1>2, <2>1, PlainEvent, FiredOK DEF Traced
  <2>3. n = call[d].node /\ m = call[d].relay
    BY <1>3, <1>4, <1>7, PendingIs, CallIs DEF Back
  <2>4. EndsOK(ends', call)
    <3>1. e.id = id /\ EndOf(n, e, call[d]) /\ Without(ends[n], id) \in SUBSET ends[n]
      BY <2>3 DEF EndOf, Without
    <3> HIDE DEF e
    <3> QED
      BY <1>3, <2>1, <3>1, EndAdded DEF Traced
  <2>5. PendingOK(pending', call)
    BY <2>1, WithoutOK
  <2> QED
    BY <1>1, <1>2, <2>1, <2>2, <2>4, <2>5, HandledTraced DEF Traced
<1> QED
  BY <1>5, <1>6, <1>7

\* What a relay passes on: it goes the way it came.
LEMMA PassedOn ==
  ASSUME Traced, NEW n \in Node, NEW m, NEW d \in Call, NEW id, OfCall(d, id, call),
         n \in Between(call[d]), id \in Ids(circuits[n]),
         NEW k \in OtherEnd(With(circuits[n], id), m)
  PROVE  /\ Out(m, n, call[d]) => Out(n, k, call[d])
         /\ Back(m, n, call[d]) => Back(n, k, call[d])
         /\ k \in Node
<1> DEFINE e == With(circuits[n], id)
<1>1. n = call[d].relay /\ e.initiator = call[d].node /\ e.target = call[d].target
  BY CircuitIs
<1>2. /\ call[d].node \in Node /\ call[d].target \in Node
      /\ call[d].node # call[d].relay /\ call[d].node # call[d].target
      /\ call[d].relay # call[d].target
  BY CallIs
<1>3. k \in OtherEnd(e, m)
  OBVIOUS
<1> HIDE DEF e
<1>4. \/ m = e.initiator /\ k = e.target
      \/ m = e.target /\ k = e.initiator
  BY <1>3 DEF OtherEnd
<1> QED
  BY <1>1, <1>2, <1>4 DEF Out, Back

\* A message that is not passed on has reached its end.
LEMMA Arrived ==
  ASSUME Traced, NEW n \in Node, NEW m, NEW d \in Call, NEW id, OfCall(d, id, call),
         n \in Between(call[d]), id \in Ids(ends[n])
  PROVE  /\ Out(m, n, call[d]) => n = call[d].target
         /\ Back(m, n, call[d]) => n = call[d].node
  BY EndIs, CallIs DEF Out, Back

LEMMA TakeDataTraced ==
  ASSUME Traced, NEW n \in Node, NEW m \in Node, TakeData(n, m), UNCHANGED callVars, ~disturbed'
  PROVE  Traced'
<1> DEFINE w == Head(wire[m][n])
<1>1. /\ Comes(n, m, "data") /\ UNCHANGED <<ends, pending, counter, opening, peers, listener>>
  BY DEF TakeData
<1>2. /\ w \in Message /\ w.type = "data" /\ w.id \in Nat
      /\ WireOK(Taken(n, m), call, replied)
  BY <1>1, ComesFrom
<1>3. PICK d \in Call : /\ OfCall(d, w.id, call) /\ n \in Between(call[d])
                        /\ Fits(w, m, n, d, call[d], replied)
  BY <1>1, TakenFits
<1>4. /\ w.payload \in Payloads /\ w = Data(w.id, w.payload)
      /\ Asked(call[d]) /\ Genuine(w.payload, d, replied)
      /\ w.payload.kind = "request" => Out(m, n, call[d])
      /\ w.payload.kind = "exchange" => Back(m, n, call[d])
  BY <1>2, <1>3 DEF Message, Data, Fits
<1>5. CASE w.id \in Ids(circuits[n])
  <2> DEFINE to == OtherEnd(With(circuits[n], w.id), m)
  <2>1. wire' = SentTo(Taken(n, m), n, to, w) /\ UNCHANGED <<circuits, inbox>>
    BY <1>5 DEF TakeData
  <2>2. ASSUME NEW k \in to PROVE w \in Messages(n, k, call, replied)
    <3>1. /\ w.payload.kind = "request" => Out(n, k, call[d])
          /\ w.payload.kind = "exchange" => Back(n, k, call[d])
      BY <1>3, <1>4, <1>5, PassedOn
    <3> QED
      BY <1>2, <1>3, <1>4, <3>1, DataFits
  <2>3. WireOK(wire', call, replied)
    BY <1>2, <2>1, <2>2, SentToOK
  <2> QED
    BY <1>1, <2>1, <2>3, HandledTraced DEF Traced
<1>6. CASE w.id \notin Ids(circuits[n]) /\ w.id \notin Ids(ends[n])
  <2>1. wire' = Taken(n, m) /\ UNCHANGED <<circuits, inbox>>
    BY <1>6 DEF TakeData
  <2> QED
    BY <1>1, <1>2, <2>1, HandledTraced DEF Traced
<1>7. CASE w.id \notin Ids(circuits[n]) /\ w.id \in Ids(ends[n])
  <2> DEFINE e == [type |-> "data", id |-> w.id, payload |-> w.payload]
  <2>1. wire' = Taken(n, m) /\ inbox' = Fired(n, e) /\ UNCHANGED circuits
    BY <1>7 DEF TakeData
  <2>2. Home(n, call) = n
    BY CallAssumption DEF Home
  <2>3. Suits(e, n, d, call, replied)
    BY <1>3, <1>4, <1>7, <2>2, Arrived DEF Suits
  <2>4. e \in Heard(n, call, replied)
    BY <1>2, <1>3, <1>4, <2>3 DEF Heard, Told
  <2>5. InboxOK(inbox', call, replied)
    BY <2>1, <2>4, FiredOK DEF Traced
  <2> QED
    BY <1>1, <1>2, <2>1, <2>5, HandledTraced DEF Traced
<1> QED
  BY <1>5, <1>6, <1>7

LEMMA TakeCloseTraced ==
  ASSUME Traced, NEW n \in Node, NEW m \in Node, TakeClose(n, m), UNCHANGED callVars
  PROVE  Traced'
<1> DEFINE id == Head(wire[m][n]).id
<1>1. Comes(n, m, "close") /\ UNCHANGED <<pending, counter, opening, peers, listener>>
  BY DEF TakeClose
<1>2. id \in Nat /\ Head(wire[m][n]).type = "close" /\ WireOK(Taken(n, m), call, replied)
  BY <1>1, ComesFrom
<1>3. PICK d \in Call : /\ OfCall(d, id, call) /\ n \in Between(call[d])
                        /\ Fits(Head(wire[m][n]), m, n, d, call[d], replied)
  BY <1>1, TakenFits
<1>4. Asked(call[d]) /\ (Back(m, n, call[d]) \/ (Past(call[d]) /\ Out(m, n, call[d])))
  BY <1>2, <1>3 DEF Fits
<1>5. CASE id \in Ids(circuits[n])
  <2> DEFINE to == OtherEnd(With(circuits[n], id), m)
  <2>1. /\ wire' = SentTo(Taken(n, m), n, to, Close(id)) /\ UNCHANGED <<ends, inbox>>
        /\ circuits' = [circuits EXCEPT ![n] = Without(@, id)]
    BY <1>5 DEF TakeClose
  <2>2. ASSUME NEW k \in to PROVE Close(id) \in Messages(n, k, call, replied)
    <3>1. Back(n, k, call[d]) \/ (Past(call[d]) /\ Out(n, k, call[d]))
      BY <1>3, <1>4, <1>5, PassedOn
    <3> QED
      BY <1>2, <1>3, <1>4, <3>1, CloseFits
  <2>3. WireOK(wire', call, replied)
    BY <1>2, <2>1, <2>2, SentToOK
  <2>4. CircuitsOK(circuits', call)
    BY <2>1, WithoutOK
  <2> QED
    BY <1>1, <2>1, <2>3, <2>4, HandledTraced DEF Traced
<1>6. CASE id \notin Ids(circuits[n])
  <2> DEFINE e == [type |-> "closed", id |-> id]
  <2>1. /\ wire' = Taken(n, m) /\ (inbox' = inbox \/ inbox' = Fired(n, e)) /\ UNCHANGED circuits
        /\ ends' = [ends EXCEPT ![n] = Without(@, id)]
    BY <1>6 DEF TakeClose
  <2>2. e \in Heard(n, call, replied)
    BY <1>2, PlainEvent
  <2>3. InboxOK(inbox', call, replied)
    BY <2>1, <2>2, FiredOK DEF Traced
  <2>4. EndsOK(ends', call)
    BY <2>1, WithoutOK
  <2> QED
    BY <1>1, <1>2, <2>1, <2>3, <2>4, HandledTraced DEF Traced
<1> QED
  BY <1>5, <1>6

--------------------------------------------------------------------------------
(* Calls and tasks.                                                           *)

LEMMA CallItself ==
  ASSUME Traced, NEW c \in Call, call[c].stage # "none"
  PROVE  /\ OfCall(c, call[c].id, call) /\ call[c].id \in Nat \ {0}
         /\ call[c].node \in Node /\ call[c].node \in Between(call[c])
<1>1. OfCall(c, call[c].id, call)
  BY DEF OfCall
<1> QED
  BY <1>1, CallIs

LEMMA SendDataOK ==
  ASSUME Traced, NEW cs, NEW done, Kept(call, replied, cs, done), NEW n \in Node, NEW d \in Call,
         NEW id \in Nat, OfCall(d, id, call), id \in Ids(ends[n]), Asked(cs[d]),
         NEW p \in Payloads, Genuine(p, d, done),
         n = IF p.kind = "request" THEN call[d].node ELSE call[d].target
  PROVE  WireOK(Sent(wire, n, With(ends[n], id).relay, Data(id, p)), cs, done)
<1> DEFINE k == With(ends[n], id).relay
<1>1. k = call[d].relay /\ n \in Between(call[d])
  BY EndIs DEF Between
<1>2. p.kind \in {"request", "exchange"}
  BY DEF Payloads
<1>3. /\ p.kind = "request" => Out(n, k, cs[d])
      /\ p.kind = "exchange" => Back(n, k, cs[d])
  BY <1>1, KeptCall DEF Out, Back
<1>4. OfCall(d, id, cs)
  BY KeptCall
<1>5. Data(id, p) \in Messages(n, k, cs, done)
  BY <1>3, <1>4, DataFits
<1>6. WireOK(wire, cs, done)
  BY KeptWire DEF Traced
<1> QED
  BY <1>5, <1>6, SentOK

LEMMA CloseEndOK ==
  ASSUME Traced, NEW cs, Kept(call, replied, cs, replied), NEW n \in Node, NEW d \in Call, NEW id,
         OfCall(d, id, call), CloseEnd(n, id), Asked(cs[d]),
         n = call[d].target \/ (n = call[d].node /\ Past(cs[d]))
  PROVE  /\ WireOK(wire', cs, replied) /\ EndsOK(ends', call) /\ PendingOK(pending', call)
         /\ UNCHANGED <<circuits, counter, opening, peers, listener>>
<1>1. WireOK(wire, cs, replied)
  BY KeptWire DEF Traced
<1>2. CASE id \in Ids(ends[n])
  <2> DEFINE k == With(ends[n], id).relay
  <2>1. /\ ends' = [ends EXCEPT ![n] = Without(@, id)]
        /\ pending' = [pending EXCEPT ![n] = Without(@, id)]
        /\ wire' = Sent(wire, n, k, Close(id))
        /\ UNCHANGED <<circuits, counter, opening, peers, listener>>
    BY <1>2 DEF CloseEnd
  <2>2. k = call[d].relay
    BY <1>2, EndIs DEF Between
  <2>3. Back(n, k, cs[d]) \/ (Past(cs[d]) /\ Out(n, k, cs[d]))
    BY <2>2, KeptCall DEF Out, Back
  <2>4. OfCall(d, id, cs) /\ id \in Nat
    BY KeptCall, CallIs
  <2>5. Close(id) \in Messages(n, k, cs, replied)
    BY <2>3, <2>4, CloseFits
  <2>6. WireOK(wire', cs, replied)
    BY <1>1, <2>1, <2>5, SentOK
  <2> QED
    BY <2>1, <2>6, WithoutOK
<1>3. CASE id \notin Ids(ends[n])
  BY <1>1, <1>3 DEF CloseEnd, Traced, circuitVars
<1> QED
  BY <1>2, <1>3

\* A call that has begun gets to another stage, and not back to an earlier one.
Later(r, s) ==
  /\ s \in Stages \ {"none"} /\ (Asked(r) => s # "opening")
  /\ (Past(r) => s \notin {"opening", "asking"}) /\ (s \in Live => r.stage \in Live)

LEMMA MovedCall ==
  ASSUME Traced, NEW c \in Call, call[c].stage # "none", NEW s, Later(call[c], s),
         s = "punching" => c \in replied,
         call' = [call EXCEPT ![c].stage = s], UNCHANGED <<replied, listener>>
  PROVE  /\ Kept(call, replied, call', replied') /\ CallsOK(call', replied') /\ Unique(call')
         /\ HearsOK(listener', call') /\ call'[c].stage = s
<1>1. call \in CallType
  BY DEF Traced, CallsOK
<1>2. \A d \in Call :
        /\ call'[d].node = call[d].node /\ call'[d].relay = call[d].relay
        /\ call'[d].target = call[d].target /\ call'[d].id = call[d].id
        /\ call'[d].stage = IF d = c THEN s ELSE call[d].stage
  BY <1>1 DEF CallType
<1>3. Kept(call, replied, call', replied')
  BY <1>2 DEF Kept, Later, Asked, Past
<1>4. call' \in CallType
  BY <1>1 DEF CallType, Later
<1>5. CallsOK(call', replied')
  <2>1. \A d \in Call : call'[d].stage # "none" => call[d].stage # "none"
    BY <1>2
  <2>2. \A d \in Call : Distinct(call[d]) => Distinct(call'[d])
    BY <1>2 DEF Distinct, Between
  <2>3. \A d \in Call : call'[d].stage = "punching" => d \in replied'
    BY <1>2 DEF Traced, CallsOK
  <2> QED
    BY <1>4, <2>1, <2>2, <2>3 DEF Traced, CallsOK
<1>6. ASSUME NEW b \in Call, NEW d \in Call, NEW id, NEW x,
             Owns(b, id, {x}, call'), Owns(d, id, {x}, call')
      PROVE  b = d
  <2>1. Owns(b, id, {x}, call) /\ Owns(d, id, {x}, call)
    BY <1>2, <1>6 DEF Owns, OfCall, Between
  <2> QED
    BY <2>1 DEF Traced, Unique
<1>7. Unique(call')
  BY <1>6 DEF Unique
<1>8. HearsOK(listener', call')
  BY <1>2 DEF Traced, HearsOK, Later
<1> QED
  BY <1>2, <1>3, <1>5, <1>7, <1>8

LEMMA MovedTraced ==
  ASSUME Traced, NEW c \in Call, call[c].stage # "none", NEW s, Later(call[c], s),
         s = "punching" => c \in replied,
         call' = [call EXCEPT ![c].stage = s],
         WireOK(wire', call', replied), InboxOK(inbox', call, replied),
         EndsOK(ends', call), PendingOK(pending', call),
         UNCHANGED <<circuits, counter, opening, peers, listener, tasks, replied>>
  PROVE  Traced'
<1>1. /\ Kept(call, replied, call', replied') /\ CallsOK(call', replied') /\ Unique(call')
      /\ HearsOK(listener', call')
  BY MovedCall
<1>2. InboxOK(inbox', call', replied')
  BY <1>1, KeptInbox
<1>3. /\ ListenOK(listener', call') /\ EndsOK(ends', call') /\ PendingOK(pending', call')
      /\ CircuitsOK(circuits', call') /\ OpeningOK(opening', call') /\ TasksOK(tasks', call')
  BY <1>1, KeptTables DEF Traced
<1>4. CounterOK(counter', peers')
  BY DEF Traced
<1> QED
  BY <1>1, <1>2, <1>3, <1>4 DEF Traced

LEMMA DropOK ==
  ASSUME NEW cs, NEW done, InboxOK(inbox, cs, done), NEW c \in Call
  PROVE  InboxOK([k \in DOMAIN inbox \ {c} |-> inbox[k]], cs, done)
  BY CallAssumption DEF InboxOK

\* A call ends and leaves the handler as it is.
LEMMA EndsCallTraced ==
  ASSUME Traced, NEW c \in Call, call[c].stage # "none",
         NEW s \in {"done", "failed", "cancelled"}, EndsCall(c, s),
         UNCHANGED <<circuitVars, wire, peers, listener, tasks, replied>>
  PROVE  Traced'
<1>1. /\ call' = [call EXCEPT ![c].stage = s]
      /\ inbox' = [k \in DOMAIN inbox \ {c} |-> inbox[k]]
      /\ UNCHANGED <<circuits, counter, opening, ends, pending>>
  BY DEF EndsCall, circuitVars
<1>2. InboxOK(inbox', call, replied)
  BY <1>1, DropOK DEF Traced
<1>3. Later(call[c], s)
  BY DEF Later, Stages, Live
<1>4. Kept(call, replied, call', replied)
  BY <1>1, <1>3, MovedCall
<1>5. WireOK(wire', call', replied)
  BY <1>4, KeptWire DEF Traced
<1> QED
  BY <1>1, <1>2, <1>3, <1>5, MovedTraced DEF Traced

LEMMA OpenedTraced == ASSUME Traced, NEW c \in Call, Opened(c) PROVE Traced'
<1> DEFINE n == call[c].node  id == call[c].id
<1>1. call[c].stage = "opening" /\ c \in DOMAIN inbox /\ inbox[c] # <<>>
  BY DEF Opened, Event
<1>2. OfCall(c, id, call) /\ id \in Nat /\ n \in Node
  BY <1>1, CallItself
<1>3. CASE id \in Ids(ends[n])
  <2> DEFINE p == Payload("request", c)
  <2>1. /\ SendData(n, id, p) /\ Stage(c, "asking") /\ inbox' = Rest(c)
        /\ UNCHANGED <<tasks, replied>>
    BY <1>3 DEF Opened
  <2>2. p \in Payloads /\ Genuine(p, c, replied) /\ p.kind = "request"
    BY DEF Payload, Payloads, Genuine
  <2>3. wire' = Sent(wire, n, With(ends[n], id).relay, Data(id, p))
    BY <2>1 DEF SendData
  <2>4. /\ call' = [call EXCEPT ![c].stage = "asking"]
        /\ UNCHANGED <<circuits, counter, opening, peers, listener, tasks, replied>>
        /\ ends' = ends /\ pending' = pending
    BY <2>1 DEF SendData, Stage, circuitVars
  <2>5. Later(call[c], "asking")
    BY <1>1 DEF Later, Stages, Live, Asked, Past
  <2>6. Kept(call, replied, call', replied) /\ call'[c].stage = "asking"
    BY <1>1, <2>4, <2>5, MovedCall
  <2>7. Asked(call'[c])
    BY <2>6 DEF Asked
  <2> HIDE DEF p
  <2>8. WireOK(wire', call', replied)
    BY <1>2, <1>3, <2>2, <2>3, <2>6, <2>7, SendDataOK
  <2>9. InboxOK(inbox', call, replied)
    BY <1>1, <2>1, RestOK DEF Traced
  <2>10. EndsOK(ends', call) /\ PendingOK(pending', call)
    BY <2>4 DEF Traced
  <2> QED
    BY <1>1, <2>4, <2>5, <2>8, <2>9, <2>10, MovedTraced
<1>4. CASE id \notin Ids(ends[n])
  <2>1. EndsCall(c, "failed") /\ UNCHANGED <<handlerVars, tasks, replied>>
    BY <1>4 DEF Opened
  <2> QED
    BY <1>1, <2>1, EndsCallTraced DEF handlerVars
<1> QED
  BY <1>3, <1>4

\* What a call is told as data of its own circuit, it was sent by its target.
LEMMA OwnExchange ==
  ASSUME Traced, NEW c \in Call, call[c].stage # "none", Event(c, "data")
  PROVE  Head(inbox[c]).payload.kind = "exchange" /\ c \in replied
<1> DEFINE e == Head(inbox[c])
<1>1. c \in DOMAIN inbox /\ inbox[c] # <<>> /\ e.type = "data" /\ e.id = call[c].id
  BY DEF Event
<1>2. e \in Heard(c, call, replied)
  BY <1>1, RestOK DEF Traced
<1>3. PICK d \in Call : OfCall(d, e.id, call) /\ Suits(e, c, d, call, replied)
  BY <1>1, <1>2 DEF Heard
<1>4. OfCall(c, e.id, call) /\ call[c].node \in Between(call[c])
  BY <1>1, CallItself
<1>5. e.payload \in Payloads
  BY <1>1, <1>2 DEF Heard, Told
<1>6. call[c].node \in {call[d].node, call[d].target}
  BY <1>3, <1>5 DEF Suits, Home, Payloads
<1>7. c = d
  BY <1>3, <1>4, <1>6, SameCall DEF Between
<1>8. call[c].node # call[c].target
  BY <1>4, CallIs
<1> QED
  BY <1>3, <1>5, <1>7, <1>8 DEF Suits, Home, Genuine, Payloads

LEMMA GotExchangeTraced == ASSUME Traced, NEW c \in Call, GotExchange(c) PROVE Traced'
<1>1. /\ call[c].stage = "asking" /\ Event(c, "data") /\ c \in DOMAIN inbox /\ inbox[c] # <<>>
      /\ UNCHANGED <<tasks, replied>>
  BY DEF GotExchange, Event
<1>2. Head(inbox[c]).payload.kind = "exchange" /\ c \in replied
  BY <1>1, OwnExchange
<1>3. /\ CloseEnd(call[c].node, call[c].id) /\ inbox' = Rest(c)
      /\ call' = [call EXCEPT ![c].stage = "punching"]
  BY <1>2 DEF GotExchange, Stage
<1>4. Later(call[c], "punching")
  BY <1>1 DEF Later, Stages, Live
<1>5. listener' = listener
  BY <1>3 DEF CloseEnd
<1>6. Kept(call, replied, call', replied) /\ call'[c].stage = "punching"
  BY <1>1, <1>2, <1>3, <1>4, <1>5, MovedCall
<1>7. /\ WireOK(wire', call', replied) /\ EndsOK(ends', call) /\ PendingOK(pending', call)
      /\ UNCHANGED <<circuits, counter, opening, peers, listener>>
  <2>1. OfCall(c, call[c].id, call) /\ call[c].node \in Node
    BY <1>1, CallItself
  <2>2. Asked(call'[c]) /\ Past(call'[c])
    BY <1>6 DEF Asked, Past
  <2> QED
    BY <1>3, <1>6, <2>1, <2>2, CloseEndOK
<1>8. InboxOK(inbox', call, replied)
  BY <1>1, <1>3, RestOK DEF Traced
<1> QED
  BY <1>1, <1>2, <1>3, <1>4, <1>7, <1>8, MovedTraced

LEMMA CallStepTraced == ASSUME Traced, NEW c \in Call, CallStep(c) PROVE Traced'
<1>1. CASE Ignored(c)
  <2>1. /\ c \in DOMAIN inbox /\ inbox[c] # <<>> /\ inbox' = Rest(c)
        /\ UNCHANGED <<circuits, ends, pending, opening, counter, peers, wire, listener, callVars>>
    BY <1>1 DEF Ignored, handlerVars, circuitVars
  <2>2. InboxOK(inbox', call, replied)
    BY <2>1, RestOK DEF Traced
  <2> QED
    BY <2>1, <2>2, HandledTraced DEF Traced
<1>2. CASE Failed(c)
  <2>1. call[c].stage # "none" /\ EndsCall(c, "failed")
    BY <1>2 DEF Failed
  <2>2. UNCHANGED <<circuitVars, wire, peers, listener, tasks, replied>>
    BY <1>2 DEF Failed, handlerVars
  <2> QED
    BY <2>1, <2>2, EndsCallTraced
<1>3. CASE Punched(c)
  <2>1. call[c].stage # "none" /\ EndsCall(c, "done")
    BY <1>3 DEF Punched
  <2>2. UNCHANGED <<circuitVars, wire, peers, listener, tasks, replied>>
    BY <1>3 DEF Punched, handlerVars
  <2> QED
    BY <2>1, <2>2, EndsCallTraced
<1> QED
  BY <1>1, <1>2, <1>3, OpenedTraced, GotExchangeTraced DEF CallStep

\* Work on requests: calls stay as they are.
LEMMA WorkedTraced ==
  ASSUME Traced, call' = call, replied \subseteq replied',
         WireOK(wire', call, replied'), InboxOK(inbox', call, replied'), EndsOK(ends', call),
         PendingOK(pending', call), TasksOK(tasks', call),
         UNCHANGED <<circuits, counter, opening, peers, listener>>
  PROVE  Traced'
  BY DEF Traced, CallsOK

\* What the daemon of a node is told as a request, it is the target of.
LEMMA OwnRequest ==
  ASSUME Traced, NEW n \in Node, NEW e \in Heard(n, call, replied), e.type = "data",
         e.payload.kind = "request"
  PROVE  LET d == e.payload.call IN
         /\ d \in Call /\ OfCall(d, e.id, call) /\ n = call[d].target /\ Asked(call[d])
         /\ e.id \in Nat
<1>1. PICK d \in Call : OfCall(d, e.id, call) /\ Suits(e, n, d, call, replied)
  BY DEF Heard
<1>2. Home(n, call) = n
  BY CallAssumption DEF Home
<1>3. e.payload.call = d /\ Asked(call[d]) /\ n = call[d].target
  BY <1>1, <1>2 DEF Suits, Genuine
<1> QED
  BY <1>1, <1>3, CallIs

LEMMA DispatchTraced == ASSUME Traced, NEW n \in Node, Dispatch(n) PROVE Traced'
<1> DEFINE e == Head(inbox[n])
<1>1. /\ inbox[n] # <<>> /\ inbox' = Rest(n) /\ call' = call /\ replied' = replied
      /\ UNCHANGED <<circuits, ends, pending, opening, counter, peers, wire, listener>>
  BY DEF Dispatch, handlerVars, circuitVars
<1>2. InboxOK(inbox', call, replied) /\ e \in Heard(n, call, replied)
  BY <1>1, RestOK DEF Traced, InboxOK
<1>3. TasksOK(tasks', call)
  <2>1. CASE e.type = "data" /\ e.payload.kind = "request"
    <3> DEFINE t == [node |-> n, id |-> e.id, call |-> e.payload.call, stage |-> "gathering"]
    <3>1. tasks' = tasks \cup {t}
      BY <2>1 DEF Dispatch
    <3>2. /\ e.payload.call \in Call /\ OfCall(e.payload.call, e.id, call)
          /\ n = call[e.payload.call].target /\ Asked(call[e.payload.call]) /\ e.id \in Nat
      BY <1>2, <2>1, OwnRequest
    <3>3. /\ t \in Task /\ OfCall(t.call, t.id, call)
          /\ t.node = call[t.call].target /\ Asked(call[t.call])
      BY <3>2 DEF Task
    <3> HIDE DEF t
    <3> QED
      BY <3>1, <3>3 DEF Traced, TasksOK
  <2>2. CASE ~(e.type = "data" /\ e.payload.kind = "request")
    BY <2>2 DEF Dispatch, Traced
  <2> QED
    BY <2>1, <2>2
<1> QED
  BY <1>1, <1>2, <1>3, WorkedTraced DEF Traced

LEMMA TaskIs ==
  ASSUME Traced, NEW t \in tasks
  PROVE  /\ t \in Task /\ OfCall(t.call, t.id, call) /\ t.node = call[t.call].target
         /\ Asked(call[t.call]) /\ t.node \in Node /\ t.id \in Nat /\ t.call \in Call
  BY DEF Traced, TasksOK, Task

LEMMA TaskStepTraced == ASSUME Traced, NEW t \in tasks, TaskStep(t) PROVE Traced'
<1>1. /\ t \in Task /\ OfCall(t.call, t.id, call) /\ t.node = call[t.call].target
      /\ Asked(call[t.call]) /\ t.node \in Node /\ t.id \in Nat /\ t.call \in Call
  BY TaskIs
<1>2. ASSUME NEW s \in {"replied", "punching"}, Moved(t, s) PROVE TasksOK(tasks', call)
  <2> DEFINE u == [t EXCEPT !.stage = s]
  <2>1. tasks' = (tasks \ {t}) \cup {u}
    BY <1>2 DEF Moved
  <2>2. u \in Task /\ u.call = t.call /\ u.id = t.id /\ u.node = t.node
    BY <1>1 DEF Task
  <2> HIDE DEF u
  <2> QED
    BY <1>1, <2>1, <2>2 DEF Traced, TasksOK
<1>3. ASSUME EndsTask(t) PROVE TasksOK(tasks', call)
  BY <1>3 DEF EndsTask, Traced, TasksOK
<1>4. CASE Reply(t)
  <2>1. call' = call /\ inbox' = inbox
    BY <1>4 DEF Reply
  <2>2. CASE t.id \in Ids(ends[t.node])
    <3> DEFINE p == Payload("exchange", t.call)
    <3>1. /\ SendData(t.node, t.id, p) /\ Moved(t, "replied")
          /\ replied' = replied \cup {t.call}
      BY <1>4, <2>2 DEF Reply
    <3>2. p \in Payloads /\ Genuine(p, t.call, replied') /\ p.kind = "exchange"
      BY <1>1, <3>1 DEF Payload, Payloads, Genuine
    <3>3. Kept(call, replied, call, replied')
      BY <3>1 DEF Kept
    <3>4. wire' = Sent(wire, t.node, With(ends[t.node], t.id).relay, Data(t.id, p))
      BY <3>1 DEF SendData
    <3> HIDE DEF p
    <3>5. WireOK(wire', call, replied')
      BY <1>1, <2>2, <3>2, <3>3, <3>4, SendDataOK
    <3>6. InboxOK(inbox', call, replied')
      BY <2>1, <3>3, KeptInbox DEF Traced
    <3>7. /\ UNCHANGED <<circuits, counter, opening, peers, listener>>
          /\ ends' = ends /\ pending' = pending
      BY <3>1 DEF SendData, circuitVars
    <3>8. TasksOK(tasks', call)
      BY <1>2, <3>1
    <3> QED
      BY <2>1, <3>1, <3>5, <3>6, <3>7, <3>8, WorkedTraced DEF Traced
  <2>3. CASE t.id \notin Ids(ends[t.node])
    <3>1. EndsTask(t) /\ UNCHANGED <<handlerVars, replied>>
      BY <1>4, <2>3 DEF Reply
    <3> QED
      BY <1>3, <2>1, <3>1, WorkedTraced DEF Traced, handlerVars, circuitVars
  <2> QED
    BY <2>2, <2>3
<1>5. CASE CloseTask(t)
  <2>1. /\ CloseEnd(t.node, t.id) /\ Moved(t, "punching")
        /\ call' = call /\ replied' = replied /\ inbox' = inbox
    BY <1>5 DEF CloseTask
  <2>2. Kept(call, replied, call, replied)
    BY DEF Kept
  <2>3. /\ WireOK(wire', call, replied) /\ EndsOK(ends', call) /\ PendingOK(pending', call)
        /\ UNCHANGED <<circuits, counter, opening, peers, listener>>
    BY <1>1, <2>1, <2>2, CloseEndOK
  <2> QED
    BY <1>2, <2>1, <2>3, WorkedTraced DEF Traced
<1>6. CASE PunchedTask(t)
  BY <1>3, <1>6, WorkedTraced DEF PunchedTask, Traced, handlerVars, circuitVars
<1> QED
  BY <1>4, <1>5, <1>6 DEF TaskStep

\* A new call takes a number that no call through one of its nodes has.
LEMMA BeginTraced ==
  ASSUME Traced, NEW c \in Call, NEW n \in Node, NEW relay \in Node, NEW target \in Node,
         Begin(c, n, relay, target), ~disturbed'
  PROVE  Traced'
<1> DEFINE id == counter[n]
           new == [node |-> n, relay |-> relay, target |-> target, id |-> id, stage |-> "opening"]
           e == [id |-> id, target |-> target]
<1>1. /\ call[c].stage = "none" /\ call' = [call EXCEPT ![c] = new]
      /\ listener' = [listener EXCEPT ![n] = c]
      /\ inbox' = [k \in DOMAIN inbox \cup {c} |-> IF k = c THEN <<>> ELSE inbox[k]]
      /\ counter' = [counter EXCEPT ![n] = @ + 1]
      /\ pending' = [pending EXCEPT ![n] = @ \cup {e}]
      /\ wire' = Sent(wire, n, relay, Open(id, target))
      /\ UNCHANGED <<circuits, ends, opening, peers, tasks, replied>>
      /\ ~Numbered(id, {n, relay, target}) /\ ~Meets(n, target)
      /\ target # n /\ relay \in MutualRelay(n, target)
  BY DEF Begin
<1>2. id \in Nat \ {0} /\ call \in CallType
  BY DEF Traced, CounterOK, CallsOK
<1>3. /\ call'[c] = new /\ \A d \in Call : d # c => call'[d] = call[d]
      /\ call' \in CallType
  <2>1. new \in [node : Node \cup {0}, relay : Node \cup {0}, target : Node \cup {0},
                id : Nat, stage : Stages]
    BY <1>2 DEF Stages
  <2> QED
    BY <1>1, <1>2, <2>1 DEF CallType
<1>4. /\ new.node = n /\ new.relay = relay /\ new.target = target /\ new.id = id
      /\ new.stage = "opening" /\ Between(new) = {n, relay, target}
  BY DEF Between
<1> HIDE DEF new
<1>5. Kept(call, replied, call', replied')
  BY <1>1, <1>3 DEF Kept
<1>6. CallsOK(call', replied')
  <2>1. {n, relay} \in Session /\ relay # target
    BY <1>1 DEF MutualRelay, Traced, CounterOK
  <2>2. n # relay
    BY <2>1, RelayAssumption
  <2>3. Distinct(new)
    BY <1>1, <1>2, <1>4, <2>1, <2>2 DEF Distinct
  <2> QED
    BY <1>1, <1>3, <1>4, <2>3 DEF Traced, CallsOK
<1>7. ASSUME NEW d \in Call, d # c, NEW x, NEW i, Owns(d, i, {x}, call'), Owns(c, i, {x}, call')
      PROVE  FALSE
  <2>1. /\ call[d].id = i /\ x \in Between(call[d]) /\ i = id /\ x \in {n, relay, target}
    BY <1>3, <1>4, <1>7 DEF Owns, OfCall
  <2>2. Between(call[d]) = Nodes(d)
    BY DEF Between, Nodes
  <2>3. Nodes(d) \cap {n, relay, target} # {}
    BY <2>1, <2>2
  <2>4. Numbered(id, {n, relay, target})
    BY <2>1, <2>3 DEF Numbered
  <2> QED
    BY <1>1, <2>4
<1>8. Unique(call')
  <2>1. ASSUME NEW b \in Call, NEW d \in Call, NEW i, NEW x,
               Owns(b, i, {x}, call'), Owns(d, i, {x}, call')
        PROVE  b = d
    <3>1. CASE b # c /\ d # c
      <4>1. Owns(b, i, {x}, call) /\ Owns(d, i, {x}, call)
        BY <1>3, <2>1, <3>1 DEF Owns, OfCall
      <4> QED
        BY <4>1 DEF Traced, Unique
    <3>2. CASE b = c \/ d = c
      BY <1>7, <2>1, <3>2
    <3> QED
      BY <3>1, <3>2
  <2> QED
    BY <2>1 DEF Unique
<1>9. OfCall(c, id, call')
  BY <1>3, <1>4 DEF OfCall
<1>10. WireOK(wire', call', replied')
  <2>1. WireOK(wire, call', replied')
    BY <1>5, KeptWire DEF Traced
  <2>2. Open(id, target) \in Messages(n, relay, call', replied')
    BY <1>2, <1>3, <1>4, <1>9 DEF Open, Messages, Message, Fits
  <2> QED
    BY <1>1, <2>1, <2>2, SentOK
<1>11. InboxOK(inbox', call', replied')
  <2>1. InboxOK(inbox, call', replied')
    BY <1>5, KeptInbox DEF Traced
  <2>2. call'[c].stage # "none"
    BY <1>3, <1>4
  <2>3. \A S : <<>> \in Seq(S)
    OBVIOUS
  <2>4. /\ DOMAIN inbox' = DOMAIN inbox \cup {c}
        /\ \A k \in DOMAIN inbox' : inbox'[k] = IF k = c THEN <<>> ELSE inbox[k]
    BY <1>1
  <2> QED
    BY <2>1, <2>2, <2>3, <2>4 DEF InboxOK
<1>12. ListenOK(listener', call') /\ HearsOK(listener', call')
  <2>1. ListenOK(listener, call')
    BY <1>5, KeptTables DEF Traced
  <2>2. /\ DOMAIN listener' = Node
        /\ \A m \in Node : listener'[m] = IF m = n THEN c ELSE listener[m]
    BY <1>1, <2>1 DEF ListenOK
  <2>3. call'[c].stage # "none" /\ call'[c].node = n /\ call'[c].target = target
    BY <1>3, <1>4
  <2>4. ASSUME NEW d \in Call, call'[d].stage \in Live
        PROVE  listener'[call'[d].target] = call'[d].target
    <3>1. CASE d = c
      BY <1>1, <2>2, <2>3, <3>1 DEF Meets
    <3>2. CASE d # c
      <4>1. /\ call[d].stage \in Live /\ call'[d].target = call[d].target
            /\ call[d].target # n
        BY <1>1, <1>3, <2>4, <3>2 DEF Meets
      <4>2. call[d].target \in Node
        BY <4>1, CallIs DEF OfCall, Live
      <4> QED
        BY <2>2, <4>1, <4>2 DEF Traced, HearsOK
    <3> QED
      BY <3>1, <3>2
  <2> QED
    BY <2>1, <2>2, <2>3, <2>4 DEF ListenOK, HearsOK
<1>13. PendingOK(pending', call')
  <2>1. PendingOK(pending, call') /\ e.id = id /\ n = call'[c].node
    BY <1>3, <1>4, <1>5, KeptTables DEF Traced
  <2>2. /\ DOMAIN pending' = Node
        /\ \A k \in Node : \A x \in pending'[k] : x \in pending[k] \/ (k = n /\ x = e)
    BY <1>1, <2>1 DEF PendingOK
  <2> HIDE DEF e
  <2> QED
    BY <1>9, <2>1, <2>2 DEF PendingOK
<1>14. /\ EndsOK(ends', call') /\ CircuitsOK(circuits', call')
       /\ OpeningOK(opening', call') /\ TasksOK(tasks', call')
  BY <1>1, <1>5, KeptTables DEF Traced
<1>15. CounterOK(counter', peers')
  BY <1>1 DEF Traced, CounterOK
<1> QED
  BY <1>6, <1>8, <1>10, <1>11, <1>12, <1>13, <1>14, <1>15 DEF Traced

--------------------------------------------------------------------------------
(* Those who punch do so together.                                            *)

TracedUndisturbed == disturbed \in BOOLEAN /\ (~disturbed => Traced)

\* What is once disturbed stays so.
LEMMA DisturbedStays ==
  ASSUME disturbed \in BOOLEAN, MatchNext PROVE disturbed' \in BOOLEAN /\ (disturbed => disturbed')
<1>1. ASSUME NEW n \in Node, NEW m \in Node, Relays(n, m) \/ Breaks(n, m)
      PROVE  disturbed' \in BOOLEAN /\ (disturbed => disturbed')
  <2>1. CASE TakeOpen(n, m) \/ StoreCircuit(n, m) \/ TakeForward(n, m)
    BY <2>1 DEF TakeOpen, StoreCircuit, TakeForward
  <2>2. CASE TakeAccept(n, m)
    BY <2>2 DEF TakeAccept
  <2>3. CASE TakeData(n, m) \/ TakeClose(n, m)
    BY <2>3 DEF TakeData, TakeClose
  <2>4. CASE Breaks(n, m)
    BY <2>4, Zenon DEF Breaks, Deactivate
  <2> QED
    BY <1>1, <2>1, <2>2, <2>3, <2>4 DEF Relays, Take
<1>2. ASSUME NEW c \in Call, CallStep(c) \/ TimesOut(c) \/ Cancel(c)
      PROVE  disturbed' \in BOOLEAN /\ (disturbed => disturbed')
  <2>1. CASE Opened(c) \/ GotExchange(c)
    BY <2>1 DEF Opened, GotExchange, SendData, CloseEnd, handlerVars
  <2>2. CASE Ignored(c) \/ Failed(c) \/ Punched(c)
    BY <2>2 DEF Ignored, Failed, Punched, handlerVars
  <2>3. CASE TimesOut(c) \/ Cancel(c)
    BY <2>3 DEF TimesOut, Cancel
  <2> QED
    BY <1>2, <2>1, <2>2, <2>3 DEF CallStep
<1>3. ASSUME NEW t \in tasks, TaskStep(t) PROVE disturbed' \in BOOLEAN /\ (disturbed => disturbed')
  BY <1>3 DEF TaskStep, Reply, CloseTask, PunchedTask, SendData, CloseEnd, handlerVars
<1>4. ASSUME NEW n \in Node, Dispatch(n) PROVE disturbed' \in BOOLEAN /\ (disturbed => disturbed')
  BY <1>4 DEF Dispatch, handlerVars
<1>5. ASSUME NEW c \in Call, NEW n \in Node, NEW relay \in Node, NEW target \in Node,
             Begin(c, n, relay, target)
      PROVE  disturbed' \in BOOLEAN /\ (disturbed => disturbed')
  BY <1>5 DEF Begin
<1> QED
  BY <1>1, <1>2, <1>3, <1>4, <1>5 DEF MatchNext

LEMMA TracedStep == TracedUndisturbed /\ [MatchNext]_matchVars => TracedUndisturbed'
<1> SUFFICES ASSUME TracedUndisturbed, [MatchNext]_matchVars PROVE TracedUndisturbed'
  OBVIOUS
<1> USE DEF TracedUndisturbed
<1>1. disturbed' \in BOOLEAN /\ (disturbed => disturbed')
  BY DisturbedStays DEF matchVars, relayVars
<1>2. ASSUME ~disturbed' PROVE Traced'
  <2>1. Traced /\ ~disturbed
    BY <1>1, <1>2
  <2>2. ASSUME NEW c \in Call, NEW n \in Node, NEW relay \in Node, NEW target \in Node,
               Begin(c, n, relay, target)
        PROVE  Traced'
    BY <1>2, <2>1, <2>2, BeginTraced
  <2>3. ASSUME NEW c \in Call, CallStep(c) \/ TimesOut(c) \/ Cancel(c) PROVE Traced'
    <3>1. ~TimesOut(c) /\ ~Cancel(c)
      BY <1>2 DEF TimesOut, Cancel
    <3> QED
      BY <2>1, <2>3, <3>1, CallStepTraced
  <2>4. ASSUME NEW n \in Node, NEW m \in Node, Relays(n, m) \/ Breaks(n, m) PROVE Traced'
    <3>1. ~Breaks(n, m)
      BY <1>2, Zenon DEF Breaks, Deactivate
    <3>2. Take(n, m) /\ UNCHANGED callVars
      BY <2>4, <3>1 DEF Relays
    <3> QED
      BY <1>2, <2>1, <3>2, TakeOpenTraced, StoreCircuitTraced, TakeForwardTraced,
         TakeAcceptTraced, TakeDataTraced, TakeCloseTraced DEF Take
  <2>5. CASE UNCHANGED matchVars
    BY <2>1, <2>5 DEF matchVars, relayVars, circuitVars, callVars, Traced
  <2> QED
    BY <2>1, <2>2, <2>3, <2>4, <2>5, TaskStepTraced, DispatchTraced DEF MatchNext
<1> QED
  BY <1>1, <1>2

LEMMA StartsTraced == MatchInit => TracedUndisturbed
<1> SUFFICES ASSUME MatchInit PROVE disturbed \in BOOLEAN /\ Traced
  BY DEF TracedUndisturbed
<1> USE DEF MatchInit, RelayInit
<1>1. \A S : <<>> \in Seq(S)
  OBVIOUS
<1>2. WireOK(wire, call, replied) /\ InboxOK(inbox, call, replied)
  BY <1>1 DEF WireOK, InboxOK
<1>3. \A c \in Call : call[c].stage = "none"
  BY DEF Unmade
<1>4. CallsOK(call, replied)
  BY <1>3 DEF CallsOK, CallType, Stages, Unmade
<1>5. Unique(call)
  BY <1>3 DEF Unique, Owns, OfCall
<1>6. /\ ListenOK(listener, call) /\ EndsOK(ends, call) /\ CircuitsOK(circuits, call)
      /\ OpeningOK(opening, call) /\ TasksOK(tasks, call) /\ CounterOK(counter, peers)
      /\ PendingOK(pending, call) /\ HearsOK(listener, call)
  BY <1>3 DEF ListenOK, HearsOK, Live, PendingOK, EndsOK, CircuitsOK, OpeningOK, TasksOK, CounterOK
<1> QED
  BY <1>2, <1>4, <1>5, <1>6 DEF Traced

\* An initiator punches only when its target does too, or has: the exchange it
\* was given answers its own request, whatever else passes its relay
\* (do_initiate_matchmake), as long as no circuits clash and no session breaks.
THEOREM PunchStaysTogether == MatchSpec => []PunchTogether
<1>1. TracedUndisturbed => PunchTogether
  BY DEF TracedUndisturbed, Traced, CallsOK, PunchTogether
<1> QED
  BY <1>1, StartsTraced, TracedStep, PTL DEF MatchSpec

--------------------------------------------------------------------------------
(* What a call that waits is waiting for.                                     *)

Bears(s, type, id) == \E i \in 1 .. Len(s) : s[i].type = type /\ s[i].id = id

\* A call that has kept its channel.
Waits(c) == call[c].stage \in {"opening", "asking"} /\ listener[call[c].node] = c

\* With q the record of a call: its circuit is initiated, checked, stored, or has
\* an end at x; something of it is on its way from x to y, or in a channel.
Pend(q) == q.id \in Ids(pending[q.node])
IsChecked(q) == LET o == opening[q.relay][q.node] IN
  o # NoOpen /\ o.id = q.id /\ {q.relay, q.target} \in Session
Joined(q) == q.id \in Ids(circuits[q.relay]) /\ {q.relay, q.target} \in Session
Held(q, x) == q.id \in Ids(ends[x])
Sends(q, x, y, type) == Bears(wire[x][y], type, q.id)
Hears(q, k, type) == Bears(inbox[k], type, q.id)
Working(c) == \E t \in tasks : t.call = c /\ t.stage = "gathering"

\* What has been granted on the way.
Granted(c, q) ==
  /\ Sends(q, q.relay, q.target, "forward") => Joined(q)
  /\ Sends(q, q.target, q.relay, "accept") => Joined(q) /\ Held(q, q.target)
  /\ Sends(q, q.relay, q.node, "accept") => Joined(q) /\ Held(q, q.target)
  /\ Hears(q, c, "opened") => Joined(q) /\ Held(q, q.target) /\ Held(q, q.node)

\* The circuit is open, or its OPEN or acceptance is under way.
Opening(c, q) ==
  \/ Hears(q, c, "opened")
  \/ /\ Pend(q)
     /\ \/ Sends(q, q.node, q.relay, "open") \/ IsChecked(q)
        \/ Sends(q, q.relay, q.target, "forward")
        \/ Sends(q, q.target, q.relay, "accept") \/ Sends(q, q.relay, q.node, "accept")

\* The answer is there or under way, and the way it has yet to go is open.
Asking(c, q) ==
  \/ Hears(q, c, "data") \/ Hears(q, c, "closed")
  \/ /\ Held(q, q.node)
     /\ \/ Sends(q, q.relay, q.node, "data") \/ Sends(q, q.relay, q.node, "close")
        \/ /\ Joined(q)
           /\ \/ Sends(q, q.target, q.relay, "data") \/ Sends(q, q.target, q.relay, "close")
              \/ /\ Held(q, q.target)
                 /\ \/ Sends(q, q.node, q.relay, "data") \/ Sends(q, q.relay, q.target, "data")
                    \/ Hears(q, q.target, "data") \/ Working(c)

Along(c, q) ==
  /\ c \in DOMAIN inbox
  /\ q.stage = "opening" => Granted(c, q) /\ Opening(c, q)
  /\ q.stage = "asking" => Asking(c, q)

OnItsWay == \A c \in Call : Waits(c) => Along(c, call[c])

LEMMA BearsAppend ==
  ASSUME NEW S, NEW s \in Seq(S), NEW e, NEW type, NEW id
  PROVE  Bears(Append(s, e), type, id) <=> Bears(s, type, id) \/ (e.type = type /\ e.id = id)
<1>1. s \in Seq(S \cup {e})
  BY SeqGrows
<1>2. Len(s) \in Nat /\ Len(Append(s, e)) = Len(s) + 1
      /\ \A i \in 1 .. Len(s) + 1 : Append(s, e)[i] = IF i = Len(s) + 1 THEN e ELSE s[i]
  BY <1>1
<1> QED
  BY <1>2 DEF Bears

LEMMA BearsTail ==
  ASSUME NEW S, NEW s \in Seq(S), s # <<>>, NEW type, NEW id
  PROVE  Bears(s, type, id) <=> Bears(Tail(s), type, id) \/ (Head(s).type = type /\ Head(s).id = id)
<1>1. /\ Len(s) \in Nat \ {0} /\ Len(Tail(s)) = Len(s) - 1 /\ Head(s) = s[1]
      /\ \A i \in 1 .. Len(s) - 1 : Tail(s)[i] = s[i + 1]
  OBVIOUS
<1>2. ASSUME Bears(s, type, id)
      PROVE  Bears(Tail(s), type, id) \/ (Head(s).type = type /\ Head(s).id = id)
  <2>1. PICK i \in 1 .. Len(s) : s[i].type = type /\ s[i].id = id
    BY <1>2 DEF Bears
  <2>2. CASE i = 1
    BY <1>1, <2>1, <2>2
  <2>3. CASE i # 1
    <3>1. i - 1 \in 1 .. Len(s) - 1 /\ Tail(s)[i - 1] = s[i]
      BY <1>1, <2>3
    <3> QED
      BY <1>1, <2>1, <3>1 DEF Bears
  <2> QED
    BY <2>2, <2>3
<1>3. ASSUME Bears(Tail(s), type, id) PROVE Bears(s, type, id)
  <2>1. PICK i \in 1 .. Len(s) - 1 : Tail(s)[i].type = type /\ Tail(s)[i].id = id
    BY <1>1, <1>3 DEF Bears
  <2>2. i + 1 \in 1 .. Len(s) /\ s[i + 1] = Tail(s)[i]
    BY <1>1
  <2> QED
    BY <2>1, <2>2 DEF Bears
<1>4. ASSUME Head(s).type = type, Head(s).id = id PROVE Bears(s, type, id)
  BY <1>1, <1>4 DEF Bears
<1> QED
  BY <1>2, <1>3, <1>4

LEMMA SentBears ==
  ASSUME NEW cs, NEW done, NEW w, WireOK(w, cs, done), NEW x \in Node, NEW to, NEW msg,
         NEW k \in Node, NEW l \in Node, NEW type, NEW id
  PROVE  Bears(SentTo(w, x, to, msg)[k][l], type, id) <=>
           \/ Bears(w[k][l], type, id)
           \/ k = x /\ l \in to \cap peers[x] /\ msg.type = type /\ msg.id = id
<1>1. w[k][l] \in Seq(Messages(k, l, cs, done)) /\ DOMAIN w = Node
  BY DEF WireOK
<1>2. SentTo(w, x, to, msg)[k][l] = IF k = x /\ l \in to \cap peers[x] THEN Append(w[k][l], msg)
                                    ELSE w[k][l]
  BY <1>1 DEF SentTo
<1> QED
  BY <1>1, <1>2, BearsAppend

LEMMA TakenBears ==
  ASSUME NEW cs, NEW done, WireOK(wire, cs, done), NEW n \in Node, NEW m \in Node,
         wire[m][n] # <<>>, NEW k \in Node, NEW l \in Node, NEW type, NEW id
  PROVE  Bears(wire[k][l], type, id) <=>
           \/ Bears(Taken(n, m)[k][l], type, id)
           \/ k = m /\ l = n /\ Head(wire[m][n]).type = type /\ Head(wire[m][n]).id = id
<1>1. /\ wire[k][l] \in Seq(Messages(k, l, cs, done))
      /\ DOMAIN wire = Node /\ \A y \in Node : DOMAIN wire[y] = Node
  BY DEF WireOK
<1>2. Taken(n, m)[k][l] = IF k = m /\ l = n THEN Tail(wire[m][n]) ELSE wire[k][l]
  BY <1>1 DEF Taken
<1> QED
  BY <1>1, <1>2, BearsTail

LEMMA FiredBears ==
  ASSUME Traced, NEW n \in Node, NEW e
  PROVE  /\ DOMAIN Fired(n, e) = DOMAIN inbox
         /\ \A k \in DOMAIN inbox : \A type, id :
              Bears(Fired(n, e)[k], type, id) <=>
                Bears(inbox[k], type, id) \/ (k = listener[n] /\ e.type = type /\ e.id = id)
<1>1. \A k \in DOMAIN inbox : inbox[k] \in Seq(Heard(k, call, replied))
  BY DEF Traced, InboxOK
<1>2. /\ DOMAIN Fired(n, e) = DOMAIN inbox
      /\ \A k \in DOMAIN inbox :
           Fired(n, e)[k] = IF k = listener[n] THEN Append(inbox[k], e) ELSE inbox[k]
  BY DEF Fired
<1>3. ASSUME NEW k \in DOMAIN inbox, NEW type, NEW id
      PROVE  Bears(Fired(n, e)[k], type, id) <=>
               Bears(inbox[k], type, id) \/ (k = listener[n] /\ e.type = type /\ e.id = id)
  <2>1. Bears(Append(inbox[k], e), type, id) <=>
          Bears(inbox[k], type, id) \/ (e.type = type /\ e.id = id)
    BY <1>1, BearsAppend
  <2> QED
    BY <1>2, <2>1
<1> QED
  BY <1>2, <1>3

LEMMA RestBears ==
  ASSUME Traced, NEW h \in DOMAIN inbox, inbox[h] # <<>>
  PROVE  /\ DOMAIN Rest(h) = DOMAIN inbox
         /\ \A k \in DOMAIN inbox : \A type, id :
              Bears(inbox[k], type, id) <=>
                \/ Bears(Rest(h)[k], type, id)
                \/ k = h /\ Head(inbox[h]).type = type /\ Head(inbox[h]).id = id
<1>1. \A k \in DOMAIN inbox : inbox[k] \in Seq(Heard(k, call, replied))
  BY DEF Traced, InboxOK
<1>2. /\ DOMAIN Rest(h) = DOMAIN inbox
      /\ \A k \in DOMAIN inbox : Rest(h)[k] = IF k = h THEN Tail(inbox[k]) ELSE inbox[k]
  BY DEF Rest
<1>3. ASSUME NEW k \in DOMAIN inbox, NEW type, NEW id
      PROVE  Bears(inbox[k], type, id) <=>
               \/ Bears(Rest(h)[k], type, id)
               \/ k = h /\ Head(inbox[h]).type = type /\ Head(inbox[h]).id = id
  <2>1. Bears(inbox[h], type, id) <=>
          Bears(Tail(inbox[h]), type, id) \/ (Head(inbox[h]).type = type /\ Head(inbox[h]).id = id)
    BY <1>1, BearsTail
  <2> QED
    BY <1>2, <2>1
<1> QED
  BY <1>2, <1>3

--------------------------------------------------------------------------------
(* Steps that are about other calls.                                          *)

\* A step at node x about number i, as far as call c is concerned.
WireEffect(x, i) == \A k, l \in Node : \A type, j : j # i \/ (k # x /\ l # x) =>
  (Bears(wire'[k][l], type, j) <=> Bears(wire[k][l], type, j))
TableEffect(x, i) == \A k \in Node : \A j : j # i \/ k # x =>
  /\ (j \in Ids(pending[k]) => j \in Ids(pending'[k]))
  /\ (j \in Ids(ends[k]) => j \in Ids(ends'[k]))
  /\ (j \in Ids(circuits[k]) => j \in Ids(circuits'[k]))
OpenEffect(x, i) == \A k, l \in Node :
  opening[k][l] # NoOpen /\ (k # x \/ opening[k][l].id # i) => opening'[k][l] = opening[k][l]
InboxEffect(c, x, i) == \A k \in Node \cup {c} : k \in DOMAIN inbox =>
  /\ k \in DOMAIN inbox'
  /\ \A type, j : j # i \/ (k # x /\ k # listener[x]) =>
       (Bears(inbox'[k], type, j) <=> Bears(inbox[k], type, j))
TaskEffect(x, i) == \A t \in tasks :
  t.stage = "gathering" /\ (t.node # x \/ t.id # i) => t \in tasks'
Effect(c, x, i) ==
  /\ WireEffect(x, i) /\ TableEffect(x, i) /\ OpenEffect(x, i)
  /\ InboxEffect(c, x, i) /\ TaskEffect(x, i)

LEMMA WaitsIs ==
  ASSUME Traced, NEW c \in Call, NEW q, q = call[c], Waits(c)
  PROVE  /\ OfCall(c, q.id, call) /\ q.id \in Nat \ {0}
         /\ q.node \in Node /\ q.relay \in Node /\ q.target \in Node
         /\ q.node # q.relay /\ q.node # q.target /\ q.relay # q.target
         /\ Between(q) = {q.node, q.relay, q.target} /\ {q.node, q.relay} \in Session
         /\ listener[q.node] = c /\ listener[q.target] = q.target
         /\ q.target \in DOMAIN inbox /\ c # q.target /\ ~Past(q)
<1>1. OfCall(c, q.id, call) /\ ~Past(q) /\ q.stage \in Live
  BY DEF Waits, OfCall, Past, Live
<1>2. q.target \in Node /\ listener[q.target] = q.target
  BY <1>1, CallIs DEF Traced, HearsOK
<1> QED
  BY <1>1, <1>2, CallIs, CallAssumption DEF Between, Waits, Traced, InboxOK

\* No step takes away what a call needs but one at its nodes about its number.
LEMMA Unconcerned ==
  ASSUME Traced, NEW c \in Call, NEW q, q = call[c], Waits(c), Along(c, q),
         NEW x \in Node, NEW i, x \notin Between(q) \/ i # q.id, Effect(c, x, i)
  PROVE  Along(c, q)'
<1>1. /\ q.node \in Node /\ q.relay \in Node /\ q.target \in Node
      /\ Between(q) = {q.node, q.relay, q.target}
      /\ listener[q.node] = c /\ listener[q.target] = q.target
      /\ q.target \in DOMAIN inbox /\ c # q.target
  BY WaitsIs
<1>2. ASSUME NEW k \in Between(q), NEW l \in Between(q), NEW type
      PROVE  Sends(q, k, l, type)' <=> Sends(q, k, l, type)
  <2>1. k \in Node /\ l \in Node /\ (q.id # i \/ (k # x /\ l # x))
    BY <1>1
  <2> QED
    BY <2>1 DEF Effect, WireEffect, Sends
<1>3. /\ (Pend(q) => Pend(q)') /\ (Joined(q) => Joined(q)')
      /\ (Held(q, q.node) => Held(q, q.node)') /\ (Held(q, q.target) => Held(q, q.target)')
  BY <1>1 DEF Effect, TableEffect, Pend, Joined, Held
<1>4. IsChecked(q) => IsChecked(q)'
  BY <1>1 DEF Effect, OpenEffect, IsChecked
<1>5. c \in DOMAIN inbox'
  BY DEF Along, Effect, InboxEffect
<1>6. ASSUME NEW k \in {c, q.target}, NEW type PROVE Hears(q, k, type)' <=> Hears(q, k, type)
  <2>1. k \in Node \cup {c} /\ k \in DOMAIN inbox
    BY <1>1 DEF Along
  <2>2. q.id # i \/ (k # x /\ k # listener[x])
    <3>1. x \notin Between(q) => listener[x] # c /\ listener[x] # q.target
      BY <1>1, CallAssumption DEF Traced, ListenOK
    <3>2. c \notin Node
      BY CallAssumption
    <3> QED
      BY <1>1, <3>1, <3>2
  <2> QED
    BY <2>1, <2>2 DEF Effect, InboxEffect, Hears
<1>7. Working(c) => Working(c)'
  <2>1. \A t \in tasks : t.call = c => t.node = q.target /\ t.id = q.id
    BY TaskIs DEF OfCall
  <2> QED
    BY <1>1, <2>1 DEF Effect, TaskEffect, Working
<1> QED
  BY <1>1, <1>2, <1>3, <1>4, <1>5, <1>6, <1>7 DEF Along, Granted, Opening, Asking

LEMMA WithoutIds ==
  ASSUME NEW S, NEW i, NEW j, j # i, j \in Ids(S) PROVE j \in Ids(Without(S, i))
  BY DEF Ids, Without

\* A message that is taken, and what is sent on its way.
LEMMA TakenEffect ==
  ASSUME Traced, NEW n \in Node, NEW m \in Node, wire[m][n] # <<>>, NEW to, NEW msg,
         msg.id = Head(wire[m][n]).id,
         wire' = Taken(n, m) \/ wire' = SentTo(Taken(n, m), n, to, msg)
  PROVE  WireEffect(n, Head(wire[m][n]).id)
<1> DEFINE i == Head(wire[m][n]).id
<1>1. ASSUME NEW k \in Node, NEW l \in Node, NEW type, NEW j, j # i \/ (k # n /\ l # n)
      PROVE  Bears(wire'[k][l], type, j) <=> Bears(wire[k][l], type, j)
  <2>1. WireOK(wire, call, replied) /\ WireOK(Taken(n, m), call, replied)
    BY TakenOK DEF Traced
  <2>2. Bears(wire[k][l], type, j) <=> Bears(Taken(n, m)[k][l], type, j)
    <3>1. \/ ~(k = m /\ l = n)
          \/ Head(wire[m][n]).id # j
      BY <1>1
    <3> QED
      BY <2>1, <3>1, TakenBears
  <2>3. Bears(SentTo(Taken(n, m), n, to, msg)[k][l], type, j) <=> Bears(Taken(n, m)[k][l], type, j)
    BY <1>1, <2>1, SentBears
  <2> QED
    BY <2>2, <2>3
<1> QED
  BY <1>1 DEF WireEffect

LEMMA SentEffect ==
  ASSUME Traced, NEW n \in Node, NEW to, NEW msg, wire' = SentTo(wire, n, to, msg)
  PROVE  WireEffect(n, msg.id)
<1>1. ASSUME NEW k \in Node, NEW l \in Node, NEW type, NEW j, j # msg.id \/ (k # n /\ l # n)
      PROVE  Bears(wire'[k][l], type, j) <=> Bears(wire[k][l], type, j)
  <2>1. WireOK(wire, call, replied)
    BY DEF Traced
  <2> QED
    BY <1>1, <2>1, SentBears
<1> QED
  BY <1>1 DEF WireEffect

LEMMA FiredEffect ==
  ASSUME Traced, NEW c, NEW n \in Node, NEW e, inbox' = inbox \/ inbox' = Fired(n, e)
  PROVE  InboxEffect(c, n, e.id)
<1>1. ASSUME NEW k \in DOMAIN inbox, NEW type, NEW j, j # e.id \/ (k # n /\ k # listener[n])
      PROVE  Bears(inbox'[k], type, j) <=> Bears(inbox[k], type, j)
  <2>1. Bears(Fired(n, e)[k], type, j) <=> Bears(inbox[k], type, j)
    BY <1>1, FiredBears
  <2> QED
    BY <2>1
<1>2. DOMAIN inbox' = DOMAIN inbox
  BY FiredBears
<1> QED
  BY <1>1, <1>2 DEF InboxEffect

\* What changes in the tables of one node, about one number.
LEMMA TablesEffect ==
  ASSUME Traced, NEW n \in Node, NEW i, NEW p, NEW e, NEW r,
         pending' \in {pending, [pending EXCEPT ![n] = Without(@, i)],
                       [pending EXCEPT ![n] = @ \cup {p}]},
         ends' \in {ends, [ends EXCEPT ![n] = Without(@, i)],
                    [ends EXCEPT ![n] = Without(@, i) \cup {e}]},
         circuits' \in {circuits, [circuits EXCEPT ![n] = Without(@, i)],
                        [circuits EXCEPT ![n] = Without(@, i) \cup {r}]}
  PROVE  TableEffect(n, i)
<1>1. DOMAIN pending = Node /\ DOMAIN ends = Node /\ DOMAIN circuits = Node
  BY DEF Traced, PendingOK, EndsOK, CircuitsOK
<1>2. ASSUME NEW S, NEW T, NEW j, j # i,
             T \in {S, Without(S, i), S \cup {p}, Without(S, i) \cup {e}, Without(S, i) \cup {r}}
      PROVE  j \in Ids(S) => j \in Ids(T)
  BY <1>2 DEF Ids, Without
<1>3. ASSUME NEW k \in Node, k # n
      PROVE  pending'[k] = pending[k] /\ ends'[k] = ends[k] /\ circuits'[k] = circuits[k]
  BY <1>1, <1>3
<1>4. /\ pending'[n] \in {pending[n], Without(pending[n], i), pending[n] \cup {p}}
      /\ ends'[n] \in {ends[n], Without(ends[n], i), Without(ends[n], i) \cup {e}}
      /\ circuits'[n] \in {circuits[n], Without(circuits[n], i), Without(circuits[n], i) \cup {r}}
  BY <1>1
<1>5. ASSUME NEW k \in Node, NEW j, j # i \/ k # n
      PROVE  /\ (j \in Ids(pending[k]) => j \in Ids(pending'[k]))
             /\ (j \in Ids(ends[k]) => j \in Ids(ends'[k]))
             /\ (j \in Ids(circuits[k]) => j \in Ids(circuits'[k]))
  <2>1. CASE k # n
    BY <1>3, <2>1
  <2>2. CASE k = n
    <3>1. j # i
      BY <1>5, <2>2
    <3> QED
      BY <1>2, <1>4, <2>2, <3>1
  <2> QED
    BY <2>1, <2>2
<1> QED
  BY <1>5 DEF TableEffect

LEMMA TasksEffect == ASSUME tasks' = tasks, NEW n, NEW i PROVE TaskEffect(n, i)
  BY DEF TaskEffect

LEMMA OpenKept == ASSUME opening' = opening, NEW n, NEW i PROVE OpenEffect(n, i)
  BY DEF OpenEffect

\* A message is about the number it bears.
LEMMA TakeEffect ==
  ASSUME Traced, NEW n \in Node, NEW m \in Node, Take(n, m), UNCHANGED callVars, ~disturbed',
         NEW c
  PROVE  /\ StoreCircuit(n, m) => Effect(c, n, opening[n][m].id)
         /\ ~StoreCircuit(n, m) => Effect(c, n, Head(wire[m][n]).id)
<1> DEFINE w == Head(wire[m][n])
<1>1. \A i : TaskEffect(n, i)
  BY TasksEffect DEF callVars
<1>2. ASSUME NEW type, Comes(n, m, type)
      PROVE  wire[m][n] # <<>> /\ opening[n][m] = NoOpen /\ ~StoreCircuit(n, m)
  BY <1>2 DEF Comes, StoreCircuit
<1>3. CASE TakeOpen(n, m)
  <2>1. /\ Comes(n, m, "open") /\ wire' = Taken(n, m)
        /\ opening' = [opening EXCEPT ![n][m] = [id |-> w.id, target |-> w.target]]
        /\ UNCHANGED <<circuits, ends, pending, inbox>>
    BY <1>3 DEF TakeOpen
  <2>2. WireEffect(n, w.id)
    <3>1. Close(w.id).id = w.id
      BY DEF Close
    <3> QED
      BY <1>2, <2>1, <3>1, TakenEffect
  <2>3. TableEffect(n, w.id)
    BY <2>1, TablesEffect
  <2>4. OpenEffect(n, w.id)
    <3>1. DOMAIN opening = Node /\ \A k \in Node : DOMAIN opening[k] = Node
      BY DEF Traced, OpeningOK
    <3> QED
      BY <1>2, <2>1, <3>1 DEF OpenEffect
  <2>5. InboxEffect(c, n, w.id)
    BY <2>1 DEF InboxEffect
  <2> QED
    BY <1>1, <1>2, <2>1, <2>2, <2>3, <2>4, <2>5 DEF Effect
<1>4. CASE StoreCircuit(n, m)
  <2> DEFINE o == opening[n][m]
             r == [id |-> o.id, initiator |-> m, target |-> o.target]
  <2>1. /\ o # NoOpen /\ UNCHANGED <<ends, pending, inbox>>
        /\ circuits' = [circuits EXCEPT ![n] = Without(@, o.id) \cup {r}]
        /\ opening' = [opening EXCEPT ![n][m] = NoOpen]
        /\ wire' = SentTo(wire, n, {o.target}, Forward(o.id, m))
    BY <1>4 DEF StoreCircuit, Sent
  <2>2. WireEffect(n, o.id)
    <3>1. Forward(o.id, m).id = o.id
      BY DEF Forward
    <3> QED
      BY <2>1, <3>1, SentEffect
  <2>3. TableEffect(n, o.id)
    <3>1. \A k \in Node :
            circuits[k] \subseteq circuits'[k] \cup {e \in circuits[n] : k = n /\ e.id = o.id}
      BY <2>1 DEF Traced, CircuitsOK, Without
    <3>2. ASSUME NEW k \in Node, NEW j, j # o.id \/ k # n, j \in Ids(circuits[k])
          PROVE  j \in Ids(circuits'[k])
      BY <3>1, <3>2 DEF Ids
    <3> QED
      BY <2>1, <3>2 DEF TableEffect
  <2>4. OpenEffect(n, o.id)
    <3>1. DOMAIN opening = Node /\ \A k \in Node : DOMAIN opening[k] = Node
      BY DEF Traced, OpeningOK
    <3> QED
      BY <2>1, <3>1 DEF OpenEffect
  <2>5. InboxEffect(c, n, o.id)
    BY <2>1 DEF InboxEffect
  <2> QED
    BY <1>1, <1>4, <2>2, <2>3, <2>4, <2>5 DEF Effect
<1>5. CASE TakeForward(n, m)
  <2> DEFINE x == [id |-> w.id, relay |-> m, remote |-> w.initiator, role |-> "target"]
             e == [type |-> "opened", id |-> w.id]
  <2>1. /\ Comes(n, m, "forward") /\ UNCHANGED <<circuits, pending, opening>>
        /\ ends' = [ends EXCEPT ![n] = Without(@, w.id) \cup {x}]
        /\ inbox' = Fired(n, e) /\ e.id = w.id
        /\ wire' = SentTo(Taken(n, m), n, {m}, Accept(w.id))
    BY <1>5 DEF TakeForward, Sent
  <2>2. WireEffect(n, w.id)
    <3>1. Accept(w.id).id = w.id
      BY DEF Accept
    <3> QED
      BY <1>2, <2>1, <3>1, TakenEffect
  <2> HIDE DEF x, e
  <2>3. TableEffect(n, w.id)
    BY <2>1, TablesEffect
  <2>4. InboxEffect(c, n, w.id)
    BY <2>1, FiredEffect
  <2> QED
    BY <1>1, <1>2, <2>1, <2>2, <2>3, <2>4, OpenKept DEF Effect
<1>6. CASE TakeAccept(n, m)
  <2> DEFINE x == [id |-> w.id, relay |-> m, remote |-> With(pending[n], w.id).target,
                   role |-> "initiator"]
             e == [type |-> "opened", id |-> w.id]
             k == With(circuits[n], w.id).initiator
  <2>1. /\ Comes(n, m, "accept") /\ UNCHANGED <<circuits, opening>>
        /\ ends' = ends \/ ends' = [ends EXCEPT ![n] = Without(@, w.id) \cup {x}]
        /\ pending' = pending \/ pending' = [pending EXCEPT ![n] = Without(@, w.id)]
        /\ inbox' = inbox \/ inbox' = Fired(n, e)
        /\ wire' = Taken(n, m) \/ wire' = SentTo(Taken(n, m), n, {k}, Accept(w.id))
    BY <1>6 DEF TakeAccept, Sent
  <2>2. WireEffect(n, w.id)
    <3>1. Accept(w.id).id = w.id
      BY DEF Accept
    <3> QED
      BY <1>2, <2>1, <3>1, TakenEffect
  <2>3. e.id = w.id
    OBVIOUS
  <2> HIDE DEF x, e
  <2>4. TableEffect(n, w.id)
    BY <2>1, TablesEffect
  <2>5. InboxEffect(c, n, w.id)
    BY <2>1, <2>3, FiredEffect
  <2> QED
    BY <1>1, <1>2, <2>1, <2>2, <2>4, <2>5, OpenKept DEF Effect
<1>7. CASE TakeData(n, m)
  <2> DEFINE e == [type |-> "data", id |-> w.id, payload |-> w.payload]
             to == OtherEnd(With(circuits[n], w.id), m)
  <2>1. /\ Comes(n, m, "data") /\ UNCHANGED <<circuits, opening, pending, ends>>
        /\ inbox' = inbox \/ inbox' = Fired(n, e)
        /\ wire' = Taken(n, m) \/ wire' = SentTo(Taken(n, m), n, to, w)
    BY <1>7 DEF TakeData
  <2>2. WireEffect(n, w.id)
    BY <1>2, <2>1, TakenEffect
  <2>3. e.id = w.id
    OBVIOUS
  <2>4. TableEffect(n, w.id)
    BY <2>1, TablesEffect
  <2> HIDE DEF e
  <2>5. InboxEffect(c, n, w.id)
    BY <2>1, <2>3, FiredEffect
  <2> QED
    BY <1>1, <1>2, <2>1, <2>2, <2>4, <2>5, OpenKept DEF Effect
<1>8. CASE TakeClose(n, m)
  <2> DEFINE e == [type |-> "closed", id |-> w.id]
             to == OtherEnd(With(circuits[n], w.id), m)
  <2>1. /\ Comes(n, m, "close") /\ UNCHANGED <<opening, pending>>
        /\ circuits' = circuits \/ circuits' = [circuits EXCEPT ![n] = Without(@, w.id)]
        /\ ends' = ends \/ ends' = [ends EXCEPT ![n] = Without(@, w.id)]
        /\ inbox' = inbox \/ inbox' = Fired(n, e)
        /\ wire' = Taken(n, m) \/ wire' = SentTo(Taken(n, m), n, to, Close(w.id))
    BY <1>8 DEF TakeClose
  <2>2. WireEffect(n, w.id)
    <3>1. Close(w.id).id = w.id
      BY DEF Close
    <3> QED
      BY <1>2, <2>1, <3>1, TakenEffect
  <2>3. e.id = w.id
    OBVIOUS
  <2>4. TableEffect(n, w.id)
    BY <2>1, TablesEffect
  <2> HIDE DEF e
  <2>5. InboxEffect(c, n, w.id)
    BY <2>1, <2>3, FiredEffect
  <2> QED
    BY <1>1, <1>2, <2>1, <2>2, <2>4, <2>5, OpenKept DEF Effect
<1> QED
  BY <1>3, <1>4, <1>5, <1>6, <1>7, <1>8 DEF Take

--------------------------------------------------------------------------------
(* Steps of a call's own messages.                                            *)

\* A message with the number of a call, at one of its nodes, is its own.
LEMMA OwnFits ==
  ASSUME Traced, NEW c \in Call, NEW q, q = call[c], Waits(c), NEW n \in Node, NEW m \in Node,
         NEW type, Comes(n, m, type), Head(wire[m][n]).id = q.id, n \in Between(q)
  PROVE  Fits(Head(wire[m][n]), m, n, c, q, replied) /\ Head(wire[m][n]).type = type
<1>1. PICK d \in Call : /\ OfCall(d, q.id, call) /\ n \in Between(call[d])
                        /\ Fits(Head(wire[m][n]), m, n, d, call[d], replied)
  BY TakenFits
<1>2. c = d
  BY <1>1, SameCall, WaitsIs
<1> QED
  BY <1>1, <1>2 DEF Comes

\* The nodes of a call that have sessions have senders of each other.
LEMMA PeersIs ==
  ASSUME Traced, NEW c \in Call, NEW q, q = call[c], Waits(c)
  PROVE  /\ q.relay \in peers[q.node] /\ q.node \in peers[q.relay]
         /\ {q.relay, q.target} \in Session <=> q.target \in peers[q.relay]
         /\ {q.relay, q.target} \in Session <=> q.relay \in peers[q.target]
<1>1. /\ q.node \in Node /\ q.relay \in Node /\ q.target \in Node /\ {q.node, q.relay} \in Session
      /\ {q.relay, q.node} = {q.node, q.relay} /\ {q.relay, q.target} = {q.target, q.relay}
  BY WaitsIs
<1>2. \A x \in Node : peers[x] = {y \in Node : {x, y} \in Session}
  BY DEF Traced, CounterOK
<1> QED
  BY <1>1, <1>2

\* What is under way after a message is taken, and another one sent.
LEMMA TakenSends ==
  ASSUME Traced, NEW n \in Node, NEW m \in Node, NEW type, Comes(n, m, type),
         wire' = Taken(n, m), NEW q
  PROVE  \A k, l \in Node : \A t :
           /\ Sends(q, k, l, t) => Sends(q, k, l, t)' \/ (k = m /\ l = n /\ t = type)
           /\ Sends(q, k, l, t)' => Sends(q, k, l, t)
<1>1. WireOK(wire, call, replied) /\ wire[m][n] # <<>> /\ Head(wire[m][n]).type = type
  BY DEF Traced, Comes
<1> SUFFICES ASSUME NEW k \in Node, NEW l \in Node, NEW t
             PROVE  /\ Sends(q, k, l, t) => Sends(q, k, l, t)' \/ (k = m /\ l = n /\ t = type)
                    /\ Sends(q, k, l, t)' => Sends(q, k, l, t)
  OBVIOUS
<1>2. Bears(wire[k][l], t, q.id) <=>
        \/ Bears(Taken(n, m)[k][l], t, q.id)
        \/ k = m /\ l = n /\ Head(wire[m][n]).type = t /\ Head(wire[m][n]).id = q.id
  <2>1. \A i : Bears(wire[k][l], t, i) <=>
                 \/ Bears(Taken(n, m)[k][l], t, i)
                 \/ k = m /\ l = n /\ Head(wire[m][n]).type = t /\ Head(wire[m][n]).id = i
    BY <1>1, TakenBears
  <2> QED
    BY <2>1
<1> QED
  BY <1>1, <1>2 DEF Sends

LEMMA PassedSends ==
  ASSUME Traced, NEW n \in Node, NEW m \in Node, NEW type, Comes(n, m, type),
         NEW q, NEW to, NEW msg, msg.id = q.id, wire' = SentTo(Taken(n, m), n, to, msg)
  PROVE  \A k, l \in Node : \A t :
           /\ Sends(q, k, l, t) => Sends(q, k, l, t)' \/ (k = m /\ l = n /\ t = type)
           /\ Sends(q, k, l, t)' =>
                       Sends(q, k, l, t) \/ (k = n /\ l \in to \cap peers[n] /\ t = msg.type)
           /\ k = n /\ l \in to \cap peers[n] /\ t = msg.type => Sends(q, k, l, t)'
<1>1. /\ WireOK(wire, call, replied) /\ wire[m][n] # <<>> /\ Head(wire[m][n]).type = type
      /\ WireOK(Taken(n, m), call, replied)
  BY TakenOK DEF Traced, Comes
<1> SUFFICES ASSUME NEW k \in Node, NEW l \in Node, NEW t
             PROVE  /\ Sends(q, k, l, t) => Sends(q, k, l, t)' \/ (k = m /\ l = n /\ t = type)
                    /\ Sends(q, k, l, t)' =>
                       Sends(q, k, l, t) \/ (k = n /\ l \in to \cap peers[n] /\ t = msg.type)
                    /\ k = n /\ l \in to \cap peers[n] /\ t = msg.type => Sends(q, k, l, t)'
  OBVIOUS
<1>2. Bears(wire[k][l], t, q.id) <=>
        \/ Bears(Taken(n, m)[k][l], t, q.id)
        \/ k = m /\ l = n /\ Head(wire[m][n]).type = t /\ Head(wire[m][n]).id = q.id
  <2>1. \A i : Bears(wire[k][l], t, i) <=>
                 \/ Bears(Taken(n, m)[k][l], t, i)
                 \/ k = m /\ l = n /\ Head(wire[m][n]).type = t /\ Head(wire[m][n]).id = i
    BY <1>1, TakenBears
  <2> QED
    BY <2>1
<1>4. Bears(wire'[k][l], t, q.id) <=>
        \/ Bears(Taken(n, m)[k][l], t, q.id)
        \/ k = n /\ l \in to \cap peers[n] /\ msg.type = t
  BY <1>1, SentBears
<1> QED
  BY <1>1, <1>2, <1>4 DEF Sends

LEMMA TakenSent ==
  ASSUME Traced, NEW n \in Node, NEW m \in Node, NEW type, Comes(n, m, type),
         NEW q, Head(wire[m][n]).id = q.id
  PROVE  Sends(q, m, n, type)
<1>1. PICK S : wire[m][n] \in Seq(S) /\ wire[m][n] # <<>>
  BY DEF Traced, WireOK, Comes
<1>2. 1 \in 1 .. Len(wire[m][n]) /\ Head(wire[m][n]) = wire[m][n][1]
  BY <1>1
<1> QED
  BY <1>2 DEF Sends, Bears, Comes

\* What is heard after an event is fired at n.
LEMMA FiredHears ==
  ASSUME Traced, NEW n \in Node, NEW e, inbox' = Fired(n, e), NEW q, e.id = q.id
  PROVE  /\ DOMAIN inbox' = DOMAIN inbox
         /\ \A k \in DOMAIN inbox : \A t :
              Hears(q, k, t)' <=> Hears(q, k, t) \/ (k = listener[n] /\ t = e.type)
<1>1. ASSUME NEW k \in DOMAIN inbox, NEW t
      PROVE  Hears(q, k, t)' <=> Hears(q, k, t) \/ (k = listener[n] /\ t = e.type)
  <2>1. \A i : Bears(Fired(n, e)[k], t, i) <=>
                 Bears(inbox[k], t, i) \/ (k = listener[n] /\ e.type = t /\ e.id = i)
    BY FiredBears
  <2> QED
    BY <2>1 DEF Hears
<1> QED
  BY <1>1, FiredBears

LEMMA SentSends ==
  ASSUME Traced, NEW n \in Node, NEW q, NEW to, NEW msg, msg.id = q.id,
         wire' = SentTo(wire, n, to, msg)
  PROVE  \A k, l \in Node : \A t :
           /\ Sends(q, k, l, t) => Sends(q, k, l, t)'
           /\ Sends(q, k, l, t)' =>
                       Sends(q, k, l, t) \/ (k = n /\ l \in to \cap peers[n] /\ t = msg.type)
           /\ k = n /\ l \in to \cap peers[n] /\ t = msg.type => Sends(q, k, l, t)'
<1> SUFFICES ASSUME NEW k \in Node, NEW l \in Node, NEW t
             PROVE  /\ Sends(q, k, l, t) => Sends(q, k, l, t)'
                    /\ Sends(q, k, l, t)' =>
                       Sends(q, k, l, t) \/ (k = n /\ l \in to \cap peers[n] /\ t = msg.type)
                    /\ k = n /\ l \in to \cap peers[n] /\ t = msg.type => Sends(q, k, l, t)'
  OBVIOUS
<1>1. Bears(wire'[k][l], t, q.id) <=>
        \/ Bears(wire[k][l], t, q.id)
        \/ (k = n /\ l \in to \cap peers[n] /\ msg.type = t /\ msg.id = q.id)
  BY SentBears DEF Traced
<1> QED
  BY <1>1 DEF Sends

\* The relay has its peer's OPEN checked: a session with the target is all it asks.
LEMMA OpenOnTheWay ==
  ASSUME Traced, NEW c \in Call, NEW q, q = call[c], Waits(c), Along(c, q),
         NEW n \in Node, NEW m \in Node, TakeOpen(n, m), UNCHANGED callVars, ~disturbed',
         Head(wire[m][n]).id = q.id, n \in Between(q)
  PROVE  Along(c, q)'
<1> DEFINE o == Head(wire[m][n])
<1>1. /\ Comes(n, m, "open") /\ o.target \in peers[n]
      /\ wire' = Taken(n, m)
      /\ opening' = [opening EXCEPT ![n][m] = [id |-> o.id, target |-> o.target]]
      /\ UNCHANGED <<circuits, ends, pending, peers, inbox, tasks>>
  BY DEF TakeOpen, callVars
<1>2. m = q.node /\ n = q.relay /\ o.target = q.target
  BY <1>1, OwnFits DEF Fits
<1>3. IsChecked(q)'
  <2>1. DOMAIN opening = Node /\ DOMAIN opening[n] = Node
    BY DEF Traced, OpeningOK
  <2>2. opening'[n][m] = [id |-> q.id, target |-> q.target]
    BY <1>1, <1>2, <2>1
  <2>3. q.id # 0 /\ {q.relay, q.target} \in Session
    BY <1>1, <1>2, PeersIs, WaitsIs
  <2> QED
    BY <1>2, <2>2, <2>3 DEF IsChecked, NoOpen
<1>4. \A k, l \in Node : \A t :
        /\ Sends(q, k, l, t) => Sends(q, k, l, t)' \/ t = "open"
        /\ Sends(q, k, l, t)' => Sends(q, k, l, t)
  BY <1>1, TakenSends
<1>5. /\ Pend(q)' <=> Pend(q)
      /\ Joined(q)' <=> Joined(q)
      /\ \A x : Held(q, x)' <=> Held(q, x)
      /\ \A k, t : Hears(q, k, t)' <=> Hears(q, k, t)
      /\ Working(c)' <=> Working(c)
      /\ c \in DOMAIN inbox'
  BY <1>1 DEF Pend, Joined, Held, Hears, Working, Along
<1>6. q.node \in Node /\ q.relay \in Node /\ q.target \in Node
  BY WaitsIs
<1> QED
  BY <1>3, <1>4, <1>5, <1>6 DEF Along, Granted, Opening, Asking

\* The relay stores the circuit, and tells the target.
LEMMA StoredOnTheWay ==
  ASSUME Traced, NEW c \in Call, NEW q, q = call[c], Waits(c), Along(c, q),
         NEW n \in Node, NEW m \in Node, StoreCircuit(n, m), UNCHANGED callVars,
         opening[n][m].id = q.id, n \in Between(q)
  PROVE  Along(c, q)'
<1> DEFINE o == opening[n][m]
           e == [id |-> o.id, initiator |-> m, target |-> o.target]
<1>1. /\ o # NoOpen /\ wire' = SentTo(wire, n, {o.target}, Forward(o.id, m))
      /\ circuits' = [circuits EXCEPT ![n] = Without(@, o.id) \cup {e}]
      /\ opening' = [opening EXCEPT ![n][m] = NoOpen]
      /\ UNCHANGED <<ends, pending, peers, inbox, tasks>>
  BY DEF StoreCircuit, Sent, callVars
<1>2. q.node \in Node /\ q.relay \in Node /\ q.target \in Node
  BY WaitsIs
<1>3. n = q.relay /\ m = q.node /\ o.target = q.target
  <2>1. PICK d \in Call : OfCall(d, o.id, call) /\ OpenOf(n, m, o, call[d])
    BY <1>1, OpeningIs
  <2>2. n \in Between(call[d])
    BY <2>1 DEF OpenOf, Between
  <2>3. c = d
    BY <2>1, <2>2, SameCall, WaitsIs
  <2> QED
    BY <2>1, <2>3 DEF OpenOf
<1>4. \A k, l \in Node : \A t :
        /\ Sends(q, k, l, t) => Sends(q, k, l, t)'
        /\ Sends(q, k, l, t)' => Sends(q, k, l, t) \/ (l \in peers[n] /\ t = "forward")
        /\ k = n /\ l = q.target /\ l \in peers[n] /\ t = "forward" => Sends(q, k, l, t)'
  <2>1. Forward(o.id, m).id = q.id /\ Forward(o.id, m).type = "forward"
    BY DEF Forward
  <2> QED
    BY <1>1, <1>3, <2>1, SentSends
<1>5. q.id \in Ids(circuits'[n])
  <2>1. e.id = q.id
    OBVIOUS
  <2>2. e \in circuits'[n]
    BY <1>1 DEF Traced, CircuitsOK
  <2> QED
    BY <2>1, <2>2 DEF Ids
<1>6. q.stage = "opening" => (Sends(q, n, q.target, "forward")' => Joined(q)')
  <2>1. Sends(q, n, q.target, "forward")' =>
          Joined(q) \/ q.target \in peers[n] \/ q.stage # "opening"
    BY <1>2, <1>3, <1>4 DEF Along, Granted
  <2> QED
    BY <1>3, <1>5, <2>1, PeersIs DEF Joined
<1>7. IsChecked(q) => Sends(q, q.relay, q.target, "forward")'
  BY <1>2, <1>3, <1>4, PeersIs DEF IsChecked
<1>8. /\ Pend(q)' <=> Pend(q)
      /\ Joined(q) => Joined(q)'
      /\ \A x : Held(q, x)' <=> Held(q, x)
      /\ \A k, t : Hears(q, k, t)' <=> Hears(q, k, t)
      /\ Working(c)' <=> Working(c)
      /\ c \in DOMAIN inbox'
  BY <1>1, <1>3, <1>5 DEF Pend, Joined, Held, Hears, Working, Along
<1>9. q.stage = "opening" => Granted(c, q)'
  BY <1>2, <1>3, <1>4, <1>6, <1>8 DEF Along, Granted
<1>10. q.stage = "opening" => Opening(c, q)'
  BY <1>2, <1>4, <1>7, <1>8 DEF Along, Opening
<1>11. q.stage = "asking" => Asking(c, q)'
  BY <1>2, <1>4, <1>8 DEF Along, Asking
<1> QED
  BY <1>8, <1>9, <1>10, <1>11 DEF Along

\* The target takes the circuit and accepts it.
LEMMA ForwardOnTheWay ==
  ASSUME Traced, NEW c \in Call, NEW q, q = call[c], Waits(c), Along(c, q),
         NEW n \in Node, NEW m \in Node, TakeForward(n, m), UNCHANGED callVars,
         Head(wire[m][n]).id = q.id, n \in Between(q)
  PROVE  Along(c, q)'
<1> DEFINE w == Head(wire[m][n])
           e == [id |-> w.id, relay |-> m, remote |-> w.initiator, role |-> "target"]
           x == [type |-> "opened", id |-> w.id]
<1>1. /\ Comes(n, m, "forward") /\ m \in peers[n]
      /\ ends' = [ends EXCEPT ![n] = Without(@, w.id) \cup {e}]
      /\ inbox' = Fired(n, x) /\ wire' = SentTo(Taken(n, m), n, {m}, Accept(w.id))
      /\ UNCHANGED <<circuits, pending, opening, peers, tasks>>
  BY DEF TakeForward, Sent, Comes, callVars
<1>2. /\ q.node \in Node /\ q.relay \in Node /\ q.target \in Node /\ q.node # q.target
      /\ listener[q.target] = q.target /\ c # q.target /\ q.target \in DOMAIN inbox
  BY WaitsIs
<1>3. m = q.relay /\ n = q.target
  BY <1>1, OwnFits DEF Fits
<1>4. \A k, l \in Node : \A t :
        /\ Sends(q, k, l, t) => Sends(q, k, l, t)' \/ (k = m /\ l = n /\ t = "forward")
        /\ Sends(q, k, l, t)' => Sends(q, k, l, t) \/ (k = n /\ l = m /\ t = "accept")
        /\ k = n /\ l = m /\ t = "accept" => Sends(q, k, l, t)'
  <2>1. Accept(w.id).id = q.id /\ Accept(w.id).type = "accept"
    BY Zenon DEF Accept
  <2> QED
    BY <1>1, <2>1, PassedSends
<1>5. Sends(q, q.relay, q.target, "forward")
  BY <1>1, <1>3, TakenSent, Zenon
<1>6. Held(q, q.target)' /\ (Held(q, q.node)' <=> Held(q, q.node))
  <2>1. e.id = q.id /\ DOMAIN ends = Node
    BY Zenon DEF Traced, EndsOK
  <2>2. e \in ends'[q.target] /\ ends'[q.node] = ends[q.node]
    BY <1>1, <1>2, <1>3, <2>1, Zenon
  <2> QED
    BY <2>1, <2>2 DEF Held, Ids
<1>7. /\ c \in DOMAIN inbox' /\ (Hears(q, c, "opened")' <=> Hears(q, c, "opened"))
      /\ \A t : Hears(q, c, t) => Hears(q, c, t)'
      /\ \A t : Hears(q, q.target, t) => Hears(q, q.target, t)'
  <2>1. c \in DOMAIN inbox
    BY DEF Along
  <2>2. x.id = q.id /\ x.type = "opened"
    OBVIOUS
  <2> HIDE DEF x
  <2>3. /\ DOMAIN inbox' = DOMAIN inbox
        /\ \A k \in DOMAIN inbox : \A t :
             Hears(q, k, t)' <=> Hears(q, k, t) \/ (k = listener[n] /\ t = x.type)
    BY <1>1, <2>2, FiredHears
  <2> QED
    BY <1>2, <1>3, <2>1, <2>3
<1>8. /\ Pend(q)' <=> Pend(q)
      /\ Joined(q)' <=> Joined(q)
      /\ IsChecked(q)' <=> IsChecked(q)
      /\ Working(c)' <=> Working(c)
  BY <1>1 DEF Pend, Joined, IsChecked, Working
<1>9. q.stage = "opening" => Granted(c, q)'
  BY <1>2, <1>3, <1>4, <1>5, <1>6, <1>7, <1>8 DEF Along, Granted
<1>10. q.stage = "opening" => Opening(c, q)'
  BY <1>2, <1>3, <1>4, <1>7, <1>8 DEF Along, Opening
<1>11. q.stage = "asking" => Asking(c, q)'
  BY <1>2, <1>4, <1>6, <1>7, <1>8 DEF Along, Asking
<1> QED
  BY <1>7, <1>9, <1>10, <1>11 DEF Along

\* The relay passes the acceptance on; at the initiator the circuit is open.
LEMMA AcceptOnTheWay ==
  ASSUME Traced, NEW c \in Call, NEW q, q = call[c], Waits(c), Along(c, q),
         NEW n \in Node, NEW m \in Node, TakeAccept(n, m), UNCHANGED callVars,
         Head(wire[m][n]).id = q.id, n \in Between(q)
  PROVE  Along(c, q)'
<1>1. Comes(n, m, "accept") /\ UNCHANGED <<circuits, opening, peers, tasks>>
  BY DEF TakeAccept, callVars
<1>2. /\ q.node \in Node /\ q.relay \in Node /\ q.target \in Node
      /\ q.node # q.target /\ q.relay # q.node /\ q.relay # q.target
      /\ listener[q.node] = c /\ OfCall(c, q.id, call) /\ c \in DOMAIN inbox
  BY WaitsIs DEF Along
<1>3. Back(m, n, q) /\ Sends(q, m, n, "accept")
  BY <1>1, OwnFits, TakenSent DEF Fits
<1>4. /\ Joined(q)' <=> Joined(q)
      /\ IsChecked(q)' <=> IsChecked(q)
      /\ Working(c)' <=> Working(c)
  BY <1>1 DEF Joined, IsChecked, Working
<1>5. ASSUME UNCHANGED <<ends, pending, inbox>>
      PROVE  /\ c \in DOMAIN inbox'
             /\ Pend(q)' <=> Pend(q)
             /\ \A x : Held(q, x)' <=> Held(q, x)
             /\ \A k, t : Hears(q, k, t)' <=> Hears(q, k, t)
  BY <1>2, <1>5 DEF Pend, Held, Hears
<1>6. CASE m = q.target /\ n = q.relay
  <2>1. UNCHANGED <<ends, pending, inbox>>
    <3>1. q.id \notin Ids(pending[n])
      BY <1>2, <1>6, PendingIs
    <3> QED
      BY <3>1 DEF TakeAccept
  <2>2. q.stage = "opening" => wire' = SentTo(Taken(n, m), n, {q.node}, Accept(q.id))
    <3>1. q.stage = "opening" => q.id \in Ids(circuits[n])
      BY <1>3, <1>6 DEF Along, Granted, Joined
    <3>2. q.id \in Ids(circuits[n]) => With(circuits[n], q.id).initiator = q.node
      BY <1>2, <1>6, CircuitIs
    <3> QED
      BY <3>1, <3>2 DEF TakeAccept, Sent
  <2>3. q.stage = "opening" =>
          \A k, l \in Node : \A t :
            /\ Sends(q, k, l, t) => Sends(q, k, l, t)' \/ (k = m /\ l = n /\ t = "accept")
            /\ Sends(q, k, l, t)' => Sends(q, k, l, t) \/ (k = n /\ l = q.node /\ t = "accept")
            /\ k = n /\ l = q.node /\ t = "accept" => Sends(q, k, l, t)'
    <3>1. Accept(q.id).id = q.id /\ Accept(q.id).type = "accept"
      BY DEF Accept
    <3>2. q.node \in peers[n]
      BY <1>6, PeersIs
    <3> QED
      BY <1>1, <2>2, <3>1, <3>2, PassedSends
  <2>4. \A k, l \in Node : \A t :
          Sends(q, k, l, t) => Sends(q, k, l, t)' \/ t = "accept"
    <3> DEFINE k == With(circuits[n], q.id).initiator
    <3>1. wire' = Taken(n, m) \/ wire' = SentTo(Taken(n, m), n, {k}, Accept(q.id))
      BY DEF TakeAccept, Sent
    <3>2. Accept(q.id).id = q.id
      BY DEF Accept
    <3> HIDE DEF k
    <3> QED
      BY <1>1, <3>1, <3>2, PassedSends, TakenSends
  <2>5. q.stage = "opening" => Granted(c, q)'
    BY <1>2, <1>3, <1>4, <1>5, <1>6, <2>1, <2>3 DEF Along, Granted
  <2>6. q.stage = "opening" => Opening(c, q)'
    BY <1>2, <1>4, <1>5, <1>6, <2>1, <2>3 DEF Along, Opening
  <2>7. q.stage = "asking" => Asking(c, q)'
    BY <1>2, <1>4, <1>5, <2>1, <2>4 DEF Along, Asking
  <2> QED
    BY <1>5, <2>1, <2>5, <2>6, <2>7 DEF Along
<1>7. CASE m = q.relay /\ n = q.node
  <2> DEFINE e == [id |-> q.id, relay |-> m, remote |-> With(pending[n], q.id).target,
                   role |-> "initiator"]
             x == [type |-> "opened", id |-> q.id]
  <2>1. q.id \notin Ids(circuits[n])
    BY <1>2, <1>7, CircuitIs DEF Between
  <2>2. wire' = Taken(n, m)
    BY <2>1 DEF TakeAccept
  <2>3. \A k, l \in Node : \A t :
          /\ Sends(q, k, l, t) => Sends(q, k, l, t)' \/ (k = m /\ l = n /\ t = "accept")
          /\ Sends(q, k, l, t)' => Sends(q, k, l, t)
    BY <1>1, <2>2, TakenSends
  <2>4. CASE q.id \notin Ids(pending[n])
    <3>1. UNCHANGED <<ends, pending, inbox>>
      BY <2>1, <2>4 DEF TakeAccept
    <3>2. ~Pend(q)
      BY <1>7, <2>4 DEF Pend
    <3>3. q.stage = "opening" => Granted(c, q)'
      BY <1>2, <1>4, <1>5, <2>3, <3>1 DEF Along, Granted
    <3>4. q.stage = "opening" => Opening(c, q)'
      BY <1>2, <1>5, <3>1, <3>2 DEF Along, Opening
    <3>5. q.stage = "asking" => Asking(c, q)'
      BY <1>2, <1>4, <1>5, <2>3, <3>1 DEF Along, Asking
    <3> QED
      BY <1>5, <3>1, <3>3, <3>4, <3>5 DEF Along
  <2>5. CASE q.id \in Ids(pending[n])
    <3>1. /\ ends' = [ends EXCEPT ![n] = Without(@, q.id) \cup {e}]
          /\ inbox' = Fired(n, x)
      BY <2>1, <2>5 DEF TakeAccept
    <3>2. Held(q, q.node)' /\ (Held(q, q.target)' <=> Held(q, q.target))
      <4>1. e.id = q.id /\ DOMAIN ends = Node
        BY DEF Traced, EndsOK
      <4>2. e \in ends'[q.node] /\ ends'[q.target] = ends[q.target]
        BY <1>2, <1>7, <3>1, <4>1
      <4> QED
        BY <4>1, <4>2 DEF Held, Ids
    <3>3. /\ c \in DOMAIN inbox' /\ Hears(q, c, "opened")'
          /\ \A k \in DOMAIN inbox : \A t : Hears(q, k, t) => Hears(q, k, t)'
      <4>1. x.id = q.id /\ x.type = "opened"
        OBVIOUS
      <4> HIDE DEF x
      <4>2. /\ DOMAIN inbox' = DOMAIN inbox
            /\ \A k \in DOMAIN inbox : \A t :
                 Hears(q, k, t)' <=> Hears(q, k, t) \/ (k = listener[n] /\ t = x.type)
        BY <3>1, <4>1, FiredHears
      <4> QED
        BY <1>2, <1>7, <4>1, <4>2
    <3>4. q.stage = "opening" => Granted(c, q)'
      BY <1>2, <1>3, <1>4, <1>7, <2>3, <3>2 DEF Along, Granted
    <3>5. q.stage = "opening" => Opening(c, q)'
      BY <3>3 DEF Opening
    <3>6. q.stage = "asking" => Asking(c, q)'
      <4>1. q.target \in DOMAIN inbox
        BY WaitsIs
      <4> QED
        BY <1>2, <1>4, <2>3, <3>2, <3>3, <4>1 DEF Along, Asking
    <3> QED
      BY <3>3, <3>4, <3>5, <3>6 DEF Along
  <2> QED
    BY <2>4, <2>5
<1> QED
  BY <1>3, <1>6, <1>7 DEF Back

\* The links of a call's data, as long as it waits for it.
LEMMA DataOnTheWay ==
  ASSUME Traced, NEW c \in Call, NEW q, q = call[c], Waits(c), Along(c, q),
         NEW n \in Node, NEW m \in Node, TakeData(n, m), UNCHANGED callVars, ~disturbed',
         Head(wire[m][n]).id = q.id, n \in Between(q)
  PROVE  Along(c, q)'
<1> DEFINE w == Head(wire[m][n])
           e == [type |-> "data", id |-> w.id, payload |-> w.payload]
           to == OtherEnd(With(circuits[n], w.id), m)
<1>1. Comes(n, m, "data") /\ UNCHANGED <<circuits, ends, pending, opening, peers, tasks>>
  BY DEF TakeData, callVars
<1>2. /\ q.node \in Node /\ q.relay \in Node /\ q.target \in Node
      /\ q.node # q.target /\ q.relay # q.node /\ q.relay # q.target
      /\ listener[q.node] = c /\ listener[q.target] = q.target /\ c # q.target
      /\ OfCall(c, q.id, call) /\ c \in DOMAIN inbox /\ q.target \in DOMAIN inbox
  BY WaitsIs DEF Along
<1>3. q.stage = "asking" /\ (Out(m, n, q) \/ Back(m, n, q))
  <2>1. /\ Fits(w, m, n, c, q, replied) /\ w.type = "data" /\ w \in Message
    BY <1>1, OwnFits, ComesFrom
  <2>2. Asked(q) /\ (Out(m, n, q) \/ Back(m, n, q))
    BY <2>1, FitsLink DEF Fits
  <2> QED
    BY <2>2 DEF Waits, Asked
<1>4. /\ Joined(q)' <=> Joined(q)
      /\ \A x : Held(q, x)' <=> Held(q, x)
      /\ Working(c)' <=> Working(c)
  BY <1>1 DEF Joined, Held, Working
<1>5. CASE q.id \in Ids(circuits[n])
  <2>1. wire' = SentTo(Taken(n, m), n, to, w) /\ inbox' = inbox
    BY <1>5 DEF TakeData
  <2>2. \A k, l \in Node : \A t :
          /\ Sends(q, k, l, t) => Sends(q, k, l, t)' \/ (k = m /\ l = n /\ t = "data")
          /\ k = n /\ l \in to \cap peers[n] /\ t = "data" => Sends(q, k, l, t)'
    <3>1. w.type = "data"
      BY <1>1 DEF Comes
    <3> HIDE DEF to
    <3> QED
      BY <1>1, <2>1, <3>1, PassedSends
  <2>3. n = q.relay /\ to = IF m = q.node THEN {q.target} ELSE IF m = q.target THEN {q.node} ELSE {}
    <3>1. /\ n = q.relay /\ With(circuits[n], q.id).initiator = q.node
          /\ With(circuits[n], q.id).target = q.target
      BY <1>2, <1>5, CircuitIs
    <3> QED
      BY <3>1 DEF OtherEnd
  <2>4. q.node \in peers[n] /\ (Joined(q) => q.target \in peers[n])
    BY <2>3, PeersIs DEF Joined
  <2>5. \A k, t : Hears(q, k, t)' <=> Hears(q, k, t)
    BY <2>1 DEF Hears
  <2>6. CASE m = q.node
    <3>1. Sends(q, q.relay, q.node, "data") => Sends(q, q.relay, q.node, "data")'
      BY <1>2, <2>2, <2>3, <2>6
    <3>2. Sends(q, q.target, q.relay, "data") => Sends(q, q.target, q.relay, "data")'
      BY <1>2, <2>2, <2>3, <2>6
    <3>3. Joined(q) => Sends(q, q.relay, q.target, "data")'
      BY <1>2, <2>2, <2>3, <2>4, <2>6
    <3> QED
      BY <1>2, <1>3, <1>4, <2>1, <2>2, <2>5, <3>1, <3>2, <3>3 DEF Along, Asking
  <2>7. CASE m = q.target
    <3>1. Sends(q, q.relay, q.node, "data")'
      BY <1>2, <2>2, <2>3, <2>4, <2>7
    <3> QED
      BY <1>2, <1>3, <1>4, <2>1, <2>5, <3>1 DEF Along, Asking
  <2> QED
    BY <1>2, <1>3, <2>3, <2>6, <2>7 DEF Out, Back
<1>6. CASE q.id \notin Ids(circuits[n])
  <2>1. /\ wire' = Taken(n, m)
        /\ inbox' = IF q.id \in Ids(ends[n]) THEN Fired(n, e) ELSE inbox
    BY <1>6 DEF TakeData
  <2>2. \A k, l \in Node : \A t :
          Sends(q, k, l, t) => Sends(q, k, l, t)' \/ (k = m /\ l = n /\ t = "data")
    BY <1>1, <2>1, TakenSends
  <2>3. /\ c \in DOMAIN inbox'
        /\ \A k \in DOMAIN inbox : \A t : Hears(q, k, t) => Hears(q, k, t)'
        /\ q.id \in Ids(ends[n]) =>
             \A k \in DOMAIN inbox : k = listener[n] => Hears(q, k, "data")'
    <3>1. CASE q.id \in Ids(ends[n])
      <4>1. e.id = q.id /\ e.type = "data"
        OBVIOUS
      <4> HIDE DEF e
      <4>2. /\ DOMAIN inbox' = DOMAIN inbox
            /\ \A k \in DOMAIN inbox : \A t :
                 Hears(q, k, t)' <=> Hears(q, k, t) \/ (k = listener[n] /\ t = e.type)
        BY <2>1, <3>1, <4>1, FiredHears
      <4> QED
        BY <1>2, <4>1, <4>2
    <3>2. CASE q.id \notin Ids(ends[n])
      BY <1>2, <2>1, <3>2 DEF Hears
    <3> QED
      BY <3>1, <3>2
  <2>4. n = q.relay => ~Joined(q)
    BY <1>6 DEF Joined
  <2>5. CASE n = q.relay
    BY <1>2, <1>3, <1>4, <2>2, <2>3, <2>4, <2>5 DEF Along, Asking
  <2>6. CASE n = q.target
    <3>1. Held(q, q.target) => Hears(q, q.target, "data")'
      BY <1>2, <2>3, <2>6 DEF Held
    <3> QED
      BY <1>2, <1>3, <1>4, <2>2, <2>3, <2>6, <3>1 DEF Along, Asking
  <2>7. CASE n = q.node
    <3>1. Held(q, q.node) => Hears(q, c, "data")'
      BY <1>2, <2>3, <2>7 DEF Held
    <3> QED
      BY <1>2, <1>3, <1>4, <2>2, <2>3, <2>7, <3>1 DEF Along, Asking
  <2> QED
    BY <1>3, <2>5, <2>6, <2>7 DEF Out, Back
<1> QED
  BY <1>5, <1>6

\* A CLOSE on its way to a call that waits comes from its target.
LEMMA CloseOnTheWay ==
  ASSUME Traced, NEW c \in Call, NEW q, q = call[c], Waits(c), Along(c, q),
         NEW n \in Node, NEW m \in Node, TakeClose(n, m), UNCHANGED callVars,
         Head(wire[m][n]).id = q.id, n \in Between(q)
  PROVE  Along(c, q)'
<1> DEFINE x == [type |-> "closed", id |-> q.id]
           to == OtherEnd(With(circuits[n], q.id), m)
<1>1. Comes(n, m, "close") /\ UNCHANGED <<pending, opening, peers, tasks>>
  BY DEF TakeClose, callVars
<1>2. /\ q.node \in Node /\ q.relay \in Node /\ q.target \in Node
      /\ q.node # q.target /\ q.relay # q.node /\ q.relay # q.target
      /\ listener[q.node] = c /\ OfCall(c, q.id, call)
      /\ c \in DOMAIN inbox /\ q.target \in DOMAIN inbox
      /\ DOMAIN ends = Node /\ DOMAIN circuits = Node
  BY WaitsIs DEF Along, Traced, EndsOK, CircuitsOK
<1>3. q.stage = "asking" /\ Back(m, n, q)
  <2>1. Asked(q) /\ (Back(m, n, q) \/ Past(q))
    BY <1>1, OwnFits DEF Fits
  <2> QED
    BY <2>1, WaitsIs DEF Asked, Waits
<1>4. Working(c)' <=> Working(c)
  BY <1>1 DEF Working
<1>5. CASE q.id \in Ids(circuits[n])
  <2>1. /\ wire' = SentTo(Taken(n, m), n, to, Close(q.id)) /\ UNCHANGED <<ends, inbox>>
    BY <1>5 DEF TakeClose
  <2>2. n = q.relay /\ m = q.target /\ q.node \in to /\ q.node \in peers[n]
    <3>1. /\ n = q.relay
          /\ to = IF m = q.node THEN {q.target} ELSE IF m = q.target THEN {q.node} ELSE {}
      <4>1. /\ n = q.relay /\ With(circuits[n], q.id).initiator = q.node
            /\ With(circuits[n], q.id).target = q.target
        BY <1>2, <1>5, CircuitIs
      <4> QED
        BY <4>1 DEF OtherEnd
    <3> QED
      BY <1>2, <1>3, <3>1, PeersIs DEF Back
  <2>3. Sends(q, q.relay, q.node, "close")'
    <3>1. Close(q.id).id = q.id /\ Close(q.id).type = "close"
      BY DEF Close
    <3> HIDE DEF to
    <3> QED
      BY <1>1, <1>2, <2>1, <2>2, <3>1, PassedSends
  <2>4. /\ \A y : Held(q, y)' <=> Held(q, y)
        /\ \A k, t : Hears(q, k, t)' <=> Hears(q, k, t)
    BY <2>1 DEF Held, Hears
  <2> QED
    BY <1>2, <1>3, <2>1, <2>3, <2>4 DEF Along, Asking
<1>6. CASE q.id \notin Ids(circuits[n])
  <2>1. /\ wire' = Taken(n, m) /\ circuits' = circuits
        /\ ends' = [ends EXCEPT ![n] = Without(@, q.id)]
        /\ inbox' = IF q.id \in Ids(ends[n]) THEN Fired(n, x) ELSE inbox
    BY <1>6 DEF TakeClose
  <2>2. \A k, l \in Node : \A t :
          Sends(q, k, l, t) => Sends(q, k, l, t)' \/ (k = m /\ l = n /\ t = "close")
    BY <1>1, <2>1, TakenSends
  <2>3. /\ c \in DOMAIN inbox'
        /\ \A k \in DOMAIN inbox : \A t : Hears(q, k, t) => Hears(q, k, t)'
        /\ q.id \in Ids(ends[n]) =>
             \A k \in DOMAIN inbox : k = listener[n] => Hears(q, k, "closed")'
    <3>1. CASE q.id \in Ids(ends[n])
      <4>1. x.id = q.id /\ x.type = "closed"
        OBVIOUS
      <4> HIDE DEF x
      <4>2. /\ DOMAIN inbox' = DOMAIN inbox
            /\ \A k \in DOMAIN inbox : \A t :
                 Hears(q, k, t)' <=> Hears(q, k, t) \/ (k = listener[n] /\ t = x.type)
        BY <2>1, <3>1, <4>1, FiredHears
      <4> QED
        BY <1>2, <4>1, <4>2
    <3>2. CASE q.id \notin Ids(ends[n])
      BY <1>2, <2>1, <3>2 DEF Hears
    <3> QED
      BY <3>1, <3>2
  <2>4. Joined(q)' <=> Joined(q)
    BY <2>1 DEF Joined
  <2>5. CASE n = q.relay
    <3>1. ~Joined(q)
      BY <1>6, <2>5 DEF Joined
    <3>2. Held(q, q.node)' <=> Held(q, q.node)
      BY <1>2, <2>1, <2>5 DEF Held
    <3>3. m = q.target
      BY <1>2, <1>3, <2>5 DEF Back
    <3> QED
      BY <1>2, <1>3, <2>2, <2>3, <2>5, <3>1, <3>2, <3>3 DEF Along, Asking
  <2>6. CASE n = q.node
    <3>1. Held(q, q.node) => Hears(q, c, "closed")'
      BY <1>2, <2>3, <2>6 DEF Held
    <3> QED
      BY <1>2, <1>3, <2>3, <3>1 DEF Along, Asking
  <2> QED
    BY <1>3, <2>5, <2>6 DEF Back
<1> QED
  BY <1>5, <1>6

--------------------------------------------------------------------------------
(* Every step keeps what is on its way.                                       *)

LEMMA AlongIs ==
  ASSUME NEW c, NEW q, q = call'[c], Along(c, q)' PROVE Along(c, call[c])'
  BY DEF Along, Granted, Opening, Asking, Pend, IsChecked, Joined, Held, Sends, Hears

LEMMA TakeOnItsWay ==
  ASSUME Traced, OnItsWay, NEW n \in Node, NEW m \in Node, Take(n, m), UNCHANGED callVars,
         ~disturbed'
  PROVE  OnItsWay'
<1>1. call' = call /\ listener' = listener
  BY DEF callVars, Take, TakeOpen, StoreCircuit, TakeForward, TakeAccept, TakeData, TakeClose
<1>2. ASSUME NEW c \in Call, Waits(c)' PROVE Along(c, call[c])'
  <2>1. PICK q : q = call[c]
    OBVIOUS
  <2>2. Waits(c) /\ Along(c, q)
    BY <1>1, <1>2, <2>1 DEF Waits, OnItsWay
  <2>3. Along(c, q)'
    <3>1. CASE StoreCircuit(n, m)
      <4>1. CASE opening[n][m].id = q.id /\ n \in Between(q)
        BY <2>1, <2>2, <3>1, <4>1, StoredOnTheWay
      <4>2. CASE opening[n][m].id # q.id \/ n \notin Between(q)
        <5>1. Effect(c, n, opening[n][m].id)
          BY <3>1, TakeEffect
        <5> QED
          BY <2>1, <2>2, <4>2, <5>1, Unconcerned
      <4> QED
        BY <4>1, <4>2
    <3>2. CASE ~StoreCircuit(n, m)
      <4>1. CASE Head(wire[m][n]).id = q.id /\ n \in Between(q)
        BY <2>1, <2>2, <3>2, <4>1, OpenOnTheWay, ForwardOnTheWay, AcceptOnTheWay, DataOnTheWay,
           CloseOnTheWay DEF Take
      <4>2. CASE Head(wire[m][n]).id # q.id \/ n \notin Between(q)
        <5>1. Effect(c, n, Head(wire[m][n]).id)
          BY <3>2, TakeEffect
        <5> QED
          BY <2>1, <2>2, <4>2, <5>1, Unconcerned
      <4> QED
        BY <4>1, <4>2
    <3> QED
      BY <3>1, <3>2
  <2> QED
    BY <1>1, <2>1, <2>3, AlongIs
<1> QED
  BY <1>2 DEF OnItsWay

\* What the daemon asks of its handler.
LEMMA SendDataEffect ==
  ASSUME Traced, NEW x \in Node, NEW i, NEW p, SendData(x, i, p)
  PROVE  WireEffect(x, i) /\ TableEffect(x, i) /\ OpenEffect(x, i)
<1>1. /\ wire' = SentTo(wire, x, {With(ends[x], i).relay}, Data(i, p))
      /\ UNCHANGED <<circuits, ends, pending, opening>>
  BY DEF SendData, Sent, circuitVars
<1>2. Data(i, p).id = i
  BY DEF Data
<1>3. WireEffect(x, i)
  BY <1>1, <1>2, SentEffect
<1> QED
  BY <1>1, <1>3 DEF TableEffect, OpenEffect

LEMMA CloseEndEffect ==
  ASSUME Traced, NEW x \in Node, NEW i, CloseEnd(x, i)
  PROVE  WireEffect(x, i) /\ TableEffect(x, i) /\ OpenEffect(x, i)
<1>1. CASE i \in Ids(ends[x])
  <2>1. /\ wire' = SentTo(wire, x, {With(ends[x], i).relay}, Close(i))
        /\ ends' = [ends EXCEPT ![x] = Without(@, i)]
        /\ pending' = [pending EXCEPT ![x] = Without(@, i)]
        /\ UNCHANGED <<circuits, opening>>
    BY <1>1 DEF CloseEnd, Sent
  <2>2. Close(i).id = i
    BY DEF Close
  <2>3. WireEffect(x, i)
    BY <2>1, <2>2, SentEffect
  <2>4. TableEffect(x, i)
    BY <2>1, TablesEffect
  <2> QED
    BY <2>1, <2>3, <2>4 DEF OpenEffect
<1>2. CASE i \notin Ids(ends[x])
  BY <1>2 DEF CloseEnd, circuitVars, WireEffect, TableEffect, OpenEffect
<1> QED
  BY <1>1, <1>2

\* A step of another call.
LEMMA OtherCallEffect ==
  ASSUME Traced, NEW c \in Call, NEW d \in Call, c # d, call[d].stage # "none", CallStep(d)
  PROVE  Effect(c, call[d].node, call[d].id)
<1> DEFINE x == call[d].node
           i == call[d].id
<1>1. x \in Node /\ d \notin Node
  BY CallItself, CallAssumption
<1>2. tasks' = tasks /\ TaskEffect(x, i)
  BY TasksEffect DEF CallStep, Opened, GotExchange, Ignored, Failed, Punched, callVars
<1>3. ASSUME inbox' = Rest(d) \/ inbox' = [k \in DOMAIN inbox \ {d} |-> inbox[k]]
      PROVE  InboxEffect(c, x, i)
  <2>1. \A k \in DOMAIN inbox : k # d => k \in DOMAIN inbox' /\ inbox'[k] = inbox[k]
    BY <1>3 DEF Rest
  <2> QED
    BY <1>1, <2>1 DEF InboxEffect
<1>4. ASSUME UNCHANGED handlerVars
      PROVE  WireEffect(x, i) /\ TableEffect(x, i) /\ OpenEffect(x, i)
  BY <1>4 DEF handlerVars, circuitVars, WireEffect, TableEffect, OpenEffect
<1>5. /\ WireEffect(x, i) /\ TableEffect(x, i) /\ OpenEffect(x, i)
  <2>1. CASE Opened(d)
    BY <1>1, <1>4, <2>1, SendDataEffect DEF Opened
  <2>2. CASE GotExchange(d)
    BY <1>1, <1>4, <2>2, CloseEndEffect DEF GotExchange
  <2>3. CASE Ignored(d) \/ Failed(d) \/ Punched(d)
    BY <1>4, <2>3 DEF Ignored, Failed, Punched
  <2> QED
    BY <2>1, <2>2, <2>3 DEF CallStep
<1>6. inbox' = Rest(d) \/ inbox' = [k \in DOMAIN inbox \ {d} |-> inbox[k]]
  BY DEF CallStep, Opened, GotExchange, Ignored, Failed, Punched, EndsCall
<1> QED
  BY <1>2, <1>3, <1>5, <1>6 DEF Effect

LEMMA StageIs ==
  ASSUME Traced, NEW c \in Call, NEW s, call' = [call EXCEPT ![c].stage = s]
  PROVE  /\ call'[c].node = call[c].node /\ call'[c].relay = call[c].relay
         /\ call'[c].target = call[c].target /\ call'[c].id = call[c].id /\ call'[c].stage = s
         /\ \A d \in Call : d # c => call'[d] = call[d]
  BY DEF Traced, CallsOK, CallType

\* The circuit is open end to end when the initiator hears so: its request is on
\* its way.
LEMMA OpenedOnItsWay ==
  ASSUME Traced, NEW c \in Call, Waits(c), Along(c, call[c]), Opened(c), NEW p, p = call'[c]
  PROVE  Along(c, p)'
<1> DEFINE q == call[c]
           e == With(ends[q.node], q.id)
<1>1. q.stage = "opening" /\ Hears(q, c, "opened")
  <2>1. /\ q.stage = "opening" /\ c \in DOMAIN inbox /\ inbox[c] # <<>>
        /\ Head(inbox[c]).type = "opened" /\ Head(inbox[c]).id = q.id
    BY DEF Opened, Event
  <2>2. Bears(inbox[c], "opened", q.id)
    BY <2>1, RestBears
  <2> QED
    BY <2>1, <2>2 DEF Hears
<1>2. Joined(q) /\ Held(q, q.target) /\ Held(q, q.node)
  BY <1>1 DEF Along, Granted
<1>3. /\ q.node \in Node /\ q.relay \in Node /\ q.target \in Node
      /\ OfCall(c, q.id, call) /\ q.relay \in peers[q.node] /\ q.node \in Between(q)
      /\ c \in DOMAIN inbox
  BY WaitsIs, PeersIs DEF Between, Along
<1>4. e.relay = q.relay
  BY <1>2, <1>3, EndIs DEF Held
<1>5. /\ wire' = SentTo(wire, q.node, {q.relay}, Data(q.id, Payload("request", c)))
      /\ call' = [call EXCEPT ![c].stage = "asking"] /\ inbox' = Rest(c)
      /\ UNCHANGED <<circuits, ends, tasks>>
  BY <1>2, <1>4 DEF Opened, Held, SendData, Stage, Sent, circuitVars
<1>6. /\ p.node = q.node /\ p.relay = q.relay /\ p.target = q.target /\ p.id = q.id
      /\ p.stage = "asking"
  BY <1>5, StageIs
<1>7. Sends(p, p.node, p.relay, "data")'
  <2> DEFINE msg == Data(q.id, Payload("request", c))
  <2>1. msg.id = p.id /\ msg.type = "data"
    BY <1>6 DEF Data
  <2> HIDE DEF msg
  <2>2. wire' = SentTo(wire, p.node, {p.relay}, msg)
    BY <1>5, <1>6 DEF msg
  <2>3. p.node \in Node /\ p.relay \in Node /\ p.relay \in peers[p.node]
    BY <1>3, <1>6
  <2> QED
    BY <2>1, <2>2, <2>3, SentSends
<1>8. Held(p, p.node)' /\ Held(p, p.target)' /\ Joined(p)'
  BY <1>2, <1>5, <1>6 DEF Held, Joined
<1>9. c \in DOMAIN inbox'
  BY <1>3, <1>5 DEF Rest
<1> QED
  BY <1>6, <1>7, <1>8, <1>9 DEF Along, Asking

\* A call does not drop what it waits for.
LEMMA IgnoredOnItsWay ==
  ASSUME Traced, NEW c \in Call, NEW q, q = call[c], Waits(c), Along(c, q), Ignored(c)
  PROVE  Along(c, q)'
<1>1. /\ c \in DOMAIN inbox /\ inbox[c] # <<>> /\ inbox' = Rest(c)
      /\ \/ q.stage = "opening" /\ ~Event(c, "opened")
         \/ q.stage = "asking" /\ (Head(inbox[c]).id # q.id \/ Event(c, "opened"))
      /\ UNCHANGED <<circuits, ends, pending, opening, wire, tasks>>
  BY DEF Ignored, handlerVars, circuitVars, callVars
<1>2. /\ DOMAIN inbox' = DOMAIN inbox
      /\ \A k \in DOMAIN inbox : \A t, i :
           Bears(inbox[k], t, i) <=>
             Bears(inbox'[k], t, i) \/ (k = c /\ Head(inbox[c]).type = t /\ Head(inbox[c]).id = i)
  BY <1>1, RestBears
<1>3. /\ q.stage = "opening" => (Hears(q, c, "opened") => Hears(q, c, "opened")')
      /\ q.stage = "asking" => \A t \in {"data", "closed"} : Hears(q, c, t) => Hears(q, c, t)'
      /\ \A t : Hears(q, q.target, t) => Hears(q, q.target, t)'
      /\ \A t : Hears(q, c, t)' => Hears(q, c, t)
  <2>1. c # q.target /\ q.target \in DOMAIN inbox
    BY WaitsIs
  <2>2. \A k \in DOMAIN inbox : \A t :
          Hears(q, k, t) <=>
             Hears(q, k, t)' \/ (k = c /\ Head(inbox[c]).type = t /\ Head(inbox[c]).id = q.id)
    <3>1. \A k \in DOMAIN inbox : \A t :
            Bears(inbox[k], t, q.id) <=>
              \/ Bears(inbox'[k], t, q.id)
              \/ (k = c /\ Head(inbox[c]).type = t /\ Head(inbox[c]).id = q.id)
      BY <1>2
    <3> QED
      BY <3>1 DEF Hears
  <2>3. q.stage = "opening" => ~(Head(inbox[c]).type = "opened" /\ Head(inbox[c]).id = q.id)
    BY <1>1 DEF Event
  <2>4. q.stage = "asking" => Head(inbox[c]).id # q.id \/ Head(inbox[c]).type = "opened"
    BY <1>1 DEF Event
  <2> QED
    BY <1>1, <2>1, <2>2, <2>3, <2>4
<1>4. /\ Pend(q)' <=> Pend(q)
      /\ Joined(q)' <=> Joined(q)
      /\ IsChecked(q)' <=> IsChecked(q)
      /\ Working(c)' <=> Working(c)
      /\ \A x : Held(q, x)' <=> Held(q, x)
      /\ \A x, y, t : Sends(q, x, y, t)' <=> Sends(q, x, y, t)
  BY <1>1 DEF Pend, Joined, IsChecked, Working, Held, Sends
<1>5. q.stage = "opening" => Granted(c, q)'
  BY <1>3, <1>4 DEF Along, Granted
<1>6. q.stage = "opening" => Opening(c, q)'
  BY <1>3, <1>4 DEF Along, Opening
<1>7. q.stage = "asking" => Asking(c, q)'
  BY <1>3, <1>4 DEF Along, Asking
<1> QED
  BY <1>1, <1>2, <1>5, <1>6, <1>7 DEF Along

LEMMA CallOnItsWay ==
  ASSUME Traced, OnItsWay, NEW d \in Call, CallStep(d)
  PROVE  OnItsWay'
<1>1. listener' = listener
  BY DEF CallStep, Opened, GotExchange, Ignored, Failed, Punched, SendData, CloseEnd, handlerVars
<1>2. \/ call' = call
      \/ \E s : call' = [call EXCEPT ![d].stage = s]
  BY DEF CallStep, Opened, GotExchange, Ignored, Failed, Punched, Stage, EndsCall, callVars
<1>3. \A c \in Call : c # d => call'[c] = call[c]
  BY <1>2, StageIs
<1>4. call[d].stage # "none"
  BY DEF CallStep, Opened, GotExchange, Ignored, Failed, Punched
<1>5. ASSUME NEW c \in Call, Waits(c)', c # d PROVE Along(c, call[c])'
  <2>1. PICK q : q = call[c]
    OBVIOUS
  <2>2. Waits(c) /\ Along(c, q)
    BY <1>1, <1>3, <1>5, <2>1 DEF Waits, OnItsWay
  <2>3. Effect(c, call[d].node, call[d].id) /\ call[d].node \in Node
    BY <1>4, <1>5, OtherCallEffect, CallItself
  <2>4. call[d].node \notin Between(q) \/ call[d].id # q.id
    <3>1. OfCall(d, call[d].id, call) /\ call[d].node \in Between(call[d])
      BY <1>4, CallItself
    <3>2. OfCall(c, q.id, call)
      BY <2>1, <2>2, WaitsIs
    <3>3. ASSUME call[d].node \in Between(q), call[d].id = q.id PROVE FALSE
      BY <1>5, <2>1, <3>1, <3>2, <3>3, SameCall
    <3> QED
      BY <3>3
  <2>5. Along(c, q)'
    BY <2>1, <2>2, <2>3, <2>4, Unconcerned
  <2> QED
    BY <1>3, <1>5, <2>1, <2>5, AlongIs
<1>6. ASSUME Waits(d)' PROVE Along(d, call[d])'
  <2>1. CASE Opened(d)
    <3>1. CASE call[d].id \in Ids(ends[call[d].node])
      <4>1. Waits(d) /\ Along(d, call[d])
        <5>1. call' = [call EXCEPT ![d].stage = "asking"] /\ call[d].stage = "opening"
          BY <2>1, <3>1 DEF Opened, Stage
        <5>2. call'[d].node = call[d].node
          BY <5>1, StageIs
        <5> QED
          BY <1>1, <1>6, <5>1, <5>2 DEF Waits, OnItsWay
      <4>2. PICK p : p = call'[d]
        OBVIOUS
      <4>3. Along(d, p)'
        BY <2>1, <4>1, <4>2, OpenedOnItsWay
      <4> QED
        BY <4>2, <4>3, AlongIs
    <3>2. CASE call[d].id \notin Ids(ends[call[d].node])
      <4>1. call' = [call EXCEPT ![d].stage = "failed"]
        BY <2>1, <3>2 DEF Opened, EndsCall
      <4>2. call'[d].stage = "failed"
        BY <4>1, StageIs
      <4> QED
        BY <1>6, <4>2 DEF Waits
    <3> QED
      BY <3>1, <3>2
  <2>2. CASE Ignored(d)
    <3>1. call' = call
      BY <2>2 DEF Ignored, callVars
    <3>2. PICK q : q = call[d]
      OBVIOUS
    <3>3. Waits(d) /\ Along(d, q)
      BY <1>1, <1>6, <3>1, <3>2 DEF Waits, OnItsWay
    <3>4. Along(d, q)'
      BY <2>2, <3>2, <3>3, IgnoredOnItsWay
    <3> QED
      BY <3>1, <3>2, <3>4, AlongIs
  <2>3. CASE GotExchange(d) \/ Failed(d) \/ Punched(d)
    <3>1. \E s \in {"punching", "failed", "done"} : call' = [call EXCEPT ![d].stage = s]
      BY <2>3 DEF GotExchange, Failed, Punched, Stage, EndsCall
    <3>2. call'[d].stage \in {"punching", "failed", "done"}
      BY <3>1, StageIs
    <3> QED
      BY <1>6, <3>2 DEF Waits
  <2> QED
    BY <2>1, <2>2, <2>3 DEF CallStep
<1> QED
  BY <1>5, <1>6 DEF OnItsWay

\* The daemon of the target takes the request up.
LEMMA DispatchOnItsWay ==
  ASSUME Traced, OnItsWay, NEW n \in Node, Dispatch(n) PROVE OnItsWay'
<1> DEFINE e == Head(inbox[n])
<1>1. /\ n \in DOMAIN inbox /\ inbox[n] # <<>> /\ inbox' = Rest(n) /\ call' = call
      /\ UNCHANGED <<circuits, ends, pending, opening, wire, listener>> /\ tasks \subseteq tasks'
  BY DEF Dispatch, handlerVars, circuitVars, Traced, InboxOK
<1>2. /\ DOMAIN inbox' = DOMAIN inbox
      /\ \A k \in DOMAIN inbox : \A t, i :
           Bears(inbox[k], t, i) <=> Bears(inbox'[k], t, i) \/ (k = n /\ e.type = t /\ e.id = i)
  BY <1>1, RestBears
<1>3. ASSUME NEW c \in Call, Waits(c)' PROVE Along(c, call[c])'
  <2>1. PICK q : q = call[c]
    OBVIOUS
  <2>2. Waits(c) /\ Along(c, q)
    BY <1>1, <1>3, <2>1 DEF Waits, OnItsWay
  <2>3. /\ OfCall(c, q.id, call) /\ q.target \in Node /\ q.target \in DOMAIN inbox
        /\ q.node # q.target /\ Between(q) = {q.node, q.relay, q.target}
    BY <2>1, <2>2, WaitsIs
  <2>4. c # n /\ c \in DOMAIN inbox
    BY <2>2, CallAssumption DEF Along
  <2>5. \A k \in DOMAIN inbox : \A t :
          Hears(q, k, t) <=> Hears(q, k, t)' \/ (k = n /\ e.type = t /\ e.id = q.id)
    <3>1. \A k \in DOMAIN inbox : \A t :
            Bears(inbox[k], t, q.id) <=>
              Bears(inbox'[k], t, q.id) \/ (k = n /\ e.type = t /\ e.id = q.id)
      BY <1>2
    <3> QED
      BY <3>1 DEF Hears
  <2>6. ASSUME n = q.target, e.type = "data", e.id = q.id PROVE Working(c)'
    <3>1. e \in Heard(n, call, replied)
      BY <1>1, RestOK DEF Traced
    <3>2. PICK d \in Call : OfCall(d, e.id, call) /\ Suits(e, n, d, call, replied)
      BY <2>6, <3>1 DEF Heard
    <3>3. Home(n, call) = n /\ e.payload.kind \in {"request", "exchange"}
      BY <2>6, <3>1, CallAssumption DEF Home, Heard, Told, Payloads
    <3>4. n \in {call[d].node, call[d].target}
      BY <3>2, <3>3 DEF Suits
    <3>5. c = d
      BY <2>1, <2>3, <2>6, <3>2, <3>4, SameCall DEF Between
    <3>6. e.payload.kind = "request" /\ e.payload.call = c
      BY <2>1, <2>3, <2>6, <3>2, <3>3, <3>5 DEF Suits, Genuine
    <3> DEFINE t == [node |-> n, id |-> e.id, call |-> e.payload.call, stage |-> "gathering"]
    <3>7. t \in tasks' /\ t.call = c /\ t.stage = "gathering"
      BY <2>6, <3>6 DEF Dispatch
    <3> HIDE DEF t
    <3> QED
      BY <3>7 DEF Working
  <2>7. /\ Pend(q)' <=> Pend(q)
        /\ Joined(q)' <=> Joined(q)
        /\ IsChecked(q)' <=> IsChecked(q)
        /\ Working(c) => Working(c)'
        /\ \A x : Held(q, x)' <=> Held(q, x)
        /\ \A x, y, t : Sends(q, x, y, t)' <=> Sends(q, x, y, t)
    BY <1>1 DEF Pend, Joined, IsChecked, Working, Held, Sends
  <2>8. /\ \A t : Hears(q, c, t)' <=> Hears(q, c, t)
        /\ Hears(q, q.target, "data") => Hears(q, q.target, "data")' \/ Working(c)'
    BY <2>3, <2>4, <2>5, <2>6
  <2>9. q.stage = "opening" => Granted(c, q)' /\ Opening(c, q)'
    BY <2>2, <2>7, <2>8 DEF Along, Granted, Opening
  <2>10. q.stage = "asking" => Asking(c, q)'
    BY <2>2, <2>7, <2>8 DEF Along, Asking
  <2>11. Along(c, q)'
    BY <1>2, <2>4, <2>9, <2>10 DEF Along
  <2> QED
    BY <1>1, <2>1, <2>11, AlongIs
<1> QED
  BY <1>3 DEF OnItsWay

\* A task about another number, or at another node.
LEMMA OtherTaskEffect ==
  ASSUME Traced, NEW c \in Call, NEW t \in tasks, TaskStep(t)
  PROVE  Effect(c, t.node, t.id)
<1>1. t.node \in Node /\ inbox' = inbox
  BY TaskIs DEF TaskStep, Reply, CloseTask, PunchedTask
<1>2. TaskEffect(t.node, t.id)
  <2>1. \A u \in tasks : u # t => u \in tasks'
    BY DEF TaskStep, Reply, CloseTask, PunchedTask, Moved, EndsTask
  <2> QED
    BY <2>1 DEF TaskEffect
<1>3. ASSUME UNCHANGED handlerVars
      PROVE  WireEffect(t.node, t.id) /\ TableEffect(t.node, t.id) /\ OpenEffect(t.node, t.id)
  BY <1>3 DEF handlerVars, circuitVars, WireEffect, TableEffect, OpenEffect
<1>4. WireEffect(t.node, t.id) /\ TableEffect(t.node, t.id) /\ OpenEffect(t.node, t.id)
  BY <1>1, <1>3, SendDataEffect, CloseEndEffect DEF TaskStep, Reply, CloseTask, PunchedTask
<1>5. InboxEffect(c, t.node, t.id)
  BY <1>1 DEF InboxEffect
<1> QED
  BY <1>2, <1>4, <1>5 DEF Effect

\* The target answers, and closes the circuit only after that.
LEMMA TaskOnTheWay ==
  ASSUME Traced, NEW c \in Call, NEW q, q = call[c], Waits(c), Along(c, q),
         NEW t \in tasks, TaskStep(t), t.call = c
  PROVE  Along(c, q)'
<1>1. /\ t.node = q.target /\ t.id = q.id /\ q.stage = "asking" /\ q.target \in Between(q)
  <2>1. OfCall(c, t.id, call) /\ t.node = q.target /\ Asked(q)
    BY TaskIs
  <2> QED
    BY <2>1 DEF OfCall, Asked, Waits, Between
<1>2. /\ q.node \in Node /\ q.relay \in Node /\ q.target \in Node /\ OfCall(c, q.id, call)
      /\ q.node # q.target /\ c \in DOMAIN inbox /\ Asking(c, q)
  BY <1>1, WaitsIs DEF Along
<1>3. /\ inbox' = inbox /\ circuits' = circuits
      /\ \A k, y : Hears(q, k, y)' <=> Hears(q, k, y)
      /\ Joined(q)' <=> Joined(q)
  BY DEF TaskStep, Reply, CloseTask, PunchedTask, SendData, CloseEnd, handlerVars, circuitVars,
     Hears, Joined
<1>4. Held(q, q.target) => With(ends[q.target], q.id).relay = q.relay
  BY <1>1, <1>2, EndIs DEF Held
<1>5. Joined(q) => q.relay \in peers[q.target]
  BY PeersIs DEF Joined
<1>6. ASSUME NEW msg, msg.id = q.id, wire' = SentTo(wire, q.target, {q.relay}, msg)
      PROVE  /\ \A k, l \in Node : \A y : Sends(q, k, l, y) => Sends(q, k, l, y)'
             /\ Joined(q) => Sends(q, q.target, q.relay, msg.type)'
  BY <1>2, <1>5, <1>6, SentSends
<1>7. CASE Reply(t)
  <2>1. CASE q.id \in Ids(ends[q.target])
    <3> DEFINE msg == Data(q.id, Payload("exchange", c))
    <3>1. wire' = SentTo(wire, q.target, {q.relay}, msg) /\ ends' = ends
      BY <1>1, <1>4, <1>7, <2>1 DEF Reply, SendData, Sent, Held, circuitVars
    <3>2. msg.id = q.id /\ msg.type = "data"
      BY DEF Data
    <3> HIDE DEF msg
    <3>3. /\ \A k, l \in Node : \A y : Sends(q, k, l, y) => Sends(q, k, l, y)'
          /\ Joined(q) => Sends(q, q.target, q.relay, "data")'
      BY <1>6, <3>1, <3>2
    <3>4. \A x : Held(q, x)' <=> Held(q, x)
      BY <3>1 DEF Held
    <3> QED
      BY <1>1, <1>2, <1>3, <3>3, <3>4 DEF Along, Asking
  <2>2. CASE q.id \notin Ids(ends[q.target])
    <3>1. UNCHANGED handlerVars
      BY <1>1, <1>7, <2>2 DEF Reply
    <3>2. /\ \A x : Held(q, x)' <=> Held(q, x)
          /\ \A x, y, z : Sends(q, x, y, z)' <=> Sends(q, x, y, z)
      BY <3>1 DEF handlerVars, circuitVars, Held, Sends
    <3>3. ~Held(q, q.target)
      BY <2>2 DEF Held
    <3> QED
      BY <1>1, <1>2, <1>3, <3>2, <3>3 DEF Along, Asking
  <2> QED
    BY <2>1, <2>2
<1>8. ASSUME CloseTask(t) \/ PunchedTask(t) PROVE Working(c) => Working(c)'
  <2>1. t.stage # "gathering" /\ \A u \in tasks : u # t => u \in tasks'
    BY <1>8 DEF CloseTask, PunchedTask, Moved, EndsTask
  <2> QED
    BY <2>1 DEF Working
<1>9. ASSUME UNCHANGED handlerVars, Working(c) => Working(c)' PROVE Along(c, q)'
  <2>1. /\ \A x : Held(q, x)' <=> Held(q, x)
        /\ \A x, y, z : Sends(q, x, y, z)' <=> Sends(q, x, y, z)
    BY <1>9 DEF handlerVars, circuitVars, Held, Sends
  <2> QED
    BY <1>1, <1>2, <1>3, <1>9, <2>1 DEF Along, Asking
<1>10. CASE CloseTask(t)
  <2>1. CASE q.id \in Ids(ends[q.target])
    <3> DEFINE msg == Close(q.id)
    <3>1. /\ wire' = SentTo(wire, q.target, {q.relay}, msg)
          /\ ends' = [ends EXCEPT ![q.target] = Without(@, q.id)]
      BY <1>1, <1>4, <1>10, <2>1 DEF CloseTask, CloseEnd, Sent, Held
    <3>2. msg.id = q.id /\ msg.type = "close"
      BY DEF Close
    <3> HIDE DEF msg
    <3>3. /\ \A k, l \in Node : \A y : Sends(q, k, l, y) => Sends(q, k, l, y)'
          /\ Joined(q) => Sends(q, q.target, q.relay, "close")'
      BY <1>6, <3>1, <3>2
    <3>4. Held(q, q.node)' <=> Held(q, q.node)
      BY <1>2, <3>1 DEF Held, Traced, EndsOK
    <3> QED
      BY <1>1, <1>2, <1>3, <3>3, <3>4 DEF Along, Asking
  <2>2. CASE q.id \notin Ids(ends[q.target])
    <3>1. /\ UNCHANGED <<circuits, ends, pending, opening, wire>>
      BY <1>1, <1>10, <2>2 DEF CloseTask, CloseEnd, circuitVars
    <3>2. /\ \A x : Held(q, x)' <=> Held(q, x)
          /\ \A x, y, z : Sends(q, x, y, z)' <=> Sends(q, x, y, z)
      BY <3>1 DEF Held, Sends
    <3> QED
      BY <1>1, <1>2, <1>3, <1>8, <1>10, <3>2 DEF Along, Asking
  <2> QED
    BY <2>1, <2>2
<1>11. CASE PunchedTask(t)
  BY <1>8, <1>9, <1>11 DEF PunchedTask
<1> QED
  BY <1>7, <1>10, <1>11 DEF TaskStep

LEMMA TaskOnItsWay ==
  ASSUME Traced, OnItsWay, NEW t \in tasks, TaskStep(t) PROVE OnItsWay'
<1>1. call' = call /\ listener' = listener
  BY DEF TaskStep, Reply, CloseTask, PunchedTask, SendData, CloseEnd, handlerVars
<1>2. ASSUME NEW c \in Call, Waits(c)' PROVE Along(c, call[c])'
  <2>1. PICK q : q = call[c]
    OBVIOUS
  <2>2. Waits(c) /\ Along(c, q)
    BY <1>1, <1>2, <2>1 DEF Waits, OnItsWay
  <2>3. Along(c, q)'
    <3>1. CASE t.call = c
      BY <2>1, <2>2, <3>1, TaskOnTheWay
    <3>2. CASE t.call # c
      <4>1. /\ t.node \in Node /\ t.call \in Call /\ OfCall(t.call, t.id, call)
            /\ t.node \in Between(call[t.call])
        BY TaskIs DEF Between
      <4>2. OfCall(c, q.id, call)
        BY <2>1, <2>2, WaitsIs
      <4>3. ASSUME t.node \in Between(q), t.id = q.id PROVE FALSE
        BY <2>1, <3>2, <4>1, <4>2, <4>3, SameCall
      <4>4. Effect(c, t.node, t.id)
        BY OtherTaskEffect
      <4> QED
        BY <2>1, <2>2, <4>1, <4>3, <4>4, Unconcerned
    <3> QED
      BY <3>1, <3>2
  <2> QED
    BY <1>1, <2>1, <2>3, AlongIs
<1> QED
  BY <1>2 DEF OnItsWay

\* A new call has its OPEN under way, and nothing else bears its number there.
LEMMA BeginOnItsWay ==
  ASSUME Traced, OnItsWay, NEW d \in Call, NEW n \in Node, NEW relay \in Node, NEW target \in Node,
         Begin(d, n, relay, target), ~disturbed'
  PROVE  OnItsWay'
<1> DEFINE id == counter[n]
           new == [node |-> n, relay |-> relay, target |-> target, id |-> id, stage |-> "opening"]
           e == [id |-> id, target |-> target]
<1>1. /\ call[d].stage = "none" /\ call' = [call EXCEPT ![d] = new]
      /\ listener' = [listener EXCEPT ![n] = d]
      /\ inbox' = [k \in DOMAIN inbox \cup {d} |-> IF k = d THEN <<>> ELSE inbox[k]]
      /\ pending' = [pending EXCEPT ![n] = @ \cup {e}]
      /\ wire' = SentTo(wire, n, {relay}, Open(id, target))
      /\ UNCHANGED <<circuits, ends, opening, tasks>>
      /\ ~Numbered(id, {n, relay, target}) /\ target # n /\ relay \in MutualRelay(n, target)
  BY DEF Begin, Sent
<1>2. /\ call'[d] = new /\ \A c \in Call : c # d => call'[c] = call[c]
      /\ listener'[n] = d /\ \A x \in Node : x # n => listener'[x] = listener[x]
  BY <1>1 DEF Traced, CallsOK, CallType, ListenOK
<1>3. /\ new.node = n /\ new.relay = relay /\ new.target = target /\ new.id = id
      /\ new.stage = "opening"
  OBVIOUS
<1> HIDE DEF new
<1>4. Open(id, target).id = id /\ Open(id, target).type = "open"
  BY DEF Open
<1>5. ASSUME NEW c \in Call, OfCall(c, id, call),
             NEW x \in {n, relay, target}, x \in Between(call[c])
      PROVE  FALSE
  <2>1. call[c].id = id /\ Nodes(c) \cap {n, relay, target} # {}
    BY <1>5 DEF OfCall, Nodes, Between
  <2> QED
    BY <1>1, <2>1 DEF Numbered
<1>6. ASSUME NEW c \in Call, Waits(c)', c # d PROVE Along(c, call[c])'
  <2>1. PICK q : q = call[c]
    OBVIOUS
  <2>2. Waits(c) /\ Along(c, q) /\ q.node # n
    <3>1. q.stage \in {"opening", "asking"} /\ listener'[q.node] = c
      BY <1>2, <1>6, <2>1 DEF Waits
    <3>2. q.node \in Node
      BY <2>1, <3>1, CallItself
    <3> QED
      BY <1>2, <1>6, <2>1, <3>1, <3>2 DEF Waits, OnItsWay
  <2>3. n \notin Between(q) \/ id # q.id
    BY <1>5, <2>1, <2>2, WaitsIs
  <2>4. Effect(c, n, id)
    <3>1. WireEffect(n, id)
      <4> HIDE DEF id
      <4> QED
        BY <1>1, <1>4, SentEffect
    <3>2. TableEffect(n, id)
      <4>1. DOMAIN pending = Node
        BY DEF Traced, PendingOK
      <4>2. \A k \in Node : pending[k] \subseteq pending'[k]
        BY <1>1, <4>1
      <4> QED
        BY <1>1, <4>2 DEF TableEffect, Ids
    <3>3. InboxEffect(c, n, id)
      <4>1. d \notin Node \cup {c}
        BY <1>6, CallAssumption
      <4>2. \A k \in DOMAIN inbox : k # d => k \in DOMAIN inbox' /\ inbox'[k] = inbox[k]
        BY <1>1
      <4> QED
        BY <4>1, <4>2 DEF InboxEffect
    <3> QED
      BY <1>1, <3>1, <3>2, <3>3, TasksEffect, OpenKept DEF Effect
  <2>5. Along(c, q)'
    BY <2>1, <2>2, <2>3, <2>4, Unconcerned
  <2> QED
    BY <1>2, <1>6, <2>1, <2>5, AlongIs
<1>7. Along(d, call[d])'
  <2>1. PICK p : p = call'[d]
    OBVIOUS
  <2>2. /\ p.node = n /\ p.relay = relay /\ p.target = target /\ p.id = id
        /\ p.stage = "opening"
    BY <1>2, <1>3, <2>1
  <2>3. ASSUME NEW k \in {n, relay, target}, NEW l \in {n, relay, target}, NEW type
        PROVE  ~Sends(p, k, l, type)
    <3>1. SUFFICES ASSUME Sends(p, k, l, type) PROVE FALSE
      OBVIOUS
    <3>2. PICK i \in 1 .. Len(wire[k][l]) : wire[k][l][i].id = id
      BY <2>2, <3>1 DEF Sends, Bears
    <3>3. wire[k][l] \in Seq(Messages(k, l, call, replied))
      BY DEF Traced, WireOK
    <3>4. wire[k][l][i] \in Messages(k, l, call, replied)
      BY <3>2, <3>3
    <3>5. PICK c \in Call : /\ OfCall(c, id, call)
                            /\ Fits(wire[k][l][i], k, l, c, call[c], replied)
      BY <3>2, <3>4 DEF Messages
    <3>6. wire[k][l][i] \in Message
      BY <3>4 DEF Messages
    <3>7. k \in Between(call[c])
      BY <3>5, <3>6, FitsLink DEF Out, Back, Between
    <3> QED
      BY <1>5, <3>5, <3>7
  <2>4. \A k, l \in {n, relay, target} : \A t :
          /\ Sends(p, k, l, t)' => t = "open"
          /\ k = n /\ l = relay /\ t = "open" => Sends(p, k, l, t)'
    <3>1. relay \in peers[n]
      BY <1>1 DEF MutualRelay
    <3> DEFINE msg == Open(id, target)
    <3>2. msg.id = p.id /\ msg.type = "open"
      BY <1>4, <2>2
    <3>3. wire' = SentTo(wire, n, {relay}, msg)
      BY <1>1
    <3> HIDE DEF msg
    <3> QED
      BY <2>3, <3>1, <3>2, <3>3, SentSends
  <2>5. Pend(p)'
    <3>1. e \in pending'[n] /\ e.id = id
      BY <1>1 DEF Traced, PendingOK
    <3> QED
      BY <2>2, <3>1 DEF Pend, Ids
  <2>6. d \in DOMAIN inbox' /\ ~Hears(p, d, "opened")'
    BY <1>1 DEF Hears, Bears
  <2>7. Granted(d, p)' /\ Opening(d, p)'
    BY <2>2, <2>4, <2>5, <2>6 DEF Granted, Opening
  <2>8. Along(d, p)'
    BY <2>2, <2>6, <2>7 DEF Along
  <2> QED
    BY <2>1, <2>8, AlongIs
<1> QED
  BY <1>6, <1>7 DEF OnItsWay

WayUndisturbed == TracedUndisturbed /\ (~disturbed => OnItsWay)

LEMMA WayStep == WayUndisturbed /\ [MatchNext]_matchVars => WayUndisturbed'
<1> SUFFICES ASSUME WayUndisturbed, [MatchNext]_matchVars PROVE WayUndisturbed'
  OBVIOUS
<1>1. TracedUndisturbed'
  BY TracedStep DEF WayUndisturbed
<1>2. ASSUME ~disturbed' PROVE OnItsWay'
  <2>1. disturbed \in BOOLEAN
    BY DEF WayUndisturbed, TracedUndisturbed
  <2>2. ~disturbed
    BY <1>2, <2>1, DisturbedStays DEF matchVars, relayVars
  <2>3. Traced /\ OnItsWay
    BY <2>2 DEF WayUndisturbed, TracedUndisturbed
  <2>4. ASSUME NEW c \in Call, NEW n \in Node, NEW relay \in Node, NEW target \in Node,
               Begin(c, n, relay, target)
        PROVE  OnItsWay'
    BY <1>2, <2>3, <2>4, BeginOnItsWay
  <2>5. ASSUME NEW c \in Call, CallStep(c) \/ TimesOut(c) \/ Cancel(c) PROVE OnItsWay'
    <3>1. ~TimesOut(c) /\ ~Cancel(c)
      BY <1>2 DEF TimesOut, Cancel
    <3> QED
      BY <2>3, <2>5, <3>1, CallOnItsWay
  <2>6. ASSUME NEW n \in Node, NEW m \in Node, Relays(n, m) \/ Breaks(n, m) PROVE OnItsWay'
    <3>1. ~Breaks(n, m)
      BY <1>2, Zenon DEF Breaks, Deactivate
    <3>2. Take(n, m) /\ UNCHANGED callVars
      BY <2>6, <3>1 DEF Relays
    <3> QED
      BY <1>2, <2>3, <3>2, TakeOnItsWay
  <2>7. CASE UNCHANGED matchVars
    <3>1. /\ UNCHANGED <<circuits, ends, pending, opening, wire, listener, inbox, call, tasks>>
      BY <2>7 DEF matchVars, relayVars, circuitVars, callVars
    <3> QED
      BY <2>3, <3>1 DEF OnItsWay, Waits, Along, Granted, Opening, Asking, Pend, IsChecked, Joined,
         Held, Sends, Hears, Working
  <2> QED
    BY <2>3, <2>4, <2>5, <2>6, <2>7, TaskOnItsWay, DispatchOnItsWay DEF MatchNext
<1> QED
  BY <1>1, <1>2 DEF WayUndisturbed

\* A call that keeps its channel never has only its time-out to wait for: as long as
\* it waits something of it is under way (do_initiate_matchmake, handle_incoming_matchmake).
THEOREM NothingStaysLost == MatchSpec => []NothingLost
<1>1. MatchInit => WayUndisturbed
  <2>1. MatchInit => TracedUndisturbed
    BY StartsTraced
  <2>2. MatchInit => \A c \in Call : ~Waits(c)
    BY DEF MatchInit, Unmade, Waits
  <2> QED
    BY <2>1, <2>2 DEF WayUndisturbed, OnItsWay
<1>2. WayUndisturbed => NothingLost
  <2> SUFFICES ASSUME WayUndisturbed, ~disturbed, Silent, NEW c \in Call, Waits(c) PROVE FALSE
    BY DEF NothingLost, Waits
  <2>1. Traced /\ Along(c, call[c])
    BY DEF WayUndisturbed, TracedUndisturbed, OnItsWay
  <2>2. /\ call[c].node \in Node /\ call[c].relay \in Node /\ call[c].target \in Node
        /\ call[c].target \in DOMAIN inbox /\ c \in DOMAIN inbox
    BY <2>1, WaitsIs DEF Along
  <2>3. \A type, id : ~Bears(<<>>, type, id)
    BY DEF Bears
  <2>4. /\ \A x, y \in Node : \A type : ~Sends(call[c], x, y, type)
        /\ \A k \in DOMAIN inbox : \A type : ~Hears(call[c], k, type)
        /\ ~IsChecked(call[c]) /\ ~Working(c)
    BY <2>2, <2>3 DEF Silent, Sends, Hears, IsChecked, Working
  <2>5. call[c].stage \in {"opening", "asking"}
    BY DEF Waits
  <2> QED
    BY <2>1, <2>2, <2>4, <2>5 DEF Along, Opening, Asking
<1> QED
  BY <1>1, <1>2, WayStep, PTL DEF MatchSpec

--------------------------------------------------------------------------------
(* Types of matchmaking: one entry per id in every table, a channel for every   *)
(* call that lives, and a counter that is never counted down too far.           *)

OneEach(S) == \A c, d \in S : c.id = d.id => c = d

\* An id a node waits for is one it has counted past.
Tables ==
  /\ DOMAIN circuits = Node /\ DOMAIN ends = Node /\ DOMAIN pending = Node
  /\ DOMAIN opening = Node /\ DOMAIN peers = Node /\ counter \in [Node -> Nat]
  /\ \A n \in Node :
       /\ peers[n] \subseteq Node /\ DOMAIN opening[n] = Node
       /\ \A m \in Node : opening[n][m] # NoOpen => opening[n][m].target \in Node
       /\ \A c \in circuits[n] : {c.initiator, c.target} \subseteq Node
       /\ OneEach(circuits[n]) /\ OneEach(ends[n]) /\ OneEach(pending[n])
       /\ \A p \in pending[n] : p.id \in Nat /\ p.id < counter[n]

LEMMA WithoutOneEach ==
  ASSUME NEW S, OneEach(S), NEW id
  PROVE  OneEach(Without(S, id)) /\ \A c : c.id = id => OneEach(Without(S, id) \cup {c})
BY DEF OneEach, Without

\* A step that leaves the tables alone, or only takes something out.
LEMMA FewerTables ==
  ASSUME Tables, UNCHANGED <<opening, counter>>,
         DOMAIN circuits' = Node, DOMAIN ends' = Node, DOMAIN pending' = Node, DOMAIN peers' = Node,
         \A n \in Node : /\ circuits'[n] \subseteq circuits[n] /\ ends'[n] \subseteq ends[n]
                         /\ pending'[n] \subseteq pending[n] /\ peers'[n] \subseteq peers[n]
  PROVE  Tables'
BY DEF Tables, OneEach

LEMMA StoreTables ==
  ASSUME Tables, NEW n \in Node, NEW m \in Node, StoreCircuit(n, m) PROVE Tables'
<1> DEFINE o == opening[n][m]
           c == [id |-> o.id, initiator |-> m, target |-> o.target]
<1>1. /\ o # NoOpen /\ circuits' = [circuits EXCEPT ![n] = Without(@, o.id) \cup {c}]
      /\ opening' = [opening EXCEPT ![n][m] = NoOpen] /\ UNCHANGED <<ends, pending, counter, peers>>
  BY DEF StoreCircuit
<1>2. c.id = o.id /\ {c.initiator, c.target} \subseteq Node
  BY <1>1 DEF Tables
<1>3. OneEach(circuits'[n]) /\ \A d \in circuits'[n] : {d.initiator, d.target} \subseteq Node
  <2>1. circuits'[n] = Without(circuits[n], o.id) \cup {c}
    BY <1>1 DEF Tables
  <2>2. OneEach(Without(circuits[n], o.id) \cup {c})
    BY <1>2, WithoutOneEach DEF Tables
  <2>3. QED
    BY <1>2, <2>1, <2>2 DEF Tables, Without
<1> HIDE DEF o, c
<1>4. \A k \in Node : k # n => circuits'[k] = circuits[k]
  BY <1>1 DEF Tables
<1>5. DOMAIN circuits' = Node /\ DOMAIN opening' = Node
  BY <1>1 DEF Tables
<1>6. \A k \in Node : DOMAIN opening'[k] = Node /\
        \A l \in Node : opening'[k][l] # NoOpen => opening'[k][l] = opening[k][l]
  BY <1>1 DEF Tables
<1>7. QED
  BY <1>1, <1>3, <1>4, <1>5, <1>6 DEF Tables

LEMMA OpenTables ==
  ASSUME Tables, NEW n \in Node, NEW m \in Node, TakeOpen(n, m) PROVE Tables'
<1>1. UNCHANGED <<circuits, ends, pending, counter, peers>>
  BY DEF TakeOpen
<1>2. CASE UNCHANGED opening
  BY <1>1, <1>2, FewerTables DEF Tables
<1>3. CASE ~UNCHANGED opening
  <2> DEFINE o == Head(wire[m][n])
  <2>1. o.target \in peers[n] /\ opening' = [opening EXCEPT ![n][m] = [id |-> o.id, target |-> o.target]]
    BY <1>3 DEF TakeOpen
  <2> HIDE DEF o
  <2>2. DOMAIN opening' = Node /\ \A k \in Node : DOMAIN opening'[k] = Node
    BY <2>1 DEF Tables
  <2>3. \A k, l \in Node : opening'[k][l] = opening[k][l] \/ opening'[k][l].target \in Node
    BY <2>1 DEF Tables
  <2>4. QED
    BY <1>1, <2>2, <2>3 DEF Tables
<1>4. QED
  BY <1>2, <1>3

\* A new end replaces the one with its id.
LEMMA EndTables ==
  ASSUME Tables, NEW n \in Node, NEW id, NEW e, e.id = id,
         ends' = [ends EXCEPT ![n] = Without(@, id) \cup {e}],
         pending' = pending \/ pending' = [pending EXCEPT ![n] = Without(@, id)],
         UNCHANGED <<circuits, counter, opening, peers>>
  PROVE  Tables'
<1>1. OneEach(Without(ends[n], id) \cup {e}) /\ OneEach(Without(pending[n], id))
  BY WithoutOneEach DEF Tables
<1>2. DOMAIN ends' = Node /\ \A k \in Node : OneEach(ends'[k])
  BY <1>1 DEF Tables
<1>3. DOMAIN pending' = Node /\ \A k \in Node : pending'[k] \subseteq pending[k]
  BY DEF Tables, Without
<1>4. \A k \in Node : OneEach(pending'[k])
  BY <1>3 DEF Tables, OneEach
<1>5. QED
  BY <1>2, <1>3, <1>4 DEF Tables

LEMMA TakeTables ==
  ASSUME Tables, NEW n \in Node, NEW m \in Node, Take(n, m) PROVE Tables'
<1>1. CASE TakeForward(n, m)
  <2> DEFINE f == Head(wire[m][n])
             e == [id |-> f.id, relay |-> m, remote |-> f.initiator, role |-> "target"]
  <2>1. /\ ends' = [ends EXCEPT ![n] = Without(@, f.id) \cup {e}] /\ e.id = f.id
        /\ UNCHANGED <<circuits, pending, counter, opening, peers>>
    BY <1>1 DEF TakeForward
  <2> HIDE DEF e
  <2>2. QED
    BY <2>1, EndTables
<1>2. CASE TakeAccept(n, m)
  <2> DEFINE id == Head(wire[m][n]).id
             e == [id |-> id, relay |-> m, remote |-> With(pending[n], id).target, role |-> "initiator"]
  <2>1. UNCHANGED <<circuits, counter, opening, peers>>
    BY <1>2 DEF TakeAccept
  <2>2. CASE UNCHANGED <<ends, pending>>
    BY <2>1, <2>2, FewerTables DEF Tables
  <2>3. CASE ~UNCHANGED <<ends, pending>>
    <3>1. /\ ends' = [ends EXCEPT ![n] = Without(@, id) \cup {e}] /\ e.id = id
          /\ pending' = [pending EXCEPT ![n] = Without(@, id)]
      BY <1>2, <2>3 DEF TakeAccept
    <3> HIDE DEF e
    <3>2. QED
      BY <2>1, <3>1, EndTables
  <2>4. QED
    BY <2>2, <2>3
<1>3. CASE TakeData(n, m) \/ TakeClose(n, m)
  <2>1. /\ DOMAIN circuits' = Node /\ DOMAIN ends' = Node
        /\ \A k \in Node : circuits'[k] \subseteq circuits[k] /\ ends'[k] \subseteq ends[k]
    <3>1. CASE TakeData(n, m)
      BY <3>1 DEF TakeData, Tables, Without
    <3>2. CASE TakeClose(n, m)
      BY <3>2 DEF TakeClose, Tables, Without
    <3>3. QED
      BY <1>3, <3>1, <3>2
  <2>2. UNCHANGED <<pending, peers, counter, opening>>
    BY <1>3 DEF TakeData, TakeClose
  <2>3. QED
    BY <2>1, <2>2, FewerTables DEF Tables
<1>4. QED
  BY <1>1, <1>2, <1>3, OpenTables, StoreTables DEF Take

LEMMA CloseEndTables ==
  ASSUME Tables, NEW n \in Node, NEW id, CloseEnd(n, id) PROVE Tables'
<1>1. CASE UNCHANGED <<circuitVars, peers>>
  BY <1>1, FewerTables DEF circuitVars, Tables
<1>2. CASE id \in Ids(ends[n])
  <2>1. /\ ends' = [ends EXCEPT ![n] = Without(@, id)]
        /\ pending' = [pending EXCEPT ![n] = Without(@, id)]
        /\ UNCHANGED <<circuits, counter, opening, peers>>
    BY <1>2 DEF CloseEnd
  <2>2. /\ DOMAIN ends' = Node /\ DOMAIN pending' = Node
        /\ \A k \in Node : ends'[k] \subseteq ends[k] /\ pending'[k] \subseteq pending[k]
    BY <2>1 DEF Tables, Without
  <2>3. QED
    BY <2>1, <2>2, FewerTables DEF Tables
<1>3. QED
  BY <1>1, <1>2 DEF CloseEnd

LEMMA BeginTables ==
  ASSUME Tables, NEW c \in Call, NEW n \in Node, NEW relay \in Node, NEW target \in Node,
         Begin(c, n, relay, target)
  PROVE  Tables'
<1> DEFINE p == [id |-> counter[n], target |-> target]
<1>1. /\ counter' = [counter EXCEPT ![n] = @ + 1]
      /\ pending' = [pending EXCEPT ![n] = @ \cup {p}] /\ p.id = counter[n]
      /\ UNCHANGED <<circuits, ends, opening, peers>>
  BY DEF Begin
<1> HIDE DEF p
<1>2. counter' \in [Node -> Nat] /\ counter'[n] = counter[n] + 1 /\ counter[n] \in Nat
  BY <1>1 DEF Tables
<1>3. \A k \in Node : k # n => counter'[k] = counter[k] /\ pending'[k] = pending[k]
  BY <1>1 DEF Tables
<1>4. DOMAIN pending' = Node /\ pending'[n] = pending[n] \cup {p}
  BY <1>1 DEF Tables
<1>5. OneEach(pending'[n])
  BY <1>1, <1>2, <1>4 DEF Tables, OneEach
<1>6. \A q \in pending'[n] : q.id \in Nat /\ q.id < counter'[n]
  BY <1>1, <1>2, <1>4 DEF Tables
<1>7. QED
  BY <1>1, <1>2, <1>3, <1>4, <1>5, <1>6 DEF Tables

LEMMA BreakTables ==
  ASSUME Tables, NEW n \in Node, NEW m \in Node, Deactivate(n, m) PROVE Tables'
<1> DEFINE gone == {c \in circuits[n] : m \in {c.initiator, c.target}}
           lost == {e \in ends[n] : e.relay = m}
<1>1. /\ circuits' = [circuits EXCEPT ![n] = @ \ gone] /\ ends' = [ends EXCEPT ![n] = @ \ lost]
      /\ peers' = [peers EXCEPT ![n] = @ \ {m}] /\ UNCHANGED <<pending, counter, opening>>
  BY DEF Deactivate
<1> HIDE DEF gone, lost
<1>2. /\ DOMAIN circuits' = Node /\ DOMAIN ends' = Node /\ DOMAIN peers' = Node
      /\ \A k \in Node : /\ circuits'[k] \subseteq circuits[k] /\ ends'[k] \subseteq ends[k]
                         /\ peers'[k] \subseteq peers[k]
  BY <1>1 DEF Tables
<1>3. QED
  BY <1>1, <1>2, FewerTables DEF Tables

\* Calls, their channels and tasks.
Alive(n) == {c \in Call : call[c].node = n /\ call[c].stage \in Live}
TasksOf(n) == {t \in tasks : t.node = n}

\* Whoever counts itself down has been counted.
Counted ==
  /\ call \in CallType /\ \A c \in Call : call[c].stage # "none" => call[c].node \in Node
  /\ \A t \in tasks : t.node \in Node /\ "node" \in DOMAIN t
  /\ active \in [Node -> Nat]
  /\ \A n \in Node : /\ IsFiniteSet(Alive(n)) /\ IsFiniteSet(TasksOf(n))
                     /\ Cardinality(Alive(n)) + Cardinality(TasksOf(n)) <= active[n]

Channels ==
  /\ DOMAIN inbox = Node \cup {c \in Call : call[c].stage \in Live}
  /\ listener \in [Node -> Channel]

LEMMA OneLess ==
  ASSUME NEW S, IsFiniteSet(S), NEW x
  PROVE  /\ IsFiniteSet(S \ {x}) /\ Cardinality(S) \in Nat /\ Cardinality(S \ {x}) \in Nat
         /\ Cardinality(S \ {x}) <= Cardinality(S)
         /\ x \in S => Cardinality(S \ {x}) = Cardinality(S) - 1
<1>1. /\ IsFiniteSet(S \ {x})
      /\ Cardinality(S \ {x}) = IF x \in S THEN Cardinality(S) - 1 ELSE Cardinality(S)
  BY FS_RemoveElement
<1>2. Cardinality(S) \in Nat /\ Cardinality(S \ {x}) \in Nat
  BY <1>1, FS_CardinalityType
<1>3. QED
  BY <1>1, <1>2

LEMMA OneMore ==
  ASSUME NEW S, IsFiniteSet(S), NEW x
  PROVE  /\ IsFiniteSet(S \cup {x}) /\ Cardinality(S) \in Nat /\ Cardinality(S \cup {x}) \in Nat
         /\ Cardinality(S \cup {x}) <= Cardinality(S) + 1
<1>1. /\ IsFiniteSet(S \cup {x})
      /\ Cardinality(S \cup {x}) = IF x \in S THEN Cardinality(S) ELSE Cardinality(S) + 1
  BY FS_AddElement
<1>2. Cardinality(S) \in Nat /\ Cardinality(S \cup {x}) \in Nat
  BY <1>1, FS_CardinalityType
<1>3. QED
  BY <1>1, <1>2

LEMMA Numbers ==
  ASSUME Counted, NEW n \in Node
  PROVE  /\ Cardinality(Alive(n)) \in Nat /\ Cardinality(TasksOf(n)) \in Nat /\ active[n] \in Nat
         /\ Cardinality(Alive(n)) + Cardinality(TasksOf(n)) <= active[n]
BY FS_CardinalityType DEF Counted

LEMMA BeginCounted ==
  ASSUME Counted, counter \in [Node -> Nat],
         NEW c \in Call, NEW n \in Node, NEW relay \in Node, NEW target \in Node,
         Begin(c, n, relay, target)
  PROVE  Counted'
<1> DEFINE x == [node |-> n, relay |-> relay, target |-> target, id |-> counter[n], stage |-> "opening"]
<1>1. /\ call' = [call EXCEPT ![c] = x] /\ call[c].stage = "none"
      /\ active' = [active EXCEPT ![n] = @ + 1] /\ UNCHANGED tasks
  BY DEF Begin
<1>2. /\ x.node = n /\ x.stage = "opening"
      /\ x \in [node : Node \cup {0}, relay : Node \cup {0}, target : Node \cup {0}, id : Nat, stage : Stages]
  BY DEF Stages
<1> HIDE DEF x
<1>3. call \in CallType /\ call' \in CallType
  BY <1>1, <1>2 DEF Counted, CallType
<1>4. call'[c] = x /\ \A d \in Call : d # c => call'[d] = call[d]
  BY <1>1, <1>3 DEF CallType
<1>5. Alive(n)' = Alive(n) \cup {c} /\ \A k \in Node : k # n => Alive(k)' = Alive(k)
  BY <1>1, <1>2, <1>4 DEF Alive, Live
<1>6. \A k \in Node : TasksOf(k)' = TasksOf(k)
  BY <1>1 DEF TasksOf
<1>7. active' \in [Node -> Nat] /\ active'[n] = active[n] + 1 /\ \A k \in Node : k # n => active'[k] = active[k]
  BY <1>1 DEF Counted
<1>8. ASSUME NEW k \in Node
      PROVE  /\ IsFiniteSet(Alive(k)') /\ IsFiniteSet(TasksOf(k)')
             /\ Cardinality(Alive(k)') + Cardinality(TasksOf(k)') <= active'[k]
  <2>1. /\ IsFiniteSet(Alive(k) \cup {c}) /\ Cardinality(Alive(k) \cup {c}) \in Nat
        /\ Cardinality(Alive(k) \cup {c}) <= Cardinality(Alive(k)) + 1
    BY OneMore DEF Counted
  <2>2. /\ IsFiniteSet(TasksOf(k)) /\ IsFiniteSet(Alive(k)) /\ active[k] \in Nat
        /\ Cardinality(Alive(k)) \in Nat /\ Cardinality(TasksOf(k)) \in Nat
        /\ Cardinality(Alive(k)) + Cardinality(TasksOf(k)) <= active[k]
    BY Numbers DEF Counted
  <2>3. CASE k = n
    <3>1. Alive(k)' = Alive(k) \cup {c} /\ TasksOf(k)' = TasksOf(k) /\ active'[k] = active[k] + 1
      BY <1>5, <1>6, <1>7, <2>3
    <3>2. QED
      BY <2>1, <2>2, <3>1
  <2>4. CASE k # n
    BY <1>5, <1>6, <1>7, <2>2, <2>4
  <2>5. QED
    BY <2>3, <2>4
<1>9. \A d \in Call : call'[d].stage # "none" => call'[d].node \in Node
  BY <1>2, <1>4 DEF Counted
<1>10. QED
  BY <1>1, <1>3, <1>7, <1>8, <1>9 DEF Counted

\* A living call goes to another stage; it may count itself down if it then is dead.
LEMMA StageCounted ==
  ASSUME Counted, NEW c \in Call, call[c].stage \in Live, NEW s \in Stages \ {"none"},
         call' = [call EXCEPT ![c].stage = s], UNCHANGED tasks,
         \/ UNCHANGED active
         \/ s \notin Live /\ active' = [active EXCEPT ![call[c].node] = @ - 1]
  PROVE  Counted'
<1>0. PICK n \in Node : n = call[c].node
  BY DEF Counted, Live
<1>1. /\ call \in CallType /\ n \in Node /\ call' \in CallType
      /\ call'[c].stage = s /\ call'[c].node = n /\ \A d \in Call : d # c => call'[d] = call[d]
  BY <1>0 DEF Counted, CallType, Live
<1>2. \A k \in Node : TasksOf(k)' = TasksOf(k)
  BY DEF TasksOf
<1>3. c \in Alive(n) /\ \A k \in Node : k # n => Alive(k)' = Alive(k)
  BY <1>0, <1>1 DEF Alive
<1>4. Alive(n)' = IF s \in Live THEN Alive(n) ELSE Alive(n) \ {c}
  BY <1>1, <1>3 DEF Alive
<1>5. /\ IsFiniteSet(Alive(n)) /\ IsFiniteSet(Alive(n) \ {c}) /\ Cardinality(Alive(n) \ {c}) \in Nat
      /\ Cardinality(Alive(n) \ {c}) = Cardinality(Alive(n)) - 1
  BY <1>1, <1>3, OneLess DEF Counted
<1>6. active[n] \in Nat /\ Cardinality(Alive(n)) \in Nat /\ Cardinality(TasksOf(n)) \in Nat
      /\ Cardinality(Alive(n)) + Cardinality(TasksOf(n)) <= active[n]
  BY <1>1, Numbers
<1>7. CASE UNCHANGED active
  <2>1. /\ IsFiniteSet(Alive(n)')
        /\ Cardinality(Alive(n)') + Cardinality(TasksOf(n)') <= active'[n]
    <3>1. TasksOf(n)' = TasksOf(n) /\ active'[n] = active[n]
      BY <1>1, <1>2, <1>7
    <3>2. QED
      BY <1>4, <1>5, <1>6, <3>1
  <2>2. QED
    BY <1>1, <1>2, <1>3, <1>7, <2>1 DEF Counted
<1>8. CASE s \notin Live /\ active' = [active EXCEPT ![n] = @ - 1]
  <2>1. Alive(n)' = Alive(n) \ {c} /\ active[n] - 1 \in Nat
    BY <1>4, <1>5, <1>6, <1>8
  <2>2. /\ active' \in [Node -> Nat] /\ active'[n] = active[n] - 1
        /\ \A k \in Node : k # n => active'[k] = active[k]
    BY <1>1, <1>8, <2>1 DEF Counted
  <2>3. /\ IsFiniteSet(Alive(n)')
        /\ Cardinality(Alive(n)') + Cardinality(TasksOf(n)') <= active'[n]
    <3>1. TasksOf(n)' = TasksOf(n)
      BY <1>1, <1>2
    <3>2. QED
      BY <1>5, <1>6, <2>1, <2>2, <3>1
  <2>4. QED
    BY <1>1, <1>2, <1>3, <2>2, <2>3 DEF Counted
<1>9. QED
  BY <1>0, <1>7, <1>8

LEMMA CallCounted ==
  ASSUME Counted, NEW c \in Call, CallStep(c) \/ TimesOut(c) \/ Cancel(c) PROVE Counted'
<1>1. CASE UNCHANGED callVars
  BY <1>1 DEF callVars, Counted, Alive, TasksOf
<1>2. CASE Opened(c)
  BY <1>2, StageCounted DEF Opened, Stage, EndsCall, Live, Stages
<1>3. CASE GotExchange(c)
  BY <1>3, StageCounted DEF GotExchange, Stage, EndsCall, Live, Stages
<1>4. CASE Failed(c) \/ TimesOut(c)
  BY <1>4, StageCounted DEF Failed, TimesOut, EndsCall, Live, Stages
<1>5. CASE Punched(c)
  BY <1>5, StageCounted DEF Punched, EndsCall, Live, Stages
<1>6. CASE Cancel(c)
  BY <1>6, StageCounted DEF Cancel, Live, Stages
<1>7. CASE Ignored(c)
  BY <1>1, <1>7 DEF Ignored
<1>8. QED
  BY <1>2, <1>3, <1>4, <1>5, <1>6, <1>7 DEF CallStep

LEMMA DispatchCounted == ASSUME Counted, NEW n \in Node, Dispatch(n) PROVE Counted'
<1>1. UNCHANGED call
  BY DEF Dispatch
<1>2. CASE UNCHANGED <<tasks, active>>
  BY <1>1, <1>2 DEF Counted, Alive, TasksOf
<1>3. CASE ~UNCHANGED <<tasks, active>>
  <2> DEFINE e == Head(inbox[n])
             t == [node |-> n, id |-> e.id, call |-> e.payload.call, stage |-> "gathering"]
  <2>1. /\ tasks' = tasks \cup {t} /\ active' = [active EXCEPT ![n] = @ + 1]
        /\ t.node = n /\ "node" \in DOMAIN t
    BY <1>3 DEF Dispatch
  <2> HIDE DEF t
  <2>2. /\ active' \in [Node -> Nat] /\ active'[n] = active[n] + 1
        /\ \A k \in Node : k # n => active'[k] = active[k]
    BY <2>1 DEF Counted
  <2>3. TasksOf(n)' = TasksOf(n) \cup {t} /\ \A k \in Node : k # n => TasksOf(k)' = TasksOf(k)
    BY <2>1 DEF TasksOf
  <2>4. \A k \in Node : Alive(k)' = Alive(k)
    BY <1>1 DEF Alive
  <2>5. /\ IsFiniteSet(TasksOf(n)') /\ Cardinality(TasksOf(n)') \in Nat
        /\ Cardinality(TasksOf(n)') <= Cardinality(TasksOf(n)) + 1
    <3>1. IsFiniteSet(TasksOf(n))
      BY DEF Counted
    <3>2. /\ IsFiniteSet(TasksOf(n) \cup {t}) /\ Cardinality(TasksOf(n) \cup {t}) \in Nat
          /\ Cardinality(TasksOf(n) \cup {t}) <= Cardinality(TasksOf(n)) + 1
      BY <3>1, OneMore
    <3>3. QED
      BY <2>3, <3>2
  <2>6. Cardinality(Alive(n)') + Cardinality(TasksOf(n)') <= active'[n]
    <3>1. /\ Cardinality(Alive(n)) \in Nat /\ Cardinality(TasksOf(n)) \in Nat /\ active[n] \in Nat
          /\ Cardinality(Alive(n)) + Cardinality(TasksOf(n)) <= active[n]
      BY Numbers
    <3>2. Alive(n)' = Alive(n) /\ active'[n] = active[n] + 1
      BY <2>2, <2>4
    <3>3. QED
      BY <2>5, <3>1, <3>2
  <2>7. ASSUME NEW k \in Node
        PROVE  /\ IsFiniteSet(Alive(k)') /\ IsFiniteSet(TasksOf(k)')
               /\ Cardinality(Alive(k)') + Cardinality(TasksOf(k)') <= active'[k]
    <3>1. CASE k = n
      BY <2>4, <2>5, <2>6, <3>1 DEF Counted
    <3>2. CASE k # n
      BY <2>2, <2>3, <2>4, <3>2 DEF Counted
    <3>3. QED
      BY <3>1, <3>2
  <2>8. \A x \in tasks' : x.node \in Node /\ "node" \in DOMAIN x
    BY <2>1 DEF Counted
  <2>9. QED
    BY <1>1, <2>2, <2>7, <2>8 DEF Counted
<1>4. QED
  BY <1>2, <1>3

\* A task moves on, or is done and counts itself down.
LEMMA MovedCounted ==
  ASSUME Counted, NEW t \in tasks, NEW s, Moved(t, s), UNCHANGED <<call, active>> PROVE Counted'
<1> DEFINE u == [t EXCEPT !.stage = s]
           n == t.node
<1>1. n \in Node /\ u.node = n /\ "node" \in DOMAIN u /\ tasks' = (tasks \ {t}) \cup {u}
  BY DEF Counted, Moved
<1> HIDE DEF u
<1>2. TasksOf(n)' = (TasksOf(n) \ {t}) \cup {u} /\ \A k \in Node : k # n => TasksOf(k)' = TasksOf(k)
  BY <1>1 DEF TasksOf
<1>3. \A k \in Node : Alive(k)' = Alive(k)
  BY DEF Alive
<1>4. t \in TasksOf(n)
  BY DEF TasksOf
<1> HIDE DEF n
<1>5. /\ IsFiniteSet(TasksOf(n) \ {t}) /\ Cardinality(TasksOf(n)) \in Nat
      /\ Cardinality(TasksOf(n) \ {t}) = Cardinality(TasksOf(n)) - 1
  BY <1>1, <1>4, OneLess DEF Counted
<1>6. /\ IsFiniteSet(TasksOf(n)') /\ Cardinality(TasksOf(n)') \in Nat
      /\ Cardinality(TasksOf(n)') <= Cardinality(TasksOf(n))
  <2> DEFINE S == TasksOf(n) \ {t}
  <2>1. IsFiniteSet(S) /\ TasksOf(n)' = S \cup {u} /\ Cardinality(S) = Cardinality(TasksOf(n)) - 1
    BY <1>2, <1>5
  <2> HIDE DEF S
  <2>2. /\ IsFiniteSet(S \cup {u}) /\ Cardinality(S \cup {u}) \in Nat /\ Cardinality(S) \in Nat
        /\ Cardinality(S \cup {u}) <= Cardinality(S) + 1
    BY <2>1, OneMore
  <2>3. QED
    BY <1>5, <2>1, <2>2
<1>7. Cardinality(Alive(n)') + Cardinality(TasksOf(n)') <= active'[n]
  BY <1>1, <1>3, <1>6, Numbers
<1>8. QED
  BY <1>1, <1>2, <1>3, <1>6, <1>7 DEF Counted

LEMMA EndsTaskCounted ==
  ASSUME Counted, NEW t \in tasks, EndsTask(t), UNCHANGED call PROVE Counted'
<1> DEFINE n == t.node
<1>1. n \in Node /\ tasks' = tasks \ {t} /\ active' = [active EXCEPT ![n] = @ - 1]
  BY DEF Counted, EndsTask
<1>2. TasksOf(n)' = TasksOf(n) \ {t} /\ \A k \in Node : k # n => TasksOf(k)' = TasksOf(k)
  BY <1>1 DEF TasksOf
<1>3. \A k \in Node : Alive(k)' = Alive(k)
  BY DEF Alive
<1>4. t \in TasksOf(n)
  BY DEF TasksOf
<1> HIDE DEF n
<1>5. /\ IsFiniteSet(TasksOf(n)') /\ Cardinality(TasksOf(n)) \in Nat /\ Cardinality(TasksOf(n)') \in Nat
      /\ Cardinality(TasksOf(n)') = Cardinality(TasksOf(n)) - 1
  BY <1>1, <1>2, <1>4, OneLess DEF Counted
<1>6. active[n] - 1 \in Nat /\ Cardinality(Alive(n)') + Cardinality(TasksOf(n)') <= active[n] - 1
  BY <1>1, <1>3, <1>5, Numbers
<1>7. /\ active' \in [Node -> Nat] /\ active'[n] = active[n] - 1
      /\ \A k \in Node : k # n => active'[k] = active[k]
  BY <1>1, <1>6 DEF Counted
<1>8. QED
  BY <1>1, <1>2, <1>3, <1>5, <1>6, <1>7 DEF Counted

LEMMA TaskCounted == ASSUME Counted, NEW t \in tasks, TaskStep(t) PROVE Counted'
BY MovedCounted, EndsTaskCounted DEF TaskStep, Reply, CloseTask, PunchedTask

\* Channels come with a call and go with it.
LEMMA SameChannels ==
  ASSUME Channels, DOMAIN inbox' = DOMAIN inbox, UNCHANGED <<call, listener>> PROVE Channels'
BY DEF Channels

LEMMA FiredDomain == ASSUME NEW n, NEW e PROVE DOMAIN Fired(n, e) = DOMAIN inbox
BY DEF Fired

LEMMA TakeChannels ==
  ASSUME Channels, NEW n \in Node, NEW m \in Node, Take(n, m), UNCHANGED call PROVE Channels'
<1>1. UNCHANGED listener
  BY DEF Take, TakeOpen, StoreCircuit, TakeForward, TakeAccept, TakeData, TakeClose
<1>2. DOMAIN inbox' = DOMAIN inbox
  BY FiredDomain DEF Take, TakeOpen, StoreCircuit, TakeForward, TakeAccept, TakeData, TakeClose
<1>3. QED
  BY <1>1, <1>2, SameChannels

LEMMA StageChannels ==
  ASSUME Channels, call \in CallType, NEW c \in Call, call[c].stage \in Live, NEW s \in Stages,
         call' = [call EXCEPT ![c].stage = s], UNCHANGED listener,
         DOMAIN inbox' = IF s \in Live THEN DOMAIN inbox ELSE DOMAIN inbox \ {c}
  PROVE  Channels'
<1>1. call'[c].stage = s /\ \A d \in Call : d # c => call'[d] = call[d]
  BY DEF CallType
<1>2. c \notin Node
  BY CallAssumption
<1>3. QED
  BY <1>1, <1>2 DEF Channels

LEMMA CallChannels ==
  ASSUME Channels, call \in CallType, NEW c \in Call, CallStep(c) \/ TimesOut(c) \/ Cancel(c)
  PROVE  Channels'
<1> USE DEF handlerVars
<1>1. DOMAIN Rest(c) = DOMAIN inbox
  BY DEF Rest
<1>2. ASSUME NEW s \in Stages \ Live, EndsCall(c, s), call[c].stage \in Live, UNCHANGED listener
      PROVE  Channels'
  BY <1>2, StageChannels DEF EndsCall
<1>3. ASSUME NEW s \in Live, Stage(c, s), call[c].stage \in Live, UNCHANGED listener, inbox' = Rest(c)
      PROVE  Channels'
  BY <1>1, <1>3, StageChannels DEF Stage, Live, Stages
<1>4. "failed" \in Stages \ Live /\ "done" \in Stages \ Live /\ "cancelled" \in Stages \ Live
      /\ "asking" \in Live /\ "punching" \in Live /\ "opening" \in Live
  BY DEF Stages, Live
<1>5. CASE Opened(c)
  BY <1>2, <1>3, <1>4, <1>5 DEF Opened, SendData
<1>6. CASE GotExchange(c)
  BY <1>2, <1>3, <1>4, <1>6 DEF GotExchange, CloseEnd
<1>7. CASE Ignored(c)
  BY <1>1, <1>7, SameChannels DEF Ignored, callVars
<1>8. CASE Failed(c)
  BY <1>2, <1>4, <1>8 DEF Failed
<1>9. CASE TimesOut(c)
  BY <1>2, <1>4, <1>9 DEF TimesOut
<1>10. CASE Punched(c)
  BY <1>2, <1>4, <1>10 DEF Punched
<1>11. CASE Cancel(c)
  BY <1>4, <1>11, StageChannels DEF Cancel
<1>12. QED
  BY <1>5, <1>6, <1>7, <1>8, <1>9, <1>10, <1>11 DEF CallStep

LEMMA BeginChannels ==
  ASSUME Channels, call \in CallType,
         NEW c \in Call, NEW n \in Node, NEW relay \in Node, NEW target \in Node,
         Begin(c, n, relay, target)
  PROVE  Channels'
<1>1. DOMAIN inbox' = DOMAIN inbox \cup {c} /\ listener' = [listener EXCEPT ![n] = c]
  BY DEF Begin
<1>2. call'[c].stage = "opening" /\ \A d \in Call : d # c => call'[d] = call[d]
  BY DEF Begin, CallType
<1>3. listener' \in [Node -> Channel]
  BY <1>1, CallAssumption DEF Channels
<1>4. QED
  BY <1>1, <1>2, <1>3 DEF Channels, Live

MatchTyped == Tables /\ Counted /\ Channels

LEMMA MatchTypedStep == MatchTyped /\ [MatchNext]_matchVars => MatchTyped'
<1> SUFFICES ASSUME MatchTyped, [MatchNext]_matchVars PROVE MatchTyped'
  OBVIOUS
<1> USE DEF MatchTyped
<1>1. call \in CallType /\ counter \in [Node -> Nat]
  BY DEF Counted, Tables
<1>2. ASSUME UNCHANGED <<circuitVars, peers>> PROVE Tables'
  BY <1>2, FewerTables DEF circuitVars, Tables
<1>3. ASSUME UNCHANGED callVars PROVE Counted'
  BY <1>3 DEF callVars, Counted, Alive, TasksOf
<1>4. ASSUME NEW c \in Call, NEW n \in Node, NEW relay \in Node, NEW target \in Node,
             Begin(c, n, relay, target)
      PROVE  MatchTyped'
  BY <1>1, <1>4, BeginTables, BeginCounted, BeginChannels
<1>5. ASSUME NEW c \in Call, CallStep(c) \/ TimesOut(c) \/ Cancel(c) PROVE MatchTyped'
  <2>1. Tables'
    <3>1. CASE GotExchange(c)
      <4>1. call[c].node \in Node
        BY <3>1 DEF GotExchange, Counted
      <4>2. QED
        BY <1>2, <3>1, <4>1, CloseEndTables DEF GotExchange, handlerVars
    <3>2. CASE ~GotExchange(c)
      BY <1>2, <1>5, <3>2 DEF CallStep, Opened, SendData, Ignored, Failed, Punched, TimesOut, Cancel, handlerVars
    <3>3. QED
      BY <3>1, <3>2
  <2>2. QED
    BY <1>1, <1>5, <2>1, CallCounted, CallChannels
<1>6. ASSUME NEW t \in tasks, TaskStep(t) PROVE MatchTyped'
  <2>1. Tables'
    <3>1. CASE CloseTask(t)
      <4>1. t.node \in Node
        BY DEF Counted
      <4>2. QED
        BY <3>1, <4>1, CloseEndTables DEF CloseTask
    <3>2. CASE Reply(t) \/ PunchedTask(t)
      BY <1>2, <3>2 DEF Reply, SendData, PunchedTask, handlerVars
    <3>3. QED
      BY <1>6, <3>1, <3>2 DEF TaskStep
  <2>2. UNCHANGED <<call, inbox, listener>>
    BY <1>6 DEF TaskStep, Reply, SendData, CloseTask, CloseEnd, PunchedTask, handlerVars
  <2>3. QED
    BY <1>6, <2>1, <2>2, TaskCounted, SameChannels
<1>7. ASSUME NEW n \in Node, Dispatch(n) PROVE MatchTyped'
  <2>1. UNCHANGED <<circuitVars, peers, call, listener>> /\ DOMAIN inbox' = DOMAIN inbox
    BY <1>7 DEF Dispatch, Rest, handlerVars
  <2>2. QED
    BY <1>2, <1>7, <2>1, DispatchCounted, SameChannels
<1>8. ASSUME NEW n \in Node, NEW m \in Node, Relays(n, m) PROVE MatchTyped'
  BY <1>3, <1>8, TakeTables, TakeChannels DEF Relays, callVars
<1>9. ASSUME NEW n \in Node, NEW m \in Node, Breaks(n, m) PROVE MatchTyped'
  <2>1. UNCHANGED <<callVars, listener>> /\ DOMAIN inbox' = DOMAIN inbox
    BY <1>9, Zenon DEF Breaks, Deactivate
  <2>2. Tables'
    BY <1>9, BreakTables DEF Breaks
  <2>3. QED
    BY <1>3, <2>1, <2>2, SameChannels DEF callVars
<1>10. CASE UNCHANGED matchVars
  BY <1>2, <1>3, <1>10, SameChannels DEF matchVars, relayVars, callVars
<1>11. QED
  BY <1>4, <1>5, <1>6, <1>7, <1>8, <1>9, <1>10 DEF MatchNext

\* Tables, channels, calls and counters have their types: every table of a node has one
\* entry per id, a relayed circuit is between two nodes, every call that lives has its
\* channel, and matchmake_counter is never counted down below zero, for calls and tasks
\* count themselves down once at most (initiate_matchmake, handle_incoming_matchmake).
THEOREM MatchTypeCorrect == MatchSpec => []TypeOK
<1>1. MatchInit => MatchTyped
  <2> SUFFICES ASSUME MatchInit PROVE MatchTyped
    OBVIOUS
  <2>1. Tables
    BY DEF MatchInit, RelayInit, Tables, OneEach
  <2>2. call \in CallType /\ \A c \in Call : call[c].stage = "none"
    BY DEF MatchInit, Unmade, CallType, Stages
  <2>3. \A n \in Node : Alive(n) = {} /\ TasksOf(n) = {}
    BY <2>2 DEF MatchInit, Alive, TasksOf, Live
  <2>4. IsFiniteSet({}) /\ Cardinality({}) = 0
    BY FS_EmptySet
  <2>5. Counted
    BY <2>2, <2>3, <2>4 DEF MatchInit, Counted
  <2>6. Channels
    BY <2>2, RelayAssumption DEF MatchInit, RelayInit, Channels, Live
  <2>7. QED
    BY <2>1, <2>5, <2>6 DEF MatchTyped
<1>2. MatchTyped => TypeOK
  BY DEF MatchTyped, Tables, Counted, Channels, CallType, OneEach, TypeOK
<1>3. QED
  BY <1>1, <1>2, MatchTypedStep, PTL DEF MatchSpec
================================================================================
