------------------------------ MODULE Peering_proofs -----------------------------
(* For any nodes, requests and bounds: two nodes that were left alone agree on    *)
(* whether they are peers, no address is given twice, and no invite is used twice *)
(* as long as the files are rewritten by one request at a time.  Every variable   *)
(* has its type, and nobody is a peer of itself.                                  *)
EXTENDS Peering, FiniteSetTheorems, SequenceTheorems, TLAPS

Requests == {"invite", "redeem", "lan", "accept", "open", "forget"}

Subnet == 2 .. MaxAddress

Entry    == [id : Node \cup {0}, key : Node, addr : Address, trust : Trust]
File     == [name : Node \cup {0}, key : Node, psk : Job, addr : Address]
Pending  == [psk : Job, addr : Subnet]
Handling == [kind : Requests \cup {"none", "done"}, host : Node \cup {0}, guest : Node \cup {0},
             psk : Job \cup {NoJob}, addr : Nat, copy : SUBSET (Subnet \cup Pending), at : Nat]

\* Where a request is.
Place(j) == <<job[j].kind, job[j].at>>

AtFile    == {<<"invite", 2>>, <<"lan", 2>>, <<"open", 3>>}
AtInvites == {<<"invite", 4>>, <<"lan", 4>>, <<"redeem", 3>>, <<"lan", 8>>, <<"accept", 2>>}

\* It holds an address from the assignment to the invite, and from the invite to
\* the list.
Holding == {<<"invite", 3>>, <<"invite", 4>>, <<"lan", 3>>, <<"lan", 4>>, <<"lan", 9>>,
            <<"lan", 10>>, <<"redeem", 4>>, <<"redeem", 5>>, <<"accept", 3>>, <<"accept", 4>>,
            <<"open", 4>>, <<"open", 5>>}

Running(j) ==
  /\ job[j].kind \in Requests /\ job[j].at \in 1 .. Len(Program[job[j].kind])
  /\ job[j].host \in Node /\ job[j].guest \in Node
  /\ job[j].kind # "forget" => job[j].psk \in Job /\ job[j].host # job[j].guest
  /\ Place(j) \in AtFile => job[j].copy \in SUBSET Subnet
  /\ Place(j) \in AtInvites => job[j].copy \in SUBSET Pending
  /\ Place(j) \in Holding => job[j].addr \in Subnet

\* The types of the variables the proofs are about.
Typed ==
  /\ listed \in [Node -> Seq(Entry)]
  /\ tunnel \in [Node -> [Node -> [psk : Job \cup {NoJob}, addr : Address]]]
  /\ saved \in [Node -> SUBSET File]
  /\ invites \in [Node -> SUBSET Pending]
  /\ addresses \in [Node -> SUBSET Subnet]
  /\ codes \subseteq [psk : Job, host : Node]
  /\ job \in [Job -> Handling]
  /\ \A j \in Job : Busy(j) => Running(j)

--------------------------------------------------------------------------------
(* The programs.                                                               *)

LEMMA Lengths ==
  /\ Len(Program["invite"]) = 4 /\ Len(Program["redeem"]) = 6 /\ Len(Program["lan"]) = 11
  /\ Len(Program["accept"]) = 4 /\ Len(Program["open"]) = 7 /\ Len(Program["forget"]) = 2
BY DEF Program, Generate, RedeemSteps, LanSteps, AcceptSteps, OpenSteps, ForgetSteps, Complete

LEMMA InviteProgram ==
  LET p == Program["invite"] IN
  p[1] = H("readAddresses") /\ p[2] = H("assign") /\ p[3] = H("readInvites") /\ p[4] = H("invite")
BY DEF Program, Generate

LEMMA RedeemProgram ==
  LET p == Program["redeem"] IN
  /\ p[1] = G("tunnel") /\ p[2] = H("readInvites") /\ p[3] = H("take") /\ p[4] = H("tunnel")
  /\ p[5] = H("list") /\ p[6] = G("list")
BY DEF Program, RedeemSteps, Complete

LEMMA LanProgram ==
  LET p == Program["lan"] IN
  /\ p[1] = H("readAddresses") /\ p[2] = H("assign") /\ p[3] = H("readInvites")
  /\ p[4] = H("invite") /\ p[5] = G("race") /\ p[6] = G("tunnel") /\ p[7] = H("readInvites")
  /\ p[8] = H("take") /\ p[9] = H("tunnel") /\ p[10] = H("list") /\ p[11] = G("list")
BY DEF Program, LanSteps, Generate, Complete

LEMMA AcceptProgram ==
  LET p == Program["accept"] IN
  p[1] = H("readInvites") /\ p[2] = H("take") /\ p[3] = H("tunnel") /\ p[4] = H("list")
BY DEF Program, AcceptSteps, Complete

LEMMA OpenProgram ==
  LET p == Program["open"] IN
  /\ p[1] = H("admit") /\ p[2] = H("readAddresses") /\ p[3] = H("assign") /\ p[4] = H("tunnel")
  /\ p[5] = H("push") /\ p[6] = G("tunnel") /\ p[7] = G("list")
BY DEF Program, OpenSteps

LEMMA ForgetProgram ==
  LET p == Program["forget"] IN p[1] = H("drop") /\ p[2] = H("close")
BY DEF Program, ForgetSteps

\* The places of every step.
LEMMA Places ==
  ASSUME NEW j \in Job, Busy(j), Running(j)
  PROVE  /\ At(j, "readAddresses") => Place(j) \in {<<"invite", 1>>, <<"lan", 1>>, <<"open", 2>>}
         /\ At(j, "assign") <=> Place(j) \in AtFile
         /\ At(j, "readInvites") => Place(j) \in {<<"invite", 3>>, <<"lan", 3>>, <<"lan", 7>>,
                                                  <<"redeem", 2>>, <<"accept", 1>>}
         /\ At(j, "invite") <=> Place(j) \in {<<"invite", 4>>, <<"lan", 4>>}
         /\ At(j, "take") <=> Place(j) \in {<<"redeem", 3>>, <<"lan", 8>>, <<"accept", 2>>}
         /\ At(j, "tunnel") => Place(j) \in {<<"redeem", 1>>, <<"redeem", 4>>, <<"lan", 6>>,
                <<"lan", 9>>, <<"accept", 3>>, <<"open", 4>>, <<"open", 6>>}
         /\ At(j, "list") => Place(j) \in {<<"redeem", 5>>, <<"redeem", 6>>, <<"lan", 10>>,
                <<"lan", 11>>, <<"accept", 4>>, <<"open", 7>>}
         /\ At(j, "race") => Place(j) = <<"lan", 5>>
         /\ At(j, "admit") => Place(j) = <<"open", 1>>
         /\ At(j, "push") => Place(j) = <<"open", 5>>
         /\ At(j, "drop") => Place(j) = <<"forget", 1>>
         /\ At(j, "close") => Place(j) = <<"forget", 2>>
         /\ AtHost(j) <=> Place(j) \notin {<<"redeem", 1>>, <<"redeem", 6>>, <<"lan", 5>>,
                <<"lan", 6>>, <<"lan", 11>>, <<"open", 6>>, <<"open", 7>>}
<1> USE DEF At, Now, AtHost, Place, H, G, AtFile
<1>1. CASE job[j].kind = "invite"
  BY <1>1, Lengths, InviteProgram DEF Running
<1>2. CASE job[j].kind = "redeem"
  BY <1>2, Lengths, RedeemProgram DEF Running
<1>3. CASE job[j].kind = "lan"
  BY <1>3, Lengths, LanProgram DEF Running
<1>4. CASE job[j].kind = "accept"
  BY <1>4, Lengths, AcceptProgram DEF Running
<1>5. CASE job[j].kind = "open"
  BY <1>5, Lengths, OpenProgram DEF Running
<1>6. CASE job[j].kind = "forget"
  BY <1>6, Lengths, ForgetProgram DEF Running
<1>7. QED
  BY <1>1, <1>2, <1>3, <1>4, <1>5, <1>6 DEF Running, Requests

--------------------------------------------------------------------------------
(* How a request goes on.                                                      *)

Others(j) == \A k \in Job : k # j => job'[k] = job[k]

\* It ends, or goes on to its next step with this address and this copy.
Ends(j) == Others(j) /\ job'[j].at = 0 /\ job'[j].kind = "done"

Moves(j, addr, copy) ==
  /\ Others(j)
  /\ job[j].at # Len(Program[job[j].kind]) =>
       job'[j] = [job[j] EXCEPT !.at = job[j].at + 1, !.addr = addr, !.copy = copy]
  /\ job[j].at = Len(Program[job[j].kind]) => job'[j].at = 0 /\ job'[j].kind = "done"

LEMMA EndEnds ==
  ASSUME Typed, NEW j \in Job, job' = End(j)
  PROVE  Ends(j) /\ job' \in [Job -> Handling]
<1>1. job' = [job EXCEPT ![j] = NoRequest("done")] /\ job \in [Job -> Handling]
  BY DEF End, Typed
<1>2. NoRequest("done") \in Handling
  BY DEF NoRequest, Handling
<1>3. NoRequest("done").at = 0 /\ NoRequest("done").kind = "done"
  BY DEF NoRequest
<1>4. QED
  BY <1>1, <1>2, <1>3 DEF Ends, Others

LEMMA ProceedMoves ==
  ASSUME Typed, NEW j \in Job, Busy(j)
  PROVE  /\ Proceed(j) \in [Job -> Handling]
         /\ \A k \in Job : k # j => Proceed(j)[k] = job[k]
         /\ job[j].at # Len(Program[job[j].kind]) =>
              Proceed(j)[j] = [job[j] EXCEPT !.at = job[j].at + 1]
         /\ job[j].at = Len(Program[job[j].kind]) =>
              Proceed(j)[j].at = 0 /\ Proceed(j)[j].kind = "done"
<1>1. job \in [Job -> Handling]
  BY DEF Typed
<1>2. NoRequest("done") \in Handling
  BY DEF NoRequest, Handling
<1>3. [job[j] EXCEPT !.at = job[j].at + 1] \in Handling
  BY <1>1 DEF Handling
<1>4. NoRequest("done").at = 0 /\ NoRequest("done").kind = "done"
  BY DEF NoRequest
<1>5. CASE job[j].at = Len(Program[job[j].kind])
  BY <1>1, <1>2, <1>4, <1>5 DEF Proceed, End
<1>6. CASE job[j].at # Len(Program[job[j].kind])
  <2>1. Proceed(j) = [job EXCEPT ![j] = [job[j] EXCEPT !.at = job[j].at + 1]]
    BY <1>6 DEF Proceed
  <2>2. QED
    BY <1>1, <1>3, <1>6, <2>1
<1>7. QED
  BY <1>5, <1>6

LEMMA MovesOn ==
  ASSUME Typed, NEW j \in Job, Busy(j), job' = Proceed(j)
  PROVE  Moves(j, job[j].addr, job[j].copy) /\ job' \in [Job -> Handling]
<1>1. job[j] \in Handling
  BY DEF Typed
<1>2. [job[j] EXCEPT !.at = job[j].at + 1] =
        [job[j] EXCEPT !.at = job[j].at + 1, !.addr = job[j].addr, !.copy = job[j].copy]
  BY <1>1 DEF Handling
<1>3. QED
  BY <1>2, ProceedMoves DEF Moves, Others

LEMMA MovesWithCopy ==
  ASSUME Typed, NEW j \in Job, Busy(j), NEW c \in SUBSET (Subnet \cup Pending),
         job' = [Proceed(j) EXCEPT ![j].copy = c]
  PROVE  Moves(j, job[j].addr, c) /\ job' \in [Job -> Handling]
<1> DEFINE p == Proceed(j)
<1>1. p \in [Job -> Handling] /\ job[j] \in Handling
  BY ProceedMoves DEF Typed
<1>2. job' = [p EXCEPT ![j] = [p[j] EXCEPT !.copy = c]]
  OBVIOUS
<1>3. [p[j] EXCEPT !.copy = c] \in Handling
  BY <1>1 DEF Handling
<1>4. /\ [p[j] EXCEPT !.copy = c].at = p[j].at /\ [p[j] EXCEPT !.copy = c].kind = p[j].kind
      /\ [[job[j] EXCEPT !.at = job[j].at + 1] EXCEPT !.copy = c] =
           [job[j] EXCEPT !.at = job[j].at + 1, !.addr = job[j].addr, !.copy = c]
  BY <1>1 DEF Handling
<1> HIDE DEF p
<1>5. job' \in [Job -> Handling] /\ job'[j] = [p[j] EXCEPT !.copy = c]
      /\ \A k \in Job : k # j => job'[k] = p[k]
  BY <1>1, <1>2, <1>3
<1>6. QED
  BY <1>4, <1>5, ProceedMoves DEF Moves, Others, p

LEMMA MovesWithBoth ==
  ASSUME Typed, NEW j \in Job, Busy(j), NEW a \in Nat, NEW c \in SUBSET (Subnet \cup Pending),
         job' = [Proceed(j) EXCEPT ![j].addr = a, ![j].copy = c]
  PROVE  Moves(j, a, c) /\ job' \in [Job -> Handling]
<1> DEFINE p == Proceed(j)
           r == [[p[j] EXCEPT !.addr = a] EXCEPT !.copy = c]
<1>1. p \in [Job -> Handling] /\ job[j] \in Handling
  BY ProceedMoves DEF Typed
<1>2. job' = [p EXCEPT ![j] = r]
  BY <1>1
<1>3. r \in Handling
  BY <1>1 DEF Handling
<1>4. r.at = p[j].at /\ r.kind = p[j].kind
  BY <1>1 DEF Handling
<1>5. [[[job[j] EXCEPT !.at = job[j].at + 1] EXCEPT !.addr = a] EXCEPT !.copy = c] =
        [job[j] EXCEPT !.at = job[j].at + 1, !.addr = a, !.copy = c]
  BY <1>1 DEF Handling
<1>6. p[j] = [job[j] EXCEPT !.at = job[j].at + 1] =>
        r = [job[j] EXCEPT !.at = job[j].at + 1, !.addr = a, !.copy = c]
  BY <1>5
<1> HIDE DEF p, r
<1>7. job' \in [Job -> Handling] /\ job'[j] = r /\ \A k \in Job : k # j => job'[k] = p[k]
  BY <1>1, <1>2, <1>3
<1>8. QED
  BY <1>4, <1>6, <1>7, ProceedMoves DEF Moves, Others, p

LEMMA MovedFields ==
  ASSUME Typed, NEW j \in Job, NEW a, NEW c, Moves(j, a, c),
         job[j].at # Len(Program[job[j].kind])
  PROVE  /\ job'[j].kind = job[j].kind /\ job'[j].at = job[j].at + 1
         /\ job'[j].host = job[j].host /\ job'[j].guest = job[j].guest
         /\ job'[j].psk = job[j].psk /\ job'[j].addr = a /\ job'[j].copy = c
<1>1. job[j] \in Handling
  BY DEF Typed
<1>2. job'[j] = [job[j] EXCEPT !.at = job[j].at + 1, !.addr = a, !.copy = c]
  BY DEF Moves
<1>3. QED
  BY <1>1, <1>2 DEF Handling

\* The place a request comes to.
Following(j) == <<job[j].kind, job[j].at + 1>>

LEMMA RunsOn ==
  ASSUME Typed, NEW j \in Job, Busy(j), NEW a, NEW c, Moves(j, a, c), job' \in [Job -> Handling],
         Following(j) \in AtFile => c \in SUBSET Subnet,
         Following(j) \in AtInvites => c \in SUBSET Pending,
         Following(j) \in Holding => a \in Subnet
  PROVE  \A k \in Job : Busy(k)' => Running(k)'
<1>1. ASSUME NEW k \in Job, k # j, Busy(k)' PROVE Running(k)'
  <2>1. job'[k] = job[k]
    BY <1>1 DEF Moves, Others
  <2>2. Running(k)
    BY <1>1, <2>1 DEF Busy, Typed
  <2>3. QED
    BY <2>1, <2>2 DEF Running, Place
<1>2. ASSUME Busy(j)' PROVE Running(j)'
  <2>1. job[j].at # Len(Program[job[j].kind]) /\ Running(j)
    BY <1>2 DEF Busy, Moves, Typed
  <2>2. job[j].at + 1 \in 1 .. Len(Program[job[j].kind])
    BY <2>1, Lengths DEF Running, Requests
  <2>3. /\ job'[j].kind = job[j].kind /\ job'[j].at = job[j].at + 1
        /\ job'[j].host = job[j].host /\ job'[j].guest = job[j].guest
        /\ job'[j].psk = job[j].psk /\ job'[j].addr = a /\ job'[j].copy = c
    BY <2>1, MovedFields
  <2>4. Place(j)' = Following(j)
    BY <2>3 DEF Place, Following
  <2>5. QED
    BY <2>1, <2>2, <2>3, <2>4 DEF Running
<1>3. QED
  BY <1>1, <1>2

LEMMA RestRuns ==
  ASSUME Typed, NEW j \in Job, Ends(j)
  PROVE  \A k \in Job : Busy(k)' => Running(k)'
<1>1. ASSUME NEW k \in Job, Busy(k)' PROVE Running(k)'
  <2>1. job'[k] = job[k] /\ Running(k)
    BY <1>1 DEF Busy, Ends, Others, Typed
  <2>2. QED
    BY <2>1 DEF Running, Place
<1>2. QED
  BY <1>1

--------------------------------------------------------------------------------
(* What every step does to its request.                                        *)

LEMMA ReadAddressesMoves ==
  ASSUME Typed, NEW j \in Job, ReadAddresses(j)
  PROVE  /\ Busy(j) /\ Running(j) /\ AtHost(j) /\ job' \in [Job -> Handling]
         /\ Place(j) \in {<<"invite", 1>>, <<"lan", 1>>, <<"open", 2>>}
         /\ Moves(j, job[j].addr, addresses[job[j].host])
<1>1. Busy(j) /\ Running(j) /\ At(j, "readAddresses")
  BY DEF ReadAddresses, At, Typed
<1>2. Place(j) \in {<<"invite", 1>>, <<"lan", 1>>, <<"open", 2>>} /\ AtHost(j)
  BY <1>1, Places
<1>3. addresses[job[j].host] \in SUBSET (Subnet \cup Pending)
  BY <1>1 DEF Running, Typed
<1>4. job' = [Proceed(j) EXCEPT ![j].copy = addresses[job[j].host]]
  BY <1>2 DEF ReadAddresses, Here
<1>5. QED
  BY <1>1, <1>2, <1>3, <1>4, MovesWithCopy

LEMMA AssignMoves ==
  ASSUME Typed, NEW j \in Job, Assign(j)
  PROVE  /\ Busy(j) /\ Running(j) /\ AtHost(j) /\ job' \in [Job -> Handling]
         /\ Place(j) \in AtFile
         /\ \E a \in Subnet : /\ a \notin job[j].copy /\ Moves(j, a, {})
                              /\ addresses' = [addresses EXCEPT ![job[j].host] = job[j].copy \cup {a}]
<1>1. Busy(j) /\ Running(j) /\ At(j, "assign")
  BY DEF Assign, At, Typed
<1>2. Place(j) \in AtFile /\ AtHost(j)
  BY <1>1, Places DEF AtFile
<1>3. PICK a \in Subnet :
        /\ a \notin job[j].copy
        /\ addresses' = [addresses EXCEPT ![job[j].host] = job[j].copy \cup {a}]
        /\ job' = [Proceed(j) EXCEPT ![j].addr = a, ![j].copy = {}]
  BY <1>2 DEF Assign, IsNext, Here, Subnet
<1>4. a \in Nat /\ {} \in SUBSET (Subnet \cup Pending)
  BY ConstantsAssumption DEF Subnet
<1>5. QED
  BY <1>1, <1>2, <1>3, <1>4, MovesWithBoth

LEMMA ReadInvitesMoves ==
  ASSUME Typed, NEW j \in Job, ReadInvites(j)
  PROVE  /\ Busy(j) /\ Running(j) /\ AtHost(j) /\ job' \in [Job -> Handling]
         /\ Place(j) \in {<<"invite", 3>>, <<"lan", 3>>, <<"lan", 7>>, <<"redeem", 2>>,
                          <<"accept", 1>>}
         /\ Moves(j, job[j].addr, invites[job[j].host])
<1>1. Busy(j) /\ Running(j) /\ At(j, "readInvites")
  BY DEF ReadInvites, At, Typed
<1>2. /\ Place(j) \in {<<"invite", 3>>, <<"lan", 3>>, <<"lan", 7>>, <<"redeem", 2>>, <<"accept", 1>>}
      /\ AtHost(j)
  BY <1>1, Places
<1>3. invites[job[j].host] \in SUBSET (Subnet \cup Pending)
  BY <1>1 DEF Running, Typed
<1>4. job' = [Proceed(j) EXCEPT ![j].copy = invites[job[j].host]]
  BY <1>2 DEF ReadInvites, Here
<1>5. QED
  BY <1>1, <1>2, <1>3, <1>4, MovesWithCopy

LEMMA InviteMoves ==
  ASSUME Typed, NEW j \in Job, Invite(j)
  PROVE  /\ Busy(j) /\ Running(j) /\ AtHost(j) /\ job' \in [Job -> Handling]
         /\ Place(j) \in {<<"invite", 4>>, <<"lan", 4>>}
         /\ Moves(j, job[j].addr, {})
         /\ [psk |-> job[j].psk, addr |-> job[j].addr] \in Pending
         /\ invites' = [invites EXCEPT ![job[j].host] =
                          job[j].copy \cup {[psk |-> job[j].psk, addr |-> job[j].addr]}]
         /\ codes' = IF job[j].kind = "lan" THEN codes
                     ELSE codes \cup {[psk |-> job[j].psk, host |-> job[j].host]}
<1>1. Busy(j) /\ Running(j) /\ At(j, "invite")
  BY DEF Invite, At, Typed
<1>2. Place(j) \in {<<"invite", 4>>, <<"lan", 4>>} /\ AtHost(j)
  BY <1>1, Places
<1>3. [psk |-> job[j].psk, addr |-> job[j].addr] \in Pending
  BY <1>1, <1>2 DEF Running, Holding, Pending, Place
<1>4. {} \in SUBSET (Subnet \cup Pending) /\ job' = [Proceed(j) EXCEPT ![j].copy = {}]
  BY DEF Invite
<1>5. Moves(j, job[j].addr, {}) /\ job' \in [Job -> Handling]
  BY <1>1, <1>4, MovesWithCopy
<1>6. QED
  BY <1>1, <1>2, <1>3, <1>5 DEF Invite, Here

LEMMA TakeMoves ==
  ASSUME Typed, NEW j \in Job, Take(j)
  PROVE  /\ Busy(j) /\ Running(j) /\ AtHost(j) /\ job' \in [Job -> Handling]
         /\ Place(j) \in {<<"redeem", 3>>, <<"lan", 8>>, <<"accept", 2>>}
         /\ invites' = [invites EXCEPT ![job[j].host] = job[j].copy \ Invited(j)]
         /\ \E i \in Invited(j) : i \in Pending /\ Moves(j, i.addr, {})
<1>1. Busy(j) /\ Running(j) /\ At(j, "take")
  BY DEF Take, At, Typed
<1>2. Place(j) \in {<<"redeem", 3>>, <<"lan", 8>>, <<"accept", 2>>} /\ AtHost(j)
  BY <1>1, Places
<1>3. PICK i \in Invited(j) : job' = [Proceed(j) EXCEPT ![j].addr = i.addr, ![j].copy = {}]
  BY DEF Take
<1>4. i \in Pending
  BY <1>1, <1>2, <1>3 DEF Running, AtInvites, Invited
<1>5. i.addr \in Nat /\ {} \in SUBSET (Subnet \cup Pending)
  BY <1>4, ConstantsAssumption DEF Subnet, Pending
<1>6. Moves(j, i.addr, {}) /\ job' \in [Job -> Handling]
  BY <1>1, <1>3, <1>5, MovesWithBoth
<1>7. QED
  BY <1>1, <1>2, <1>3, <1>4, <1>6 DEF Take, Here

LEMMA UntakenMoves ==
  ASSUME Typed, NEW j \in Job, Untaken(j)
  PROVE  /\ Busy(j) /\ Running(j) /\ AtHost(j) /\ job' \in [Job -> Handling]
         /\ Place(j) \in {<<"redeem", 3>>, <<"lan", 8>>, <<"accept", 2>>}
         /\ \/ Ends(j)
            \/ /\ Others(j) /\ Place(j)' = <<"lan", 11>>
               /\ job'[j].host = job[j].host /\ job'[j].guest = job[j].guest
               /\ job'[j].psk = job[j].psk /\ job'[j].addr = job[j].addr
         /\ \A k \in Job : Busy(k)' => Running(k)'
<1>1. Busy(j) /\ Running(j) /\ At(j, "take")
  BY DEF Untaken, At, Typed
<1>2. Place(j) \in {<<"redeem", 3>>, <<"lan", 8>>, <<"accept", 2>>} /\ AtHost(j)
  BY <1>1, Places
<1>3. CASE job[j].kind = "lan"
  <2> DEFINE r == [[job[j] EXCEPT !.copy = {}] EXCEPT !.at = 11]
  <2>1. Len(LanSteps) = 11
    BY Lengths DEF Program
  <2>2. job' = [job EXCEPT ![j] = r]
    BY <1>3, <2>1 DEF Untaken, Typed
  <2>3. /\ r \in Handling /\ r.kind = "lan" /\ r.at = 11 /\ r.host = job[j].host
        /\ r.guest = job[j].guest /\ r.psk = job[j].psk /\ r.addr = job[j].addr /\ r.copy = {}
    BY <1>3 DEF Handling, Typed
  <2> HIDE DEF r
  <2>4. job' \in [Job -> Handling] /\ job'[j] = r /\ Others(j)
    BY <2>2, <2>3 DEF Typed, Others
  <2>5. Running(j)'
    <3>1. /\ job'[j].kind = "lan" /\ job'[j].at = 11 /\ job'[j].host = job[j].host
          /\ job'[j].guest = job[j].guest /\ job'[j].psk = job[j].psk
      BY <2>3, <2>4
    <3>2. Place(j)' \notin AtFile \cup AtInvites \cup Holding
      BY <3>1 DEF Place, AtFile, AtInvites, Holding
    <3>3. 11 \in 1 .. Len(Program["lan"]) /\ "lan" \in Requests
      BY Lengths DEF Requests
    <3>4. QED
      BY <1>1, <1>3, <3>1, <3>2, <3>3 DEF Running
  <2>6. \A k \in Job : k # j /\ Busy(k)' => Running(k)'
    BY <2>4 DEF Others, Typed, Busy, Running, Place
  <2>7. QED
    BY <1>1, <1>2, <2>3, <2>4, <2>5, <2>6 DEF Place
<1>4. CASE job[j].kind # "lan"
  <2>1. job' = End(j)
    BY <1>4 DEF Untaken
  <2>2. QED
    BY <1>1, <1>2, <2>1, EndEnds, RestRuns
<1>5. QED
  BY <1>3, <1>4

LEMMA TunnelMoves ==
  ASSUME Typed, NEW j \in Job, AddTunnel(j)
  PROVE  /\ Busy(j) /\ Running(j) /\ At(j, "tunnel") /\ job' \in [Job -> Handling]
         /\ Moves(j, job[j].addr, job[j].copy)
         /\ Here(j) \in Node /\ Peer(j) \in Node /\ job[j].psk \in Job
         /\ AddressFor(j) \in Address
         /\ \A m, k \in Node :
              tunnel'[m][k].psk = IF m = Here(j) /\ k = Peer(j) THEN job[j].psk ELSE tunnel[m][k].psk
         /\ tunnel' \in [Node -> [Node -> [psk : Job \cup {NoJob}, addr : Address]]]
         /\ saved' \in [Node -> SUBSET File]
         /\ \A m \in Node : \A f \in saved'[m] :
              f \in saved[m] \/ (m = Here(j) /\ f.psk = job[j].psk)
<1>1. Busy(j) /\ Running(j) /\ At(j, "tunnel")
  BY DEF AddTunnel, At, Typed
<1>2. Place(j) \in {<<"redeem", 1>>, <<"redeem", 4>>, <<"lan", 6>>, <<"lan", 9>>, <<"accept", 3>>,
                    <<"open", 4>>, <<"open", 6>>}
  BY <1>1, Places
<1>3. Here(j) \in Node /\ Peer(j) \in Node /\ job[j].psk \in Job
  BY <1>1, <1>2 DEF Running, Here, Peer, Place
<1>4. AddressFor(j) \in Address
  <2>1. Own \in Address
    BY ConstantsAssumption DEF Own, Address
  <2>2. AtHost(j) => job[j].addr \in Subnet
    BY <1>1, <1>2, Places DEF Running, Holding
  <2>3. Subnet \subseteq Address
    BY ConstantsAssumption DEF Subnet, Address
  <2>4. QED
    BY <2>1, <2>2, <2>3 DEF AddressFor
<1>5. tunnel' = [tunnel EXCEPT ![Here(j)] = Configured(tunnel[Here(j)], Peer(j), job[j].psk, AddressFor(j))]
  BY DEF AddTunnel
<1>6. \A k \in Node :
        LET c == Configured(tunnel[Here(j)], Peer(j), job[j].psk, AddressFor(j))[k] IN
        /\ c \in [psk : Job \cup {NoJob}, addr : Address]
        /\ c.psk = IF k = Peer(j) THEN job[j].psk ELSE tunnel[Here(j)][k].psk
  <2>1. tunnel[Here(j)] \in [Node -> [psk : Job \cup {NoJob}, addr : Address]]
    BY <1>3 DEF Typed
  <2>2. 0 \in Address
    BY ConstantsAssumption DEF Address
  <2>3. QED
    BY <1>3, <1>4, <2>1, <2>2 DEF Configured
<1>7. /\ tunnel' \in [Node -> [Node -> [psk : Job \cup {NoJob}, addr : Address]]]
      /\ \A m, k \in Node :
           tunnel'[m][k].psk = IF m = Here(j) /\ k = Peer(j) THEN job[j].psk ELSE tunnel[m][k].psk
  <2>1. DOMAIN Configured(tunnel[Here(j)], Peer(j), job[j].psk, AddressFor(j)) = Node
    BY DEF Configured
  <2>2. Configured(tunnel[Here(j)], Peer(j), job[j].psk, AddressFor(j))
          \in [Node -> [psk : Job \cup {NoJob}, addr : Address]]
    BY <1>6, <2>1 DEF Configured
  <2>3. QED
    BY <1>3, <1>5, <1>6, <2>2 DEF Typed
<1>8. job' = Proceed(j)
  BY DEF AddTunnel
<1> DEFINE file == [name |-> FileName(j), key |-> Peer(j), psk |-> job[j].psk, addr |-> AddressFor(j)]
<1>9. file \in File /\ file.psk = job[j].psk
  BY <1>3, <1>4 DEF File, FileName
<1>10. saved' = [saved EXCEPT ![Here(j)] = {f \in saved[Here(j)] : f.name # FileName(j)} \cup {file}]
  BY DEF AddTunnel
<1> HIDE DEF file
<1>11. /\ saved' \in [Node -> SUBSET File]
       /\ \A m \in Node : \A f \in saved'[m] :
            f \in saved[m] \/ (m = Here(j) /\ f.psk = job[j].psk)
  BY <1>3, <1>9, <1>10 DEF Typed
<1>12. QED
  BY <1>1, <1>3, <1>4, <1>7, <1>8, <1>11, MovesOn

\* A node lists one more peer, at the end.
Appends(n, e) == listed' = [listed EXCEPT ![n] = Append(listed[n], e)]

LEMMA AppendLists ==
  ASSUME Typed, NEW n \in Node, NEW e \in Entry, Appends(n, e)
  PROVE  /\ listed' \in [Node -> Seq(Entry)]
         /\ \A k \in Node : k # n => listed'[k] = listed[k]
         /\ Len(listed'[n]) = Len(listed[n]) + 1 /\ Len(listed[n]) \in Nat
         /\ \A i \in 1 .. Len(listed[n]) : listed'[n][i] = listed[n][i]
         /\ listed'[n][Len(listed[n]) + 1] = e
         /\ \A k, m \in Node : Lists(k, m)' <=> Lists(k, m) \/ (k = n /\ m = e.key)
<1> DEFINE q == listed[n]
           r == Append(q, e)
<1>1. q \in Seq(Entry) /\ listed \in [Node -> Seq(Entry)]
  BY DEF Typed
<1>2. /\ r \in Seq(Entry) /\ Len(r) = Len(q) + 1 /\ Len(q) \in Nat
      /\ \A i \in 1 .. Len(q) : r[i] = q[i]
      /\ r[Len(q) + 1] = e
  BY <1>1, AppendProperties, LenProperties
<1>3. listed' = [listed EXCEPT ![n] = r]
  BY DEF Appends
<1> HIDE DEF r
<1>4. listed' \in [Node -> Seq(Entry)] /\ listed'[n] = r /\ \A k \in Node : k # n => listed'[k] = listed[k]
  BY <1>1, <1>2, <1>3
<1>5. ASSUME NEW m \in Node PROVE Lists(n, m)' <=> Lists(n, m) \/ m = e.key
  <2>1. (\E i \in 1 .. Len(q) + 1 : r[i].key = m) <=> (\E i \in 1 .. Len(q) : q[i].key = m) \/ m = e.key
    <3> HIDE DEF q
    <3>1. Len(q) + 1 \in 1 .. Len(q) + 1 /\ \A i \in 1 .. Len(q) : i \in 1 .. Len(q) + 1
      BY <1>2
    <3>2. \A i \in 1 .. Len(q) + 1 : i \in 1 .. Len(q) \/ i = Len(q) + 1
      BY <1>2
    <3>3. QED
      BY <1>2, <3>1, <3>2
  <2>2. QED
    BY <1>2, <1>4, <2>1 DEF Lists
<1>6. \A k, m \in Node : k # n => (Lists(k, m)' <=> Lists(k, m))
  BY <1>4 DEF Lists
<1>7. QED
  BY <1>2, <1>4, <1>5, <1>6

LEMMA ListMoves ==
  ASSUME Typed, NEW j \in Job, List(j)
  PROVE  /\ Busy(j) /\ Running(j) /\ At(j, "list") /\ job' \in [Job -> Handling]
         /\ Moves(j, job[j].addr, job[j].copy)
         /\ Here(j) \in Node /\ Peer(j) \in Node
         /\ \/ listed' = listed /\ Lists(Here(j), Peer(j))
            \/ \E e \in Entry : /\ Appends(Here(j), e)
                                /\ e.key = Peer(j) /\ e.addr = AddressFor(j)
<1>1. Busy(j) /\ Running(j) /\ At(j, "list")
  BY DEF List, At, Typed
<1>2. Place(j) \in {<<"redeem", 5>>, <<"redeem", 6>>, <<"lan", 10>>, <<"lan", 11>>, <<"accept", 4>>,
                    <<"open", 7>>}
  BY <1>1, Places
<1>3. Here(j) \in Node /\ Peer(j) \in Node
  BY <1>1, <1>2 DEF Running, Here, Peer
<1>4. AddressFor(j) \in Address
  <2>1. Own \in Address
    BY ConstantsAssumption DEF Own, Address
  <2>2. AtHost(j) => job[j].addr \in Subnet
    BY <1>1, <1>2, Places DEF Running, Holding
  <2>3. Subnet \subseteq Address
    BY ConstantsAssumption DEF Subnet, Address
  <2>4. QED
    BY <2>1, <2>2, <2>3 DEF AddressFor
<1>5. Moves(j, job[j].addr, job[j].copy) /\ job' \in [Job -> Handling]
  BY <1>1, MovesOn DEF List
<1>6. PICK id \in {0, Peer(j)} :
        listed' = [listed EXCEPT ![Here(j)] = IF Lists(Here(j), Peer(j)) THEN @
          ELSE Append(@, [id |-> id, key |-> Peer(j), addr |-> AddressFor(j), trust |-> "friend"])]
  BY DEF List
<1> DEFINE e == [id |-> id, key |-> Peer(j), addr |-> AddressFor(j), trust |-> "friend"]
<1>7. e \in Entry /\ e.key = Peer(j) /\ e.addr = AddressFor(j)
  BY <1>3, <1>4, <1>6 DEF Entry, Trust
<1>8. CASE Lists(Here(j), Peer(j))
  BY <1>1, <1>3, <1>5, <1>6, <1>8 DEF Typed
<1>9. CASE ~Lists(Here(j), Peer(j))
  <2>1. Appends(Here(j), e)
    BY <1>6, <1>9 DEF Appends
  <2>2. QED
    BY <1>1, <1>3, <1>5, <1>7, <2>1
<1>10. QED
  BY <1>8, <1>9

\* An entry of an interface is removed.
LEMMA CutsTunnel ==
  ASSUME Typed, NEW n \in Node, NEW m \in Node,
         tunnel' = [tunnel EXCEPT ![n][m] = NoTunnel]
  PROVE  /\ tunnel' \in [Node -> [Node -> [psk : Job \cup {NoJob}, addr : Address]]]
         /\ \A k, l \in Node : tunnel'[k][l] = IF k = n /\ l = m THEN NoTunnel ELSE tunnel[k][l]
<1>1. NoTunnel \in [psk : Job \cup {NoJob}, addr : Address]
  BY ConstantsAssumption DEF NoTunnel, Address
<1>2. tunnel[n] \in [Node -> [psk : Job \cup {NoJob}, addr : Address]]
  BY DEF Typed
<1>3. tunnel' = [tunnel EXCEPT ![n] = [tunnel[n] EXCEPT ![m] = NoTunnel]]
  OBVIOUS
<1>4. [tunnel[n] EXCEPT ![m] = NoTunnel] \in [Node -> [psk : Job \cup {NoJob}, addr : Address]]
  BY <1>1, <1>2
<1>5. QED
  BY <1>2, <1>3, <1>4 DEF Typed

LEMMA RaceMoves ==
  ASSUME Typed, NEW j \in Job, Race(j)
  PROVE  /\ Busy(j) /\ Running(j) /\ Place(j) = <<"lan", 5>> /\ job' \in [Job -> Handling]
         /\ job[j].guest \in Node /\ job[j].host \in Node
         /\ \/ Ends(j) /\ tunnel' = tunnel /\ saved' = saved
            \/ Moves(j, job[j].addr, job[j].copy) /\ tunnel' = tunnel /\ saved' = saved
            \/ /\ Moves(j, job[j].addr, job[j].copy)
               /\ tunnel' = [tunnel EXCEPT ![job[j].guest][job[j].host] = NoTunnel]
               /\ saved' = [saved EXCEPT ![job[j].guest] = {f \in saved[job[j].guest] : f.name # 0}]
<1>1. Busy(j) /\ Running(j) /\ At(j, "race")
  BY DEF Race, At, Typed
<1>2. Place(j) = <<"lan", 5>> /\ ~AtHost(j)
  BY <1>1, Places
<1>3. Here(j) = job[j].guest /\ Peer(j) = job[j].host /\ job[j].guest \in Node /\ job[j].host \in Node
  BY <1>1, <1>2 DEF Here, Peer, Running
<1> DEFINE n == job[j].guest
           p == job[j].host
           stop == Lists(n, p) \/ (tunnel[n][p] # NoTunnel /\ n < p)
           clear == ~Lists(n, p) /\ tunnel[n][p] # NoTunnel /\ n > p
<1>4. /\ job' = IF stop THEN End(j) ELSE Proceed(j)
      /\ clear => /\ tunnel' = [tunnel EXCEPT ![n][p] = NoTunnel]
                  /\ saved' = [saved EXCEPT ![n] = {f \in saved[n] : f.name # 0}]
      /\ ~clear => tunnel' = tunnel /\ saved' = saved
  BY <1>3 DEF Race
<1>5. ~(stop /\ clear)
  <2>1. n \in Nat /\ p \in Nat
    BY <1>3, ConstantsAssumption
  <2>2. ~(n < p /\ n > p)
    BY <2>1
  <2>3. QED
    BY <2>2, Zenon
<1> HIDE DEF stop, clear
<1>6. CASE stop
  BY <1>1, <1>2, <1>3, <1>4, <1>5, <1>6, EndEnds
<1>7. CASE ~stop
  BY <1>1, <1>2, <1>3, <1>4, <1>7, MovesOn
<1>8. QED
  BY <1>6, <1>7

LEMMA AdmitMoves ==
  ASSUME Typed, NEW j \in Job, Admit(j)
  PROVE  /\ Busy(j) /\ Running(j) /\ Place(j) = <<"open", 1>> /\ job' \in [Job -> Handling]
         /\ Ends(j) \/ (Moves(j, job[j].addr, job[j].copy) /\ ~Lists(job[j].host, job[j].guest))
<1>1. Busy(j) /\ Running(j) /\ At(j, "admit")
  BY DEF Admit, At, Typed
<1>2. Place(j) = <<"open", 1>> /\ AtHost(j)
  BY <1>1, Places
<1>3. job' = End(j) \/ (job' = Proceed(j) /\ ~Lists(job[j].host, job[j].guest))
  BY <1>2 DEF Admit, Here, Peer
<1>4. QED
  BY <1>1, <1>2, <1>3, EndEnds, MovesOn

LEMMA PushMoves ==
  ASSUME Typed, NEW j \in Job, Push(j)
  PROVE  /\ Busy(j) /\ Running(j) /\ Place(j) = <<"open", 5>> /\ job' \in [Job -> Handling]
         /\ Moves(j, job[j].addr, job[j].copy)
         /\ \E e \in Entry : /\ Appends(job[j].host, e)
                             /\ e.key = job[j].guest /\ e.addr = job[j].addr
<1>1. Busy(j) /\ Running(j) /\ At(j, "push")
  BY DEF Push, At, Typed
<1>2. Place(j) = <<"open", 5>> /\ AtHost(j)
  BY <1>1, Places
<1> DEFINE e == [id |-> job[j].guest, key |-> job[j].guest, addr |-> job[j].addr, trust |-> "public"]
<1>3. job[j].addr \in Subnet /\ job[j].guest \in Node
  BY <1>1, <1>2 DEF Running, Holding
<1>4. e \in Entry /\ e.key = job[j].guest /\ e.addr = job[j].addr
  BY <1>3, ConstantsAssumption DEF Entry, Trust, Subnet, Address
<1>5. Appends(job[j].host, e)
  BY <1>2 DEF Push, Appends, Here, Peer
<1>6. Moves(j, job[j].addr, job[j].copy) /\ job' \in [Job -> Handling]
  BY <1>1, MovesOn DEF Push
<1>7. QED
  BY <1>1, <1>2, <1>4, <1>5, <1>6

LEMMA WithoutKeeps ==
  ASSUME NEW list \in Seq(Entry), NEW id, NEW rest \in Without(list, id)
  PROVE  /\ rest \in Seq(Entry)
         /\ \E place \in [1 .. Len(rest) -> 1 .. Len(list)] :
              /\ \A i \in 1 .. Len(rest) : rest[i] = list[place[i]]
              /\ \A i, k \in 1 .. Len(rest) : i # k => place[i] # place[k]
<1> DEFINE kept == {i \in 1 .. Len(list) : list[i].id # id}
           size == Cardinality(kept)
<1>1. Len(list) \in Nat /\ \A i \in 1 .. Len(list) : list[i] \in Entry
  BY LenProperties
<1>2. size \in Nat
  <2>1. IsFiniteSet(1 .. Len(list))
    BY <1>1, FS_Interval
  <2>2. QED
    BY <2>1, FS_Subset, FS_CardinalityType
<1>3. PICK place \in [1 .. size -> kept] :
        /\ \A i, k \in 1 .. size : i < k => place[i] < place[k]
        /\ rest = [i \in 1 .. size |-> list[place[i]]]
  BY DEF Without
<1> HIDE DEF size
<1>4. \A i \in 1 .. size : place[i] \in 1 .. Len(list) /\ rest[i] \in Entry
  BY <1>1, <1>3
<1>5. rest \in Seq(Entry) /\ Len(rest) = size
  BY <1>2, <1>3, <1>4
<1>6. \A i, k \in 1 .. size : i # k => place[i] # place[k]
  <2>1. SUFFICES ASSUME NEW i \in 1 .. size, NEW k \in 1 .. size, i < k
                 PROVE  place[i] # place[k]
    BY <1>2
  <2>2. place[i] < place[k] /\ place[i] \in Int /\ place[k] \in Int
    BY <1>3, <2>1
  <2>3. QED
    BY <2>2
<1>7. place \in [1 .. size -> 1 .. Len(list)]
  BY <1>3
<1>8. \A i \in 1 .. size : rest[i] = list[place[i]]
  BY <1>3
<1>9. QED
  BY <1>5, <1>6, <1>7, <1>8

LEMMA DropMoves ==
  ASSUME Typed, NEW j \in Job, Drop(j)
  PROVE  /\ Busy(j) /\ Running(j) /\ Place(j) = <<"forget", 1>> /\ job' \in [Job -> Handling]
         /\ \A k \in Job : Busy(k)' => Running(k)'
         /\ \/ Ends(j) /\ listed' = listed
            \/ /\ Others(j) /\ Place(j)' = <<"forget", 2>>
               /\ job'[j].host = job[j].host /\ job'[j].psk = job[j].psk
               /\ \E id : \E rest \in Without(listed[job[j].host], id) :
                    listed' = [listed EXCEPT ![job[j].host] = rest]
<1>1. Busy(j) /\ Running(j) /\ At(j, "drop")
  BY DEF Drop, At, Typed
<1>2. Place(j) = <<"forget", 1>> /\ AtHost(j)
  BY <1>1, Places
<1>3. CASE ~Lists(Here(j), Peer(j))
  BY <1>1, <1>2, <1>3, EndEnds, RestRuns DEF Drop
<1>4. CASE Lists(Here(j), Peer(j))
  <2> DEFINE n == job[j].host
             list == listed[n]
             p == Proceed(j)
  <2>1. PICK asked \in 1 .. Len(list), i \in 1 .. Len(list) :
          /\ \E rest \in Without(list, list[asked].id) : listed' = [listed EXCEPT ![n] = rest]
          /\ job' = [p EXCEPT ![j].guest = list[i].key, ![j].addr = list[asked].id]
    BY <1>2, <1>4 DEF Drop, Here
  <2>2. list \in Seq(Entry)
    BY <1>1 DEF Running, Typed
  <2>3. list[i].key \in Node /\ list[asked].id \in Nat
    <3>1. list[i] \in Entry /\ list[asked] \in Entry
      <4> HIDE DEF list
      <4>1. QED
        BY <2>1, <2>2, LenProperties
    <3>2. list[asked].id \in Nat
      <4>1. list[asked].id \in Node \cup {0}
        BY <3>1, Zenon DEF Entry
      <4>2. Node \cup {0} \subseteq Nat
        BY ConstantsAssumption
      <4>3. QED
        BY <4>1, <4>2, Zenon
    <3>3. QED
      BY <3>1, <3>2 DEF Entry
  <2> DEFINE r == [[p[j] EXCEPT !.guest = list[i].key] EXCEPT !.addr = list[asked].id]
  <2>4. job[j].at = 1 /\ job[j].kind = "forget" /\ Len(Program["forget"]) = 2
    BY <1>2, Lengths DEF Place
  <2>5. /\ p \in [Job -> Handling] /\ \A k \in Job : k # j => p[k] = job[k]
        /\ p[j] = [job[j] EXCEPT !.at = 2] /\ job[j] \in Handling
    <3>1. job[j].at # Len(Program[job[j].kind]) /\ job[j].at + 1 = 2
      BY <2>4
    <3>2. p[j] = [job[j] EXCEPT !.at = job[j].at + 1]
      BY <1>1, <3>1, ProceedMoves
    <3>3. QED
      BY <1>1, <3>1, <3>2, ProceedMoves DEF Typed
  <2> HIDE DEF p
  <2>6. /\ r \in Handling /\ r.kind = "forget" /\ r.at = 2 /\ r.host = n
        /\ r.psk = job[j].psk /\ r.guest \in Node
    BY <2>3, <2>4, <2>5 DEF Handling
  <2>7. job' = [p EXCEPT ![j] = r]
    BY <2>1, <2>5
  <2> HIDE DEF r
  <2>8. job' \in [Job -> Handling] /\ job'[j] = r /\ Others(j)
    BY <2>5, <2>6, <2>7 DEF Others
  <2>9. Running(j)'
    <3>1. Place(j)' = <<"forget", 2>>
      BY <2>6, <2>8 DEF Place
    <3>2. Place(j)' \notin AtFile \cup AtInvites \cup Holding
      BY <3>1 DEF AtFile, AtInvites, Holding
    <3>3. 2 \in 1 .. Len(Program["forget"]) /\ "forget" \in Requests
      BY <2>4 DEF Requests
    <3>4. QED
      BY <1>1, <2>6, <2>8, <3>2, <3>3 DEF Running
  <2>10. \A k \in Job : k # j /\ Busy(k)' => Running(k)'
    BY <2>8 DEF Others, Typed, Busy, Running, Place
  <2>11. QED
    BY <1>1, <1>2, <2>1, <2>6, <2>8, <2>9, <2>10 DEF Place
<1>5. QED
  BY <1>3, <1>4

LEMMA CloseMoves ==
  ASSUME Typed, NEW j \in Job, Close(j)
  PROVE  /\ Busy(j) /\ Running(j) /\ Place(j) = <<"forget", 2>> /\ job' \in [Job -> Handling]
         /\ Ends(j)
         /\ tunnel' = [tunnel EXCEPT ![job[j].host][job[j].guest] = NoTunnel]
         /\ \A n \in Node : saved'[n] \subseteq saved[n]
         /\ saved' \in [Node -> SUBSET File]
<1>1. Busy(j) /\ Running(j) /\ At(j, "close")
  BY DEF Close, At, Typed
<1>2. Place(j) = <<"forget", 2>> /\ AtHost(j)
  BY <1>1, Places
<1>3. Moves(j, job[j].addr, job[j].copy) /\ job' \in [Job -> Handling]
  BY <1>1, MovesOn DEF Close
<1>4. Ends(j)
  BY <1>2, <1>3, Lengths DEF Moves, Ends, Place
<1>5. /\ \A n \in Node : saved'[n] \subseteq saved[n]
      /\ saved' \in [Node -> SUBSET File]
  BY DEF Close, Typed
<1>6. QED
  BY <1>1, <1>2, <1>3, <1>4, <1>5 DEF Close, Here, Peer

LEMMA AbandonEnds ==
  ASSUME Typed, NEW j \in Job, Abandon(j)
  PROVE  Ends(j) /\ job' \in [Job -> Handling] /\ Busy(j)
<1>1. job[j].at # 0
  BY DEF Abandon, Waits, Typed, Handling
<1>2. QED
  BY <1>1, EndEnds DEF Abandon, Busy

\* What a new request may be.
Starts(j) ==
  /\ job[j] = NoRequest("none") /\ Others(j) /\ job'[j].at = 1
  /\ job'[j].host \in Node /\ job'[j].guest \in Node /\ job'[j].host # job'[j].guest
  /\ \/ job'[j].kind \in {"invite", "lan", "open"} /\ job'[j].psk = j
     \/ /\ job'[j].kind \in {"redeem", "accept"}
        /\ \E c \in codes : job'[j].psk = c.psk /\ job'[j].host = c.host
     \/ job'[j].kind = "forget"
  /\ trouble \subseteq trouble'
  /\ job'[j].kind \in OneSided => "oneSided" \in trouble'
  /\ job'[j].kind \in Calls /\ Crossing(job'[j].host, job'[j].guest) => "crossed" \in trouble'

LEMMA AskStarts ==
  ASSUME Typed, NEW j \in Job, Ask(j) \/ Use(j)
  PROVE  /\ Starts(j) /\ job' \in [Job -> Handling]
         /\ \A k \in Job : Busy(k)' => Running(k)'
         /\ UNCHANGED <<listed, tunnel, saved, invites, addresses, codes>>
<1>1. PICK kind \in Requests, host \in Node, guest \in Node, psk \in Job \cup {NoJob} :
        /\ Request(j, kind, host, guest, psk, 0)
        /\ \/ kind \in {"invite", "lan", "open"} /\ psk = j
           \/ kind \in {"redeem", "accept"} /\ \E c \in codes : psk = c.psk /\ host = c.host
           \/ kind = "forget"
  <2>1. CASE Ask(j)
    BY <2>1 DEF Ask, Create, LanInvite, RedeemOpen, Forget, Requests
  <2>2. CASE Use(j)
    <3>1. PICK m \in Node, c \in codes :
            Request(j, "redeem", c.host, m, c.psk, 0) \/ Request(j, "accept", c.host, m, c.psk, 0)
      BY <2>2 DEF Use, Redeem, RedeemAccept
    <3>2. c.host \in Node /\ c.psk \in Job
      BY <3>1 DEF Typed
    <3>3. QED
      BY <3>1, <3>2 DEF Requests
  <2>3. QED
    BY <2>1, <2>2
<1> DEFINE r == [kind |-> kind, host |-> host, guest |-> guest, psk |-> psk, addr |-> 0,
                 copy |-> {}, at |-> 1]
<1>2. r \in Handling
  BY <1>1 DEF Handling
<1>3. /\ job[j] = NoRequest("none") /\ host # guest
      /\ job' = [job EXCEPT ![j] = r]
      /\ UNCHANGED <<listed, tunnel, saved, invites, addresses, codes>>
      /\ trouble' = trouble \cup (IF kind \in Calls /\ Crossing(host, guest)
                                    THEN {"crossed"} ELSE {})
                            \cup (IF kind \in OneSided THEN {"oneSided"} ELSE {})
  BY <1>1 DEF Request, files
<1>4. r.kind = kind /\ r.host = host /\ r.guest = guest /\ r.psk = psk /\ r.at = 1
  OBVIOUS
<1> HIDE DEF r
<1>5. job' \in [Job -> Handling] /\ job'[j] = r /\ Others(j)
  BY <1>2, <1>3 DEF Typed, Others
<1>6. Running(j)'
  <2>1. Place(j)' = <<kind, 1>>
    BY <1>4, <1>5 DEF Place
  <2>2. Place(j)' \notin AtFile \cup AtInvites \cup Holding
    BY <2>1 DEF AtFile, AtInvites, Holding
  <2>3. 1 \in 1 .. Len(Program[kind])
    <3>1. Len(Program[kind]) \in {2, 4, 6, 7, 11}
      BY <1>1, Lengths DEF Requests
    <3>2. \A l \in {2, 4, 6, 7, 11} : 1 \in 1 .. l
      OBVIOUS
    <3>3. QED
      BY <3>1, <3>2, Zenon
  <2>4. kind # "forget" => psk \in Job
    BY <1>1 DEF Typed
  <2>5. QED
    BY <1>3, <1>4, <1>5, <2>2, <2>3, <2>4 DEF Running
<1>7. \A k \in Job : k # j /\ Busy(k)' => Running(k)'
  BY <1>5 DEF Others, Typed, Busy, Running, Place
<1>8. Starts(j)
  BY <1>1, <1>3, <1>4, <1>5 DEF Starts
<1>9. QED
  BY <1>3, <1>5, <1>6, <1>7, <1>8

LEMMA AdministerEnds ==
  ASSUME Typed, NEW j \in Job, Administer(j)
  PROVE  /\ job[j] = NoRequest("none") /\ Ends(j) /\ job' \in [Job -> Handling]
         /\ UNCHANGED <<tunnel, saved, invites, addresses, codes, trouble>>
         /\ \/ listed' = listed
            \/ \E n \in Node : \E i \in 1 .. Len(listed[n]) : \E t \in Trust :
                 listed' = [listed EXCEPT ![n][i].trust = t]
<1>1. PICK kind : Quick(j, kind)
  BY DEF Administer, SwitchOpen, Deny, AssignToGroup, RemoveFromGroup, UpdateTrust
<1>2. \/ listed' = listed
      \/ \E n \in Node : \E i \in 1 .. Len(listed[n]) : \E t \in Trust :
           listed' = [listed EXCEPT ![n][i].trust = t]
  BY DEF Administer, SwitchOpen, Deny, AssignToGroup, RemoveFromGroup, UpdateTrust
<1>3. QED
  BY <1>1, <1>2, EndEnds DEF Quick

\* A change of trust leaves keys and addresses alone.
LEMMA TrustKeeps ==
  ASSUME Typed, NEW n \in Node, NEW i \in 1 .. Len(listed[n]), NEW t \in Trust,
         listed' = [listed EXCEPT ![n][i].trust = t]
  PROVE  /\ listed' \in [Node -> Seq(Entry)]
         /\ \A m \in Node : /\ Len(listed'[m]) = Len(listed[m])
                            /\ \A k \in 1 .. Len(listed[m]) : /\ listed'[m][k].key = listed[m][k].key
                                                              /\ listed'[m][k].addr = listed[m][k].addr
<1> DEFINE q == listed[n]
           e == [q[i] EXCEPT !.trust = t]
           r == [q EXCEPT ![i] = e]
<1>1. q \in Seq(Entry) /\ listed \in [Node -> Seq(Entry)]
  BY DEF Typed
<1>2. Len(q) \in Nat /\ DOMAIN q = 1 .. Len(q) /\ \A k \in 1 .. Len(q) : q[k] \in Entry
  BY <1>1, LenProperties
<1>3. e \in Entry /\ e.key = q[i].key /\ e.addr = q[i].addr
  BY <1>2 DEF Entry
<1>4. listed' = [listed EXCEPT ![n] = r]
  OBVIOUS
<1> HIDE DEF q, e
<1>5. /\ r \in Seq(Entry) /\ Len(r) = Len(q)
      /\ \A k \in 1 .. Len(q) : r[k].key = q[k].key /\ r[k].addr = q[k].addr
  <2>1. r \in Seq(Entry) /\ Len(r) = Len(q)
    BY <1>1, <1>2, <1>3, ExceptSeq DEF q
  <2>2. ASSUME NEW k \in 1 .. Len(q) PROVE r[k].key = q[k].key /\ r[k].addr = q[k].addr
    BY <1>2, <1>3
  <2>3. QED
    BY <2>1, <2>2
<1> HIDE DEF r
<1>6. listed' \in [Node -> Seq(Entry)] /\ listed'[n] = r
      /\ \A m \in Node : m # n => listed'[m] = listed[m]
  BY <1>1, <1>4, <1>5
<1>7. QED
  BY <1>5, <1>6 DEF q

LEMMA RestoredSaved ==
  ASSUME Typed, NEW n \in Node, NEW t \in Restored(n)
  PROVE  /\ t \in [Node -> [psk : Job \cup {NoJob}, addr : Address]]
         /\ \A m \in Node : t[m].psk = NoJob \/ \E f \in saved[n] : f.psk = t[m].psk
<1> DEFINE keys == {f.key : f \in saved[n]}
<1>1. PICK dir \in SetToSeqs(saved[n]) :
        \E last \in [keys -> DOMAIN dir], kept \in [Node -> BOOLEAN] :
          t = [m \in Node |->
                 IF m \notin keys THEN NoTunnel
                 ELSE [psk |-> dir[last[m]].psk,
                       addr |-> IF kept[m] THEN dir[last[m]].addr ELSE 0]]
  <2>0. PICK dir \in SetToSeqs(saved[n]) : \E last \in [keys -> DOMAIN dir] :
          t = [m \in Node |->
                 IF m \notin keys THEN NoTunnel
                 ELSE [psk |-> dir[last[m]].psk,
                       addr |-> IF \A k \in last[m] + 1 .. Len(dir) : dir[k].addr # dir[last[m]].addr
                                THEN dir[last[m]].addr ELSE 0]]
    <3> DEFINE Lasts(dir) == {last \in [keys -> DOMAIN dir] : \A m \in keys :
                 /\ dir[last[m]].key = m
                 /\ \A k \in last[m] + 1 .. Len(dir) : dir[k].key # m}
               Interface(dir, last) ==
                 [m \in Node |->
                    IF m \notin keys THEN NoTunnel
                    ELSE [psk |-> dir[last[m]].psk,
                          addr |-> IF \A k \in last[m] + 1 .. Len(dir) : dir[k].addr # dir[last[m]].addr
                                   THEN dir[last[m]].addr ELSE 0]]
    <3>1. t \in UNION {{Interface(dir, last) : last \in Lasts(dir)} : dir \in SetToSeqs(saved[n])}
      BY DEF Restored
    <3>2. PICK dir \in SetToSeqs(saved[n]) : t \in {Interface(dir, last) : last \in Lasts(dir)}
      BY <3>1
    <3>3. PICK last \in Lasts(dir) : t = Interface(dir, last)
      BY <3>2
    <3>4. last \in [keys -> DOMAIN dir]
      BY <3>3
    <3>5. QED
      BY <3>3, <3>4
  <2>1. PICK last \in [keys -> DOMAIN dir] :
          t = [m \in Node |->
                 IF m \notin keys THEN NoTunnel
                 ELSE [psk |-> dir[last[m]].psk,
                       addr |-> IF \A k \in last[m] + 1 .. Len(dir) : dir[k].addr # dir[last[m]].addr
                                THEN dir[last[m]].addr ELSE 0]]
    BY <2>0
  <2> DEFINE kept == [m \in Node |->
                        \A k \in last[m] + 1 .. Len(dir) : dir[k].addr # dir[last[m]].addr]
  <2>2. kept \in [Node -> BOOLEAN]
    OBVIOUS
  <2>3. t = [m \in Node |->
               IF m \notin keys THEN NoTunnel
               ELSE [psk |-> dir[last[m]].psk,
                     addr |-> IF kept[m] THEN dir[last[m]].addr ELSE 0]]
    BY <2>1
  <2> HIDE DEF kept
  <2>4. QED
    BY <2>2, <2>3
<1>2. PICK last \in [keys -> DOMAIN dir], kept \in [Node -> BOOLEAN] :
        t = [m \in Node |->
               IF m \notin keys THEN NoTunnel
               ELSE [psk |-> dir[last[m]].psk,
                     addr |-> IF kept[m] THEN dir[last[m]].addr ELSE 0]]
  BY <1>1
<1>3. \A i \in DOMAIN dir : dir[i] \in saved[n]
  BY DEF SetToSeqs
<1>4. saved[n] \subseteq File /\ 0 \in Address
  BY ConstantsAssumption DEF Typed, Address
<1> HIDE DEF keys
<1>5. ASSUME NEW m \in Node
      PROVE  /\ t[m] \in [psk : Job \cup {NoJob}, addr : Address]
             /\ t[m].psk = NoJob \/ \E f \in saved[n] : f.psk = t[m].psk
  <2>1. CASE m \notin keys
    BY <1>2, <1>4, <2>1 DEF NoTunnel
  <2>2. CASE m \in keys
    <3>1. dir[last[m]] \in saved[n] /\ dir[last[m]] \in File
      BY <1>2, <1>3, <1>4, <2>2
    <3>2. /\ t[m].psk = dir[last[m]].psk /\ t[m].addr \in {0, dir[last[m]].addr}
          /\ t[m] = [psk |-> t[m].psk, addr |-> t[m].addr]
      BY <1>2, <2>2
    <3>3. QED
      BY <1>4, <3>1, <3>2 DEF File
  <2>3. QED
    BY <2>1, <2>2
<1>6. t \in [Node -> [psk : Job \cup {NoJob}, addr : Address]]
  BY <1>2, <1>5
<1>7. QED
  BY <1>5, <1>6

LEMMA RestartMoves ==
  ASSUME Typed, NEW n \in Node, Restart(n)
  PROVE  /\ job' \in [Job -> Handling]
         /\ \A k \in Job : \/ job'[k] = job[k]
                           \/ Busy(k) /\ job'[k].at = 0 /\ job'[k].kind = "done"
         /\ \A k \in Job : Busy(k)' => Running(k)'
         /\ "oneSided" \in trouble' /\ trouble \subseteq trouble'
         /\ tunnel' \in [Node -> [Node -> [psk : Job \cup {NoJob}, addr : Address]]]
         /\ \A k \in Node : k # n => tunnel'[k] = tunnel[k]
         /\ \A m \in Node : \/ tunnel'[n][m].psk = NoJob
                            \/ \E f \in saved[n] : f.psk = tunnel'[n][m].psk
         /\ UNCHANGED <<listed, saved, invites, addresses, codes>>
<1>1. /\ job' = [j \in Job |-> IF Busy(j) /\ n \in {job[j].host, job[j].guest}
                                 THEN NoRequest("done") ELSE job[j]]
      /\ "oneSided" \in trouble' /\ trouble \subseteq trouble'
      /\ UNCHANGED <<listed, saved, invites, addresses, codes>>
  BY DEF Restart, files
<1>2. PICK t \in Restored(n) : tunnel' = [tunnel EXCEPT ![n] = t]
  BY DEF Restart
<1>3. NoRequest("done") \in Handling /\ NoRequest("done").at = 0 /\ NoRequest("done").kind = "done"
  BY DEF NoRequest, Handling
<1>4. /\ job' \in [Job -> Handling]
      /\ \A k \in Job : \/ job'[k] = job[k]
                        \/ Busy(k) /\ job'[k].at = 0 /\ job'[k].kind = "done"
  BY <1>1, <1>3 DEF Typed
<1>5. \A k \in Job : Busy(k)' => Running(k)'
  BY <1>4 DEF Typed, Busy, Running, Place
<1>6. /\ t \in [Node -> [psk : Job \cup {NoJob}, addr : Address]]
      /\ \A m \in Node : t[m].psk = NoJob \/ \E f \in saved[n] : f.psk = t[m].psk
  BY RestoredSaved
<1>7. /\ tunnel' \in [Node -> [Node -> [psk : Job \cup {NoJob}, addr : Address]]]
      /\ tunnel'[n] = t /\ \A k \in Node : k # n => tunnel'[k] = tunnel[k]
  BY <1>2, <1>6 DEF Typed
<1>8. QED
  BY <1>1, <1>4, <1>5, <1>6, <1>7

--------------------------------------------------------------------------------
(* Types.                                                                      *)

LEMMA TypedInit == Init => Typed
<1> SUFFICES ASSUME Init PROVE Typed
  OBVIOUS
<1> USE DEF Init
<1>1. listed \in [Node -> Seq(Entry)]
  <2>1. <<>> \in Seq(Entry)
    BY EmptySeq
  <2>2. QED
    BY <2>1
<1>2. tunnel \in [Node -> [Node -> [psk : Job \cup {NoJob}, addr : Address]]]
  BY ConstantsAssumption DEF NoTunnel, Address
<1>3. job \in [Job -> Handling] /\ \A j \in Job : job[j].at = 0
  BY DEF NoRequest, Handling
<1>4. QED
  BY <1>1, <1>2, <1>3 DEF Typed, Busy

LEMMA TypedStep == Typed /\ [Next]_vars => Typed'
<1> SUFFICES ASSUME Typed, [Next]_vars PROVE Typed'
  OBVIOUS
<1> USE DEF files
<1>1. ASSUME NEW j \in Job, ReadAddresses(j) PROVE Typed'
  <2>1. Following(j) \in AtFile /\ Following(j) \notin AtInvites \cup Holding
    BY <1>1, ReadAddressesMoves DEF Following, Place, AtFile, AtInvites, Holding
  <2>2. addresses[job[j].host] \in SUBSET Subnet
    BY <1>1, ReadAddressesMoves DEF Running, Typed
  <2>3. job' \in [Job -> Handling] /\ \A k \in Job : Busy(k)' => Running(k)'
    BY <1>1, <2>1, <2>2, ReadAddressesMoves, RunsOn
  <2>4. QED
    BY <1>1, <2>3 DEF ReadAddresses, Typed
<1>2. ASSUME NEW j \in Job, Assign(j) PROVE Typed'
  <2>1. PICK a \in Subnet : /\ Moves(j, a, {})
          /\ addresses' = [addresses EXCEPT ![job[j].host] = job[j].copy \cup {a}]
    BY <1>2, AssignMoves
  <2>2. job[j].copy \in SUBSET Subnet
    BY <1>2, AssignMoves DEF Running
  <2>3. job' \in [Job -> Handling] /\ \A k \in Job : Busy(k)' => Running(k)'
    BY <1>2, <2>1, AssignMoves, RunsOn
  <2>4. addresses' \in [Node -> SUBSET Subnet]
    BY <2>1, <2>2 DEF Typed
  <2>5. QED
    BY <1>2, <2>3, <2>4 DEF Assign, Typed
<1>3. ASSUME NEW j \in Job, ReadInvites(j) PROVE Typed'
  <2>1. Following(j) \in AtInvites /\ Following(j) \notin AtFile
        /\ (Following(j) \in Holding => job[j].addr \in Subnet)
    BY <1>3, ReadInvitesMoves DEF Following, Place, AtFile, AtInvites, Holding, Running
  <2>2. invites[job[j].host] \in SUBSET Pending
    BY <1>3, ReadInvitesMoves DEF Running, Typed
  <2>3. job' \in [Job -> Handling] /\ \A k \in Job : Busy(k)' => Running(k)'
    BY <1>3, <2>1, <2>2, ReadInvitesMoves, RunsOn
  <2>4. QED
    BY <1>3, <2>3 DEF ReadInvites, Typed
<1>4. ASSUME NEW j \in Job, Invite(j) PROVE Typed'
  <2>0. /\ Place(j) \in {<<"invite", 4>>, <<"lan", 4>>} /\ Busy(j) /\ Running(j)
        /\ Moves(j, job[j].addr, {}) /\ job' \in [Job -> Handling]
    BY <1>4, InviteMoves
  <2>1. Following(j) \notin Holding
    BY <2>0 DEF Following, Place, Holding
  <2>2. \A k \in Job : Busy(k)' => Running(k)'
    BY <2>0, <2>1, RunsOn
  <2>3. job[j].copy \in SUBSET Pending /\ job[j].host \in Node /\ job[j].psk \in Job
    BY <2>0 DEF Running, AtInvites, Place
  <2>4. invites' \in [Node -> SUBSET Pending]
    <3> DEFINE i == [psk |-> job[j].psk, addr |-> job[j].addr]
    <3>1. i \in Pending /\ invites' = [invites EXCEPT ![job[j].host] = job[j].copy \cup {i}]
      BY <1>4, InviteMoves
    <3> HIDE DEF i
    <3>2. QED
      BY <2>3, <3>1 DEF Typed
  <2>5. codes' \subseteq [psk : Job, host : Node]
    <3> DEFINE c == [psk |-> job[j].psk, host |-> job[j].host]
    <3>1. c \in [psk : Job, host : Node]
      BY <2>3
    <3>2. codes' = codes \/ codes' = codes \cup {c}
      BY <1>4, InviteMoves
    <3> HIDE DEF c
    <3>3. QED
      BY <3>1, <3>2 DEF Typed
  <2>6. QED
    BY <1>4, <2>0, <2>2, <2>4, <2>5 DEF Invite, Typed
<1>5. ASSUME NEW j \in Job, Take(j) PROVE Typed'
  <2>1. PICK i \in Pending : Moves(j, i.addr, {})
    BY <1>5, TakeMoves
  <2>2. i.addr \in Subnet
    BY DEF Pending
  <2>3. job' \in [Job -> Handling] /\ \A k \in Job : Busy(k)' => Running(k)'
    BY <1>5, <2>1, <2>2, TakeMoves, RunsOn
  <2>4. job[j].copy \in SUBSET Pending
    BY <1>5, TakeMoves DEF Running, AtInvites
  <2>5. invites' \in [Node -> SUBSET Pending]
    <3>1. invites' = [invites EXCEPT ![job[j].host] = job[j].copy \ Invited(j)]
      BY <1>5, TakeMoves
    <3>2. QED
      BY <2>4, <3>1 DEF Typed
  <2>6. QED
    BY <1>5, <2>3, <2>5 DEF Take, Typed
<1>6. ASSUME NEW j \in Job, Untaken(j) PROVE Typed'
  <2>1. Place(j) \in AtInvites /\ Running(j) /\ AtHost(j)
    BY <1>6, UntakenMoves DEF AtInvites
  <2>2. job[j].copy \in SUBSET Pending
    BY <2>1 DEF Running
  <2>3. invites' \in [Node -> SUBSET Pending]
    BY <1>6, <2>2 DEF Untaken, Typed
  <2>4. QED
    BY <1>6, <2>3, UntakenMoves DEF Untaken, Typed
<1>7. ASSUME NEW j \in Job, AddTunnel(j) PROVE Typed'
  <2>1. /\ Following(j) \notin AtFile \cup AtInvites
        /\ Following(j) \in Holding => job[j].addr \in Subnet
    <3>1. Place(j) \in {<<"redeem", 1>>, <<"redeem", 4>>, <<"lan", 6>>, <<"lan", 9>>,
                        <<"accept", 3>>, <<"open", 4>>, <<"open", 6>>} /\ Running(j)
      BY <1>7, TunnelMoves, Places
    <3>2. QED
      BY <3>1 DEF Following, Place, AtFile, AtInvites, Holding, Running
  <2>2. job' \in [Job -> Handling] /\ \A k \in Job : Busy(k)' => Running(k)'
    <3>1. /\ Busy(j) /\ Moves(j, job[j].addr, job[j].copy) /\ job' \in [Job -> Handling]
      BY <1>7, TunnelMoves
    <3>2. QED
      BY <2>1, <3>1, RunsOn
  <2>3. QED
    BY <1>7, <2>2, TunnelMoves DEF AddTunnel, Typed
<1>8. ASSUME NEW j \in Job, List(j) PROVE Typed'
  <2>1. Following(j) \notin AtFile \cup AtInvites \cup Holding
    <3>1. Place(j) \in {<<"redeem", 5>>, <<"redeem", 6>>, <<"lan", 10>>, <<"lan", 11>>,
                        <<"accept", 4>>, <<"open", 7>>}
      BY <1>8, ListMoves, Places
    <3>2. QED
      BY <3>1 DEF Following, Place, AtFile, AtInvites, Holding
  <2>2. job' \in [Job -> Handling] /\ \A k \in Job : Busy(k)' => Running(k)'
    BY <1>8, <2>1, ListMoves, RunsOn
  <2>3. listed' \in [Node -> Seq(Entry)]
    BY <1>8, ListMoves, AppendLists DEF Typed
  <2>4. QED
    BY <1>8, <2>2, <2>3 DEF List, Typed
<1>9. ASSUME NEW j \in Job, Race(j) PROVE Typed'
  <2>1. Following(j) \notin AtFile \cup AtInvites \cup Holding
    <3>1. job[j].kind = "lan" /\ job[j].at = 5
      BY <1>9, RaceMoves DEF Place
    <3>2. QED
      BY <3>1 DEF Following, AtFile, AtInvites, Holding
  <2>2. job' \in [Job -> Handling] /\ \A k \in Job : Busy(k)' => Running(k)'
    BY <1>9, <2>1, RaceMoves, RunsOn, RestRuns
  <2>3. tunnel' \in [Node -> [Node -> [psk : Job \cup {NoJob}, addr : Address]]]
    <3>1. CASE tunnel' = tunnel
      BY <3>1 DEF Typed
    <3>2. CASE tunnel' = [tunnel EXCEPT ![job[j].guest][job[j].host] = NoTunnel]
      BY <1>9, <3>2, RaceMoves, CutsTunnel
    <3>3. QED
      BY <1>9, <3>1, <3>2, RaceMoves
  <2>4. saved' \in [Node -> SUBSET File]
    <3>1. PICK g \in Node : g = job[j].guest
      BY <1>9, RaceMoves
    <3>2. \/ saved' = saved
          \/ saved' = [saved EXCEPT ![g] = {f \in saved[g] : f.name # 0}]
      BY <1>9, <3>1, RaceMoves
    <3>3. saved \in [Node -> SUBSET File] /\ {f \in saved[g] : f.name # 0} \in SUBSET File
      BY DEF Typed
    <3>4. QED
      BY <3>2, <3>3
  <2>5. QED
    BY <1>9, <2>2, <2>3, <2>4 DEF Race, Typed
<1>10. ASSUME NEW j \in Job, Admit(j) PROVE Typed'
  <2>1. Following(j) \notin AtFile \cup AtInvites \cup Holding
    BY <1>10, AdmitMoves DEF Following, Place, AtFile, AtInvites, Holding
  <2>2. job' \in [Job -> Handling] /\ \A k \in Job : Busy(k)' => Running(k)'
    BY <1>10, <2>1, AdmitMoves, RunsOn, RestRuns
  <2>3. QED
    BY <1>10, <2>2 DEF Admit, Typed
<1>11. ASSUME NEW j \in Job, Push(j) PROVE Typed'
  <2>1. Following(j) \notin AtFile \cup AtInvites \cup Holding
    BY <1>11, PushMoves DEF Following, Place, AtFile, AtInvites, Holding
  <2>2. job' \in [Job -> Handling] /\ \A k \in Job : Busy(k)' => Running(k)'
    BY <1>11, <2>1, PushMoves, RunsOn
  <2>3. listed' \in [Node -> Seq(Entry)]
    BY <1>11, PushMoves, AppendLists DEF Running
  <2>4. QED
    BY <1>11, <2>2, <2>3 DEF Push, Typed
<1>12. ASSUME NEW j \in Job, Drop(j) PROVE Typed'
  <2>1. job[j].host \in Node
    BY <1>12, DropMoves DEF Running
  <2>2. listed' \in [Node -> Seq(Entry)]
    <3>1. CASE listed' = listed
      BY <3>1 DEF Typed
    <3>2. CASE \E id : \E rest \in Without(listed[job[j].host], id) :
                 listed' = [listed EXCEPT ![job[j].host] = rest]
      <4>1. PICK id : \E rest \in Without(listed[job[j].host], id) :
              listed' = [listed EXCEPT ![job[j].host] = rest]
        BY <3>2
      <4>2. \A rest \in Without(listed[job[j].host], id) : rest \in Seq(Entry)
        BY <2>1, WithoutKeeps DEF Typed
      <4>3. QED
        BY <4>1, <4>2 DEF Typed
    <3>3. QED
      BY <1>12, <3>1, <3>2, DropMoves
  <2>3. QED
    BY <1>12, <2>2, DropMoves DEF Drop, Typed
<1>13. ASSUME NEW j \in Job, Close(j) PROVE Typed'
  <2>1. tunnel' \in [Node -> [Node -> [psk : Job \cup {NoJob}, addr : Address]]]
    BY <1>13, CloseMoves, CutsTunnel DEF Running
  <2>2. \A k \in Job : Busy(k)' => Running(k)'
    BY <1>13, CloseMoves, RestRuns
  <2>3. QED
    BY <1>13, <2>1, <2>2, CloseMoves DEF Close, Typed
<1>14. ASSUME NEW j \in Job, Abandon(j) PROVE Typed'
  <2>1. job' \in [Job -> Handling] /\ \A k \in Job : Busy(k)' => Running(k)'
    BY <1>14, AbandonEnds, RestRuns
  <2>2. QED
    BY <1>14, <2>1 DEF Abandon, Typed
<1>15. ASSUME NEW j \in Job, Ask(j) \/ Use(j) PROVE Typed'
  <2>1. /\ job' \in [Job -> Handling] /\ \A k \in Job : Busy(k)' => Running(k)'
        /\ UNCHANGED <<listed, tunnel, saved, invites, addresses, codes>>
    BY <1>15, AskStarts
  <2>2. QED
    BY <2>1 DEF Typed
<1>16. ASSUME NEW j \in Job, Administer(j) PROVE Typed'
  <2>1. /\ job' \in [Job -> Handling] /\ \A k \in Job : Busy(k)' => Running(k)'
        /\ UNCHANGED <<tunnel, saved, invites, addresses, codes>>
    BY <1>16, AdministerEnds, RestRuns
  <2>2. listed' \in [Node -> Seq(Entry)]
    BY <1>16, AdministerEnds, TrustKeeps DEF Typed
  <2>3. QED
    BY <2>1, <2>2 DEF Typed
<1>17. ASSUME NEW n \in Node, Restart(n) PROVE Typed'
  <2>1. /\ job' \in [Job -> Handling] /\ \A k \in Job : Busy(k)' => Running(k)'
        /\ tunnel' \in [Node -> [Node -> [psk : Job \cup {NoJob}, addr : Address]]]
        /\ UNCHANGED <<listed, saved, invites, addresses, codes>>
    BY <1>17, RestartMoves
  <2>2. QED
    BY <2>1 DEF Typed
<1>18. CASE UNCHANGED vars
  BY <1>18 DEF vars, Typed, Busy, Running, Place
<1>19. QED
  BY <1>1, <1>2, <1>3, <1>4, <1>5, <1>6, <1>7, <1>8, <1>9, <1>10, <1>11, <1>12, <1>13, <1>14,
     <1>15, <1>16, <1>17, <1>18 DEF Next, Step

--------------------------------------------------------------------------------
(* Two nodes that were left alone agree.                                       *)

Sides(j)  == {job[j].host, job[j].guest}
Making(j) == Busy(j) /\ job[j].kind \in Calls

SameLists(n, m) == Lists(n, m) <=> Lists(m, n)

GuestWired(j) == tunnel[job[j].guest][job[j].host].psk = job[j].psk
HostWired(j)  == tunnel[job[j].host][job[j].guest].psk = job[j].psk

Even == {<<"redeem", 1>>, <<"lan", 1>>, <<"lan", 2>>, <<"lan", 3>>, <<"lan", 4>>, <<"lan", 5>>,
         <<"open", 1>>, <<"open", 2>>, <<"open", 3>>, <<"open", 4>>}

HalfGuest == {<<"redeem", 2>>, <<"redeem", 3>>, <<"redeem", 4>>, <<"lan", 7>>, <<"lan", 8>>,
              <<"lan", 9>>}

\* How far the two nodes of a request have come.
Stage(j) ==
  LET h == job[j].host  g == job[j].guest IN
  /\ Place(j) \in Even => Agree(h, g)
  /\ Place(j) = <<"lan", 6>> => SameLists(h, g)
  /\ Place(j) \in HalfGuest => SameLists(h, g) /\ GuestWired(j)
  /\ Place(j) \in {<<"redeem", 5>>, <<"lan", 10>>} => SameLists(h, g) /\ GuestWired(j) /\ HostWired(j)
  /\ Place(j) = <<"open", 5>> => SameLists(h, g) /\ HostWired(j)
  /\ Place(j) = <<"open", 6>> => Lists(h, g) /\ HostWired(j)
  /\ Place(j) \in {<<"redeem", 6>>, <<"lan", 11>>, <<"open", 7>>} =>
       Lists(h, g) /\ HostWired(j) /\ GuestWired(j)

\* No request of one node only runs, two nodes have one request between them at
\* most, and two nodes agree but for what the request between them has yet to do.
Undisturbed ==
  /\ \A j \in Job : Busy(j) => job[j].kind \notin OneSided
  /\ \A j, k \in Job : Making(j) /\ Making(k) /\ Sides(j) = Sides(k) => j = k
  /\ \A n, m \in Node : n # m /\ (\A j \in Job : Making(j) => Sides(j) # {n, m}) => Agree(n, m)
  /\ \A j \in Job : Making(j) => Stage(j)

Agreed == trouble = {} => Undisturbed

\* Nothing has changed between two nodes.
Same(n, m) == (Lists(n, m)' <=> Lists(n, m)) /\ tunnel'[n][m].psk = tunnel[n][m].psk

LEMMA StageStays ==
  ASSUME NEW j \in Job, NEW h \in Node, NEW g \in Node, job[j].host = h, job[j].guest = g,
         Stage(j), job'[j] = job[j], Same(h, g), Same(g, h)
  PROVE  Stage(j)'
<1>1. Place(j)' = Place(j) /\ job'[j].host = h /\ job'[j].guest = g
  BY DEF Place
<1>2. /\ Agree(h, g)' <=> Agree(h, g)
      /\ SameLists(h, g)' <=> SameLists(h, g)
      /\ GuestWired(j)' <=> GuestWired(j)
      /\ HostWired(j)' <=> HostWired(j)
      /\ Lists(h, g)' <=> Lists(h, g)
  BY <1>1 DEF Agree, SameLists, GuestWired, HostWired, Same
<1>3. QED
  BY <1>1, <1>2 DEF Stage

\* Requests between nodes are as before, and so is what the nodes know.
LEMMA Settled ==
  ASSUME Typed, Undisturbed,
         \A k \in Job : Busy(k)' /\ job'[k].kind \in Calls \cup OneSided => job'[k] = job[k],
         \A k \in Job : Making(k) => job'[k] = job[k],
         \A n, m \in Node : Same(n, m)
  PROVE  Undisturbed'
<1>1. \A k \in Job : Busy(k)' => job'[k].kind \notin OneSided
  BY DEF Undisturbed, Busy
<1>2. ASSUME NEW k \in Job
      PROVE  (Making(k)' <=> Making(k)) /\ (Making(k) => Sides(k)' = Sides(k))
  BY DEF Making, Busy, Sides
<1>3. \A j, k \in Job : Making(j)' /\ Making(k)' /\ Sides(j)' = Sides(k)' => j = k
  BY <1>2 DEF Undisturbed
<1>4. ASSUME NEW n \in Node, NEW m \in Node, n # m, \A j \in Job : Making(j)' => Sides(j)' # {n, m}
      PROVE  Agree(n, m)'
  <2>1. Agree(n, m)
    BY <1>2, <1>4 DEF Undisturbed
  <2>2. QED
    BY <2>1 DEF Agree, Same
<1>5. ASSUME NEW k \in Job, Making(k)' PROVE Stage(k)'
  <2>1. Making(k) /\ job'[k] = job[k] /\ Stage(k)
    BY <1>2, <1>5 DEF Undisturbed
  <2>2. PICK h \in Node, g \in Node : h = job[k].host /\ g = job[k].guest
    BY <2>1 DEF Making, Typed, Running
  <2>3. QED
    BY <2>1, <2>2, StageStays
<1>6. QED
  BY <1>1, <1>3, <1>4, <1>5 DEF Undisturbed

\* A request between two nodes makes its step.
LEMMA PairSteps ==
  ASSUME Typed, Undisturbed, NEW j \in Job, Making(j), Others(j),
         \A n, m \in Node : {n, m} # Sides(j) => Same(n, m),
         \/ Making(j)' /\ Sides(j)' = Sides(j) /\ job'[j].kind = job[j].kind /\ Stage(j)'
         \/ ~Busy(j)' /\ \A h, g \in Node : h = job[j].host /\ g = job[j].guest => Agree(h, g)'
  PROVE  Undisturbed'
<1>1. job[j].host \in Node /\ job[j].guest \in Node
  BY DEF Making, Typed, Running
<1>2. ASSUME NEW k \in Job, Making(k)' PROVE Making(k) /\ Sides(k)' = Sides(k)
  BY <1>2 DEF Making, Busy, Sides, Others
<1>3. ASSUME NEW k \in Job, Busy(k)' PROVE job'[k].kind \notin OneSided
  BY <1>3 DEF Undisturbed, Making, Busy, Others
<1>4. \A i, k \in Job : Making(i)' /\ Making(k)' /\ Sides(i)' = Sides(k)' => i = k
  BY <1>2 DEF Undisturbed
<1>5. ASSUME NEW n \in Node, NEW m \in Node, n # m, \A k \in Job : Making(k)' => Sides(k)' # {n, m}
      PROVE  Agree(n, m)'
  <2>1. CASE {n, m} = Sides(j)
    <3>1. \A h, g \in Node : h = job[j].host /\ g = job[j].guest => Agree(h, g)'
      BY <1>5, <2>1
    <3>2. (n = job[j].host /\ m = job[j].guest) \/ (n = job[j].guest /\ m = job[j].host)
      BY <2>1 DEF Sides
    <3>3. Agree(n, m)' \/ Agree(m, n)'
      BY <3>1, <3>2
    <3>4. QED
      BY <3>3 DEF Agree
  <2>2. CASE {n, m} # Sides(j)
    <3>1. ASSUME NEW k \in Job, Making(k) PROVE Sides(k) # {n, m}
      <4>1. CASE k = j
        BY <2>2, <4>1
      <4>2. CASE k # j
        BY <1>5, <3>1, <4>2 DEF Making, Busy, Sides, Others
      <4>3. QED
        BY <4>1, <4>2
    <3>2. Agree(n, m)
      BY <1>5, <3>1 DEF Undisturbed
    <3>3. Same(n, m) /\ Same(m, n)
      BY <2>2
    <3>4. QED
      BY <3>2, <3>3 DEF Agree, Same
  <2>3. QED
    BY <2>1, <2>2
<1>6. ASSUME NEW k \in Job, Making(k)' PROVE Stage(k)'
  <2>1. CASE k = j
    BY <1>6, <2>1 DEF Making
  <2>2. CASE k # j
    <3>1. Making(k) /\ Sides(k) # Sides(j) /\ Stage(k) /\ job'[k] = job[k]
      BY <1>2, <1>6, <2>2 DEF Undisturbed, Others
    <3>2. PICK h \in Node, g \in Node : h = job[k].host /\ g = job[k].guest
      BY <3>1 DEF Making, Typed, Running
    <3>3. {h, g} # Sides(j) /\ {g, h} # Sides(j)
      BY <3>1, <3>2 DEF Sides
    <3>4. QED
      BY <3>1, <3>2, <3>3, StageStays
  <2>3. QED
    BY <2>1, <2>2
<1>7. QED
  BY <1>3, <1>4, <1>5, <1>6 DEF Undisturbed

\* The places are different ones.
LEMMA EvenStage ==
  ASSUME NEW j \in Job, NEW h \in Node, NEW g \in Node, job'[j].host = h, job'[j].guest = g,
         Place(j)' \in Even, Agree(h, g)'
  PROVE  Stage(j)'
<1>1. /\ Place(j)' \notin HalfGuest
      /\ Place(j)' \notin {<<"lan", 6>>, <<"open", 5>>, <<"open", 6>>, <<"redeem", 5>>, <<"lan", 10>>}
      /\ Place(j)' \notin {<<"redeem", 6>>, <<"lan", 11>>, <<"open", 7>>}
  BY DEF Even, HalfGuest
<1>2. QED
  BY <1>1 DEF Stage

LEMMA HalfGuestStage ==
  ASSUME NEW j \in Job, NEW h \in Node, NEW g \in Node, job'[j].host = h, job'[j].guest = g,
         Place(j)' \in HalfGuest, SameLists(h, g)', GuestWired(j)'
  PROVE  Stage(j)'
<1>1. /\ Place(j)' \notin Even
      /\ Place(j)' \notin {<<"lan", 6>>, <<"open", 5>>, <<"open", 6>>, <<"redeem", 5>>, <<"lan", 10>>}
      /\ Place(j)' \notin {<<"redeem", 6>>, <<"lan", 11>>, <<"open", 7>>}
  BY DEF Even, HalfGuest
<1>2. QED
  BY <1>1 DEF Stage

\* It makes its step and nothing changes between the nodes.
LEMMA QuietSteps ==
  ASSUME Typed, Undisturbed, NEW j \in Job, Busy(j), NEW a, NEW c, Moves(j, a, c),
         UNCHANGED <<listed, tunnel>>,
         \/ Place(j) \in Even /\ Following(j) \in Even
         \/ Place(j) \in HalfGuest /\ Following(j) \in HalfGuest
         \/ job[j].kind = "invite"
  PROVE  Undisturbed'
<1>1. \A n, m \in Node : Same(n, m)
  BY DEF Same, Lists
<1>2. job[j].at # Len(Program[job[j].kind]) =>
        /\ job'[j].kind = job[j].kind /\ job'[j].at = job[j].at + 1
        /\ job'[j].host = job[j].host /\ job'[j].guest = job[j].guest /\ job'[j].psk = job[j].psk
  BY MovedFields
<1>3. CASE job[j].kind = "invite"
  <2>1. \A k \in Job : Busy(k)' /\ job'[k].kind \in Calls \cup OneSided => job'[k] = job[k]
    BY <1>2, <1>3 DEF Moves, Others, Busy, Calls, OneSided
  <2>2. \A k \in Job : Making(k) => job'[k] = job[k]
    BY <1>3 DEF Moves, Others, Making, Calls
  <2>3. QED
    BY <1>1, <2>1, <2>2, Settled
<1>4. CASE \/ Place(j) \in Even /\ Following(j) \in Even
           \/ Place(j) \in HalfGuest /\ Following(j) \in HalfGuest
  <2>1. job[j].kind \in {"redeem", "lan", "open"} /\ job[j].at # Len(Program[job[j].kind])
    <3>1. job[j].kind \in {"redeem", "lan", "open"}
      BY <1>4 DEF Even, HalfGuest, Place
    <3>2. job[j].kind = "redeem" => job[j].at # 6
      BY <1>4 DEF Even, HalfGuest, Place
    <3>3. job[j].kind = "lan" => job[j].at # 11
      BY <1>4 DEF Even, HalfGuest, Place
    <3>4. job[j].kind = "open" => job[j].at # 7
      BY <1>4 DEF Even, HalfGuest, Place
    <3>5. QED
      BY <3>1, <3>2, <3>3, <3>4, Lengths
  <2>2. PICK h \in Node, g \in Node : h = job[j].host /\ g = job[j].guest
    BY DEF Typed, Running
  <2>3. /\ Place(j)' = Following(j) /\ Sides(j)' = Sides(j) /\ job'[j].kind = job[j].kind
        /\ job'[j].host = h /\ job'[j].guest = g /\ job'[j].psk = job[j].psk
    BY <1>2, <2>1, <2>2 DEF Place, Following, Sides
  <2>4. Making(j) /\ Making(j)'
    BY <1>2, <2>1 DEF Making, Busy, Typed, Handling, Calls
  <2>5. Stage(j)
    BY <2>4 DEF Undisturbed
  <2>6. /\ Agree(h, g)' <=> Agree(h, g)
        /\ SameLists(h, g)' <=> SameLists(h, g)
        /\ GuestWired(j)' <=> GuestWired(j)
    BY <2>2, <2>3 DEF Agree, SameLists, GuestWired, Lists
  <2>7. CASE Place(j) \in Even /\ Following(j) \in Even
    <3>1. Agree(h, g)'
      BY <2>2, <2>5, <2>6, <2>7 DEF Stage
    <3>2. Stage(j)'
      BY <2>3, <2>7, <3>1, EvenStage
    <3>3. QED
      BY <1>1, <2>3, <2>4, <3>2, PairSteps DEF Moves
  <2>8. CASE Place(j) \in HalfGuest /\ Following(j) \in HalfGuest
    <3>1. SameLists(h, g)' /\ GuestWired(j)'
      BY <2>2, <2>5, <2>6, <2>8 DEF Stage
    <3>2. Stage(j)'
      BY <2>3, <2>8, <3>1, HalfGuestStage
    <3>3. QED
      BY <1>1, <2>3, <2>4, <3>2, PairSteps DEF Moves
  <2>9. QED
    BY <1>4, <2>7, <2>8
<1>5. QED
  BY <1>3, <1>4

LEMMA LateStage ==
  ASSUME NEW j \in Job, NEW h \in Node, NEW g \in Node, job'[j].host = h, job'[j].guest = g,
         \/ Place(j)' = <<"lan", 6>> /\ SameLists(h, g)'
         \/ /\ Place(j)' \in {<<"redeem", 5>>, <<"lan", 10>>}
            /\ SameLists(h, g)' /\ GuestWired(j)' /\ HostWired(j)'
         \/ Place(j)' = <<"open", 5>> /\ SameLists(h, g)' /\ HostWired(j)'
         \/ Place(j)' = <<"open", 6>> /\ Lists(h, g)' /\ HostWired(j)'
         \/ /\ Place(j)' \in {<<"redeem", 6>>, <<"lan", 11>>, <<"open", 7>>}
            /\ Lists(h, g)' /\ GuestWired(j)' /\ HostWired(j)'
  PROVE  Stage(j)'
<1>1. Place(j)' \notin Even \cup HalfGuest
  BY DEF Even, HalfGuest
<1>2. QED
  BY <1>1 DEF Stage

\* What is known of a request that goes on.
LEMMA GoesOn ==
  ASSUME Typed, Undisturbed, NEW j \in Job, Busy(j), NEW a, NEW c, Moves(j, a, c),
         job[j].kind \in Calls, job[j].at # Len(Program[job[j].kind])
  PROVE  /\ Making(j) /\ Making(j)' /\ Stage(j) /\ Sides(j)' = Sides(j) /\ Others(j)
         /\ job'[j].kind = job[j].kind /\ Place(j)' = Following(j)
         /\ job'[j].host = job[j].host /\ job'[j].guest = job[j].guest /\ job'[j].psk = job[j].psk
<1>1. /\ job'[j].kind = job[j].kind /\ job'[j].at = job[j].at + 1
      /\ job'[j].host = job[j].host /\ job'[j].guest = job[j].guest /\ job'[j].psk = job[j].psk
  BY MovedFields
<1>2. Making(j) /\ Making(j)'
  BY <1>1 DEF Making, Busy, Typed, Handling
<1>3. QED
  BY <1>1, <1>2 DEF Undisturbed, Sides, Place, Following, Moves

\* The two nodes of a request.
LEMMA TwoNodes ==
  ASSUME Typed, NEW j \in Job, Making(j)
  PROVE  /\ \E h, g \in Node : h = job[j].host /\ g = job[j].guest /\ h # g
         /\ job[j].psk \in Job
BY DEF Typed, Making, Running, Calls

LEMMA AgreedTunnel ==
  ASSUME Typed, Undisturbed, NEW j \in Job, AddTunnel(j)
  PROVE  Undisturbed'
<1> DEFINE Guests == {<<"redeem", 1>>, <<"lan", 6>>, <<"open", 6>>}
           Hosts  == {<<"redeem", 4>>, <<"lan", 9>>, <<"open", 4>>}
<1>1. /\ Busy(j) /\ Running(j) /\ Moves(j, job[j].addr, job[j].copy)
      /\ Here(j) \in Node /\ Peer(j) \in Node
      /\ \A m, k \in Node :
           tunnel'[m][k].psk = IF m = Here(j) /\ k = Peer(j) THEN job[j].psk ELSE tunnel[m][k].psk
  BY TunnelMoves
<1>2. (Place(j) \in Guests /\ ~AtHost(j)) \/ (Place(j) \in Hosts /\ AtHost(j))
  <2>1. Place(j) \in Guests \cup Hosts \cup {<<"accept", 3>>}
    BY <1>1, TunnelMoves, Places
  <2>2. Place(j) # <<"accept", 3>>
    BY <1>1 DEF Undisturbed, Place, OneSided
  <2>3. AtHost(j) <=> Place(j) \in Hosts
    BY <1>1, <2>1, <2>2, Places
  <2>4. Place(j) \in Guests \/ Place(j) \in Hosts
    BY <2>1, <2>2
  <2>5. Place(j) \in Guests => Place(j) \notin Hosts
    OBVIOUS
  <2> HIDE DEF Guests, Hosts
  <2>6. QED
    BY <2>3, <2>4, <2>5
<1>3. job[j].kind \in Calls /\ job[j].at # Len(Program[job[j].kind])
  <2>1. Place(j) \in Guests \cup Hosts
    BY <1>2
  <2>2. /\ job[j].kind \in {"redeem", "lan", "open"}
        /\ job[j].kind = "redeem" => job[j].at # 6
        /\ job[j].kind = "lan" => job[j].at # 11
        /\ job[j].kind = "open" => job[j].at # 7
    BY <2>1 DEF Place
  <2>3. QED
    BY <2>2, Lengths DEF Calls
<1>4. /\ Making(j) /\ Making(j)' /\ Stage(j) /\ Sides(j)' = Sides(j) /\ Others(j)
      /\ job'[j].kind = job[j].kind /\ Place(j)' = Following(j)
      /\ job'[j].host = job[j].host /\ job'[j].guest = job[j].guest /\ job'[j].psk = job[j].psk
  BY <1>1, <1>3, GoesOn
<1>5. PICK h \in Node, g \in Node : h = job[j].host /\ g = job[j].guest /\ h # g
  BY <1>4, TwoNodes
<1>6. \A n, m \in Node : Lists(n, m)' <=> Lists(n, m)
  BY DEF AddTunnel, Lists
<1>7. \A n, m \in Node : {n, m} # Sides(j) => Same(n, m)
  BY <1>1, <1>6 DEF Same, Sides, Here, Peer
<1>8. SameLists(h, g)' <=> SameLists(h, g)
  BY <1>6 DEF SameLists
<1>9. CASE Place(j) \in Guests /\ ~AtHost(j)
  <2>1. /\ GuestWired(j)' /\ (HostWired(j)' <=> HostWired(j))
    BY <1>1, <1>4, <1>5, <1>9 DEF GuestWired, HostWired, Here, Peer
  <2>2. CASE Place(j) \in {<<"redeem", 1>>, <<"lan", 6>>}
    <3>1. SameLists(h, g)
      BY <1>4, <1>5, <2>2 DEF Stage, Even, Agree, SameLists
    <3>2. Place(j)' \in HalfGuest
      BY <1>4, <2>2 DEF Place, Following, HalfGuest
    <3>3. Stage(j)'
      BY <1>4, <1>5, <1>8, <2>1, <3>1, <3>2, HalfGuestStage
    <3>4. QED
      BY <1>4, <1>7, <3>3, PairSteps
  <2>3. CASE Place(j) = <<"open", 6>>
    <3>1. Lists(h, g) /\ HostWired(j)
      BY <1>4, <1>5, <2>3 DEF Stage
    <3>2. Place(j)' = <<"open", 7>>
      BY <1>4, <2>3 DEF Place, Following
    <3>3. Stage(j)'
      BY <1>4, <1>5, <1>6, <2>1, <3>1, <3>2, LateStage
    <3>4. QED
      BY <1>4, <1>7, <3>3, PairSteps
  <2>4. QED
    BY <1>9, <2>2, <2>3
<1>10. CASE Place(j) \in Hosts /\ AtHost(j)
  <2>1. /\ HostWired(j)' /\ (GuestWired(j)' <=> GuestWired(j))
    BY <1>1, <1>4, <1>5, <1>10 DEF GuestWired, HostWired, Here, Peer
  <2>2. CASE Place(j) \in {<<"redeem", 4>>, <<"lan", 9>>}
    <3>1. SameLists(h, g) /\ GuestWired(j)
      BY <1>4, <1>5, <2>2 DEF Stage, HalfGuest
    <3>2. Place(j)' \in {<<"redeem", 5>>, <<"lan", 10>>}
      BY <1>4, <2>2 DEF Place, Following
    <3>3. Stage(j)'
      BY <1>4, <1>5, <1>8, <2>1, <3>1, <3>2, LateStage
    <3>4. QED
      BY <1>4, <1>7, <3>3, PairSteps
  <2>3. CASE Place(j) = <<"open", 4>>
    <3>1. SameLists(h, g)
      BY <1>4, <1>5, <2>3 DEF Stage, Even, Agree, SameLists
    <3>2. Place(j)' = <<"open", 5>>
      BY <1>4, <2>3 DEF Place, Following
    <3>3. Stage(j)'
      BY <1>4, <1>5, <1>8, <2>1, <3>1, <3>2, LateStage
    <3>4. QED
      BY <1>4, <1>7, <3>3, PairSteps
  <2>4. QED
    BY <1>10, <2>2, <2>3
<1>11. QED
  BY <1>2, <1>9, <1>10

LEMMA AgreedList ==
  ASSUME Typed, Undisturbed, NEW j \in Job, List(j)
  PROVE  Undisturbed'
<1> DEFINE Hosts == {<<"redeem", 5>>, <<"lan", 10>>}
           Lasts == {<<"redeem", 6>>, <<"lan", 11>>, <<"open", 7>>}
<1>1. /\ Busy(j) /\ Running(j) /\ Moves(j, job[j].addr, job[j].copy)
      /\ Here(j) \in Node /\ Peer(j) \in Node /\ tunnel' = tunnel
  BY ListMoves DEF List
<1>2. \A n, m \in Node : Lists(n, m)' <=> Lists(n, m) \/ (n = Here(j) /\ m = Peer(j))
  <2>1. CASE listed' = listed /\ Lists(Here(j), Peer(j))
    BY <2>1 DEF Lists
  <2>2. CASE \E e \in Entry : Appends(Here(j), e) /\ e.key = Peer(j) /\ e.addr = AddressFor(j)
    BY <1>1, <2>2, AppendLists
  <2>3. QED
    BY <2>1, <2>2, ListMoves
<1>3. (Place(j) \in Hosts /\ AtHost(j)) \/ (Place(j) \in Lasts /\ ~AtHost(j))
  <2>1. Place(j) \in Hosts \cup Lasts \cup {<<"accept", 4>>}
    BY <1>1, ListMoves, Places
  <2>2. Place(j) # <<"accept", 4>>
    BY <1>1 DEF Undisturbed, Place, OneSided
  <2>3. AtHost(j) <=> Place(j) \in Hosts
    BY <1>1, <2>1, <2>2, Places
  <2>4. Place(j) \in Lasts \/ Place(j) \in Hosts
    BY <2>1, <2>2
  <2>5. Place(j) \in Lasts => Place(j) \notin Hosts
    OBVIOUS
  <2> HIDE DEF Lasts, Hosts
  <2>6. QED
    BY <2>3, <2>4, <2>5
<1>4. Making(j) /\ Stage(j) /\ Others(j)
  BY <1>1, <1>3 DEF Making, Calls, Place, Undisturbed, Moves
<1>5. PICK h \in Node, g \in Node : h = job[j].host /\ g = job[j].guest /\ h # g
  BY <1>4, TwoNodes
<1>6. \A n, m \in Node : {n, m} # Sides(j) => Same(n, m)
  BY <1>1, <1>2 DEF Same, Sides, Here, Peer
<1>7. CASE Place(j) \in Hosts /\ AtHost(j)
  <2>1. job[j].kind \in Calls /\ job[j].at # Len(Program[job[j].kind])
    <3>1. \/ job[j].kind = "redeem" /\ job[j].at # 6
          \/ job[j].kind = "lan" /\ job[j].at # 11
      BY <1>7 DEF Place
    <3>2. QED
      BY <3>1, Lengths DEF Calls
  <2>2. /\ Making(j)' /\ Sides(j)' = Sides(j) /\ job'[j].kind = job[j].kind /\ Place(j)' = Following(j)
        /\ job'[j].host = h /\ job'[j].guest = g /\ job'[j].psk = job[j].psk
    BY <1>1, <1>5, <2>1, GoesOn
  <2>3. Place(j)' \in {<<"redeem", 6>>, <<"lan", 11>>}
    BY <1>7, <2>2 DEF Place, Following
  <2>4. GuestWired(j) /\ HostWired(j)
    BY <1>4, <1>7 DEF Stage
  <2>5. GuestWired(j)' /\ HostWired(j)'
    BY <1>1, <1>5, <2>2, <2>4 DEF GuestWired, HostWired
  <2>6. Lists(h, g)'
    BY <1>2, <1>5, <1>7 DEF Here, Peer
  <2>7. Stage(j)'
    BY <2>2, <2>3, <2>5, <2>6, LateStage
  <2>8. QED
    BY <1>4, <1>6, <2>2, <2>7, PairSteps
<1>8. CASE Place(j) \in Lasts /\ ~AtHost(j)
  <2>1. Lists(h, g) /\ GuestWired(j) /\ HostWired(j)
    BY <1>4, <1>5, <1>8 DEF Stage
  <2>2. Lists(g, h)' /\ Lists(h, g)'
    BY <1>2, <1>5, <1>8, <2>1 DEF Here, Peer
  <2>3. tunnel'[h][g].psk = tunnel'[g][h].psk
    BY <1>1, <1>5, <2>1 DEF GuestWired, HostWired
  <2>4. Agree(h, g)'
    BY <2>2, <2>3 DEF Agree
  <2>5. job[j].at = Len(Program[job[j].kind])
    BY <1>8, Lengths DEF Place
  <2>6. ~Busy(j)'
    BY <1>1, <2>5 DEF Moves, Busy
  <2>7. QED
    BY <1>4, <1>5, <1>6, <2>4, <2>6, PairSteps
<1>9. QED
  BY <1>3, <1>7, <1>8

LEMMA AgreedRace ==
  ASSUME Typed, Undisturbed, NEW j \in Job, Race(j)
  PROVE  Undisturbed'
<1>1. /\ Busy(j) /\ Running(j) /\ Place(j) = <<"lan", 5>>
      /\ (Ends(j) /\ tunnel' = tunnel) \/ Moves(j, job[j].addr, job[j].copy)
      /\ tunnel' = tunnel \/ tunnel' = [tunnel EXCEPT ![job[j].guest][job[j].host] = NoTunnel]
  BY RaceMoves
<1>2. Making(j) /\ Stage(j)
  BY <1>1 DEF Making, Calls, Place, Undisturbed
<1>3. PICK h \in Node, g \in Node : h = job[j].host /\ g = job[j].guest /\ h # g
  BY <1>2, TwoNodes
<1>4. Agree(h, g)
  BY <1>1, <1>2, <1>3 DEF Stage, Even
<1>5. \A n, m \in Node : Lists(n, m)' <=> Lists(n, m)
  BY DEF Race, Lists
<1>6. \A n, m \in Node : {n, m} # Sides(j) => Same(n, m)
  <2>1. CASE tunnel' = tunnel
    BY <1>5, <2>1 DEF Same
  <2>2. CASE tunnel' = [tunnel EXCEPT ![g][h] = NoTunnel]
    <3>1. \A k, l \in Node : tunnel'[k][l] = IF k = g /\ l = h THEN NoTunnel ELSE tunnel[k][l]
      BY <2>2, CutsTunnel
    <3>2. QED
      BY <1>3, <1>5, <3>1 DEF Same, Sides
  <2>3. QED
    BY <1>1, <1>3, <2>1, <2>2
<1>7. CASE Ends(j) /\ tunnel' = tunnel
  <2>1. Agree(h, g)' /\ ~Busy(j)' /\ Others(j)
    BY <1>1, <1>4, <1>5, <1>7 DEF Agree, Ends, Busy
  <2>2. QED
    BY <1>2, <1>3, <1>6, <2>1, PairSteps
<1>8. CASE Moves(j, job[j].addr, job[j].copy)
  <2>1. job[j].kind \in Calls /\ job[j].at # Len(Program[job[j].kind])
    <3>1. job[j].kind = "lan" /\ job[j].at # 11
      BY <1>1 DEF Place
    <3>2. QED
      BY <3>1, Lengths DEF Calls
  <2>2. /\ Making(j)' /\ Sides(j)' = Sides(j) /\ job'[j].kind = job[j].kind /\ Place(j)' = Following(j)
        /\ job'[j].host = h /\ job'[j].guest = g /\ Others(j)
    BY <1>1, <1>3, <1>8, <2>1, GoesOn
  <2>3. Place(j)' = <<"lan", 6>>
    BY <1>1, <2>2 DEF Place, Following
  <2>4. SameLists(h, g)'
    BY <1>4, <1>5 DEF SameLists, Agree
  <2>5. Stage(j)'
    BY <2>2, <2>3, <2>4, LateStage
  <2>6. QED
    BY <1>2, <1>6, <2>2, <2>5, PairSteps
<1>9. QED
  BY <1>1, <1>7, <1>8

LEMMA AgreedAdmit ==
  ASSUME Typed, Undisturbed, NEW j \in Job, Admit(j)
  PROVE  Undisturbed'
<1>1. /\ Busy(j) /\ Place(j) = <<"open", 1>> /\ UNCHANGED <<listed, tunnel>>
      /\ Ends(j) \/ Moves(j, job[j].addr, job[j].copy)
  BY AdmitMoves DEF Admit
<1>2. CASE Ends(j)
  <2>1. Making(j) /\ Stage(j)
    BY <1>1 DEF Making, Calls, Place, Undisturbed
  <2>2. PICK h \in Node, g \in Node : h = job[j].host /\ g = job[j].guest /\ h # g
    BY <2>1, TwoNodes
  <2>3. Agree(h, g)
    BY <1>1, <2>1, <2>2 DEF Stage, Even
  <2>4. Agree(h, g)' /\ \A n, m \in Node : Same(n, m)
    BY <1>1, <2>3 DEF Agree, Lists, Same
  <2>5. QED
    BY <1>2, <2>1, <2>2, <2>4, PairSteps DEF Ends, Busy
<1>3. CASE Moves(j, job[j].addr, job[j].copy)
  <2>1. Place(j) \in Even /\ Following(j) \in Even
    BY <1>1 DEF Place, Following, Even
  <2>2. QED
    BY <1>1, <1>3, <2>1, QuietSteps
<1>4. QED
  BY <1>1, <1>2, <1>3

LEMMA AgreedPush ==
  ASSUME Typed, Undisturbed, NEW j \in Job, Push(j)
  PROVE  Undisturbed'
<1>1. /\ Busy(j) /\ Place(j) = <<"open", 5>> /\ Moves(j, job[j].addr, job[j].copy)
      /\ tunnel' = tunnel
  BY PushMoves DEF Push
<1>2. job[j].kind \in Calls /\ job[j].at # Len(Program[job[j].kind])
  <2>1. job[j].kind = "open" /\ job[j].at # 7
    BY <1>1 DEF Place
  <2>2. QED
    BY <2>1, Lengths DEF Calls
<1>3. /\ Making(j) /\ Making(j)' /\ Stage(j) /\ Sides(j)' = Sides(j) /\ Others(j)
      /\ job'[j].kind = job[j].kind /\ Place(j)' = Following(j)
      /\ job'[j].host = job[j].host /\ job'[j].guest = job[j].guest /\ job'[j].psk = job[j].psk
  BY <1>1, <1>2, GoesOn
<1>4. PICK h \in Node, g \in Node : h = job[j].host /\ g = job[j].guest /\ h # g
  BY <1>3, TwoNodes
<1>5. \A n, m \in Node : Lists(n, m)' <=> Lists(n, m) \/ (n = h /\ m = g)
  BY <1>4, PushMoves, AppendLists
<1>6. \A n, m \in Node : {n, m} # Sides(j) => Same(n, m)
  BY <1>1, <1>4, <1>5 DEF Same, Sides
<1>7. HostWired(j) /\ Place(j)' = <<"open", 6>>
  BY <1>1, <1>3 DEF Stage, Place, Following
<1>8. HostWired(j)' /\ Lists(h, g)'
  BY <1>1, <1>3, <1>5, <1>7 DEF HostWired
<1>9. Stage(j)'
  BY <1>3, <1>4, <1>7, <1>8, LateStage
<1>10. QED
  BY <1>3, <1>6, <1>9, PairSteps

LEMMA AgreedStart ==
  ASSUME Typed, Undisturbed, NEW j \in Job, Ask(j) \/ Use(j), trouble' = {}
  PROVE  Undisturbed'
<1>1. Starts(j) /\ UNCHANGED <<listed, tunnel>>
  BY AskStarts
<1>2. job'[j].kind \notin OneSided /\ ~Busy(j)
  BY <1>1 DEF Starts, NoRequest, Busy
<1>3. \A n, m \in Node : Same(n, m)
  BY <1>1 DEF Same, Lists
<1>4. CASE job'[j].kind \notin Calls
  <2>1. \A k \in Job : Busy(k)' /\ job'[k].kind \in Calls \cup OneSided => job'[k] = job[k]
    BY <1>1, <1>2, <1>4 DEF Starts, Others
  <2>2. \A k \in Job : Making(k) => job'[k] = job[k]
    BY <1>1, <1>2 DEF Starts, Others, Making
  <2>3. QED
    BY <1>3, <2>1, <2>2, Settled
<1>5. CASE job'[j].kind \in Calls
  <2>1. PICK h \in Node, g \in Node : h = job'[j].host /\ g = job'[j].guest /\ h # g
    BY <1>1 DEF Starts
  <2>2. \A k \in Job : Making(k) => Sides(k) # {h, g}
    BY <1>1, <1>5, <2>1 DEF Starts, Crossing, Making, Sides
  <2>3. Agree(h, g)
    BY <2>1, <2>2 DEF Undisturbed
  <2>4. Agree(h, g)'
    BY <1>3, <2>3 DEF Agree, Same
  <2>5. Place(j)' \in Even
    BY <1>1, <1>2, <1>5 DEF Starts, Place, Even, OneSided, Calls
  <2>6. Stage(j)'
    BY <2>1, <2>4, <2>5, EvenStage
  <2>7. ASSUME NEW k \in Job, k # j
        PROVE  /\ Making(k)' <=> Making(k)
               /\ Making(k) => Sides(k)' = Sides(k) /\ Sides(k)' # {h, g} /\ Stage(k)'
    <3>1. job'[k] = job[k]
      BY <1>1, <2>7 DEF Starts, Others
    <3>2. Making(k)' <=> Making(k)
      BY <3>1 DEF Making, Busy
    <3>3. ASSUME Making(k) PROVE Sides(k)' = Sides(k) /\ Sides(k)' # {h, g} /\ Stage(k)'
      <4>1. PICK hk \in Node, gk \in Node : hk = job[k].host /\ gk = job[k].guest
        BY <3>3, TwoNodes
      <4>2. Stage(k)
        BY <3>3 DEF Undisturbed
      <4>3. Stage(k)'
        BY <1>3, <3>1, <4>1, <4>2, StageStays
      <4>4. QED
        BY <2>2, <3>1, <3>3, <4>3 DEF Sides
    <3>4. QED
      BY <3>2, <3>3
  <2>8. Sides(j)' = {h, g} /\ Making(j)'
    BY <1>1, <1>5, <2>1 DEF Sides, Making, Busy, Starts
  <2>9. \A k \in Job : Busy(k)' => job'[k].kind \notin OneSided
    BY <1>1, <1>2 DEF Undisturbed, Starts, Others, Busy
  <2>10. \A i, k \in Job : Making(i)' /\ Making(k)' /\ Sides(i)' = Sides(k)' => i = k
    BY <2>7, <2>8 DEF Undisturbed
  <2>11. ASSUME NEW n \in Node, NEW m \in Node, n # m, \A k \in Job : Making(k)' => Sides(k)' # {n, m}
         PROVE  Agree(n, m)'
    <3>1. \A k \in Job : Making(k) => Sides(k) # {n, m}
      BY <1>2, <2>7, <2>11 DEF Making
    <3>2. Agree(n, m)
      BY <2>11, <3>1 DEF Undisturbed
    <3>3. QED
      BY <1>3, <3>2 DEF Agree, Same
  <2>12. \A k \in Job : Making(k)' => Stage(k)'
    BY <2>6, <2>7
  <2>13. QED
    BY <2>9, <2>10, <2>11, <2>12 DEF Undisturbed
<1>6. QED
  BY <1>4, <1>5

LEMMA TroubleGrows == Next => trouble \subseteq trouble'
<1>1. ASSUME NEW j \in Job, Step(j) PROVE trouble \subseteq trouble'
  BY <1>1 DEF Step, ReadAddresses, Assign, ReadInvites, Invite, Take, Untaken, AddTunnel, List,
              Race, Admit, Push, Drop, Close
<1>2. ASSUME NEW j \in Job, Ask(j) \/ Use(j) PROVE trouble \subseteq trouble'
  BY <1>2 DEF Ask, Use, Create, LanInvite, RedeemOpen, Forget, Redeem, RedeemAccept, Request
<1>3. ASSUME NEW j \in Job, Administer(j) PROVE trouble \subseteq trouble'
  BY <1>3 DEF Administer, SwitchOpen, Deny, AssignToGroup, RemoveFromGroup, UpdateTrust, Quick
<1>4. ASSUME NEW j \in Job, Abandon(j) PROVE trouble \subseteq trouble'
  BY <1>4 DEF Abandon
<1>5. ASSUME NEW n \in Node, Restart(n) PROVE trouble \subseteq trouble'
  BY <1>5 DEF Restart
<1>6. QED
  BY <1>1, <1>2, <1>3, <1>4, <1>5 DEF Next

LEMMA AgreedInit == Init => Agreed
<1> SUFFICES ASSUME Init PROVE Undisturbed
  BY DEF Agreed
<1>1. \A j \in Job : ~Busy(j)
  BY DEF Init, Busy, NoRequest
<1>2. \A n, m \in Node : ~Lists(n, m) /\ tunnel[n][m] = NoTunnel
  BY EmptySeq DEF Init, Lists
<1>3. \A n, m \in Node : Agree(n, m)
  BY <1>2 DEF Agree
<1>4. QED
  BY <1>1, <1>3 DEF Undisturbed, Making

LEMMA AgreedStep == Typed /\ Agreed /\ [Next]_vars => Agreed'
<1> SUFFICES ASSUME Typed, Agreed, [Next]_vars, trouble' = {} PROVE Undisturbed'
  BY DEF Agreed
<1>0. Undisturbed
  BY TroubleGrows DEF Agreed, vars
<1>1. ASSUME NEW j \in Job, ReadAddresses(j) PROVE Undisturbed'
  <2>1. \/ Place(j) \in Even /\ Following(j) \in Even
        \/ job[j].kind = "invite"
    BY <1>1, ReadAddressesMoves DEF Place, Following, Even
  <2>2. Busy(j) /\ Moves(j, job[j].addr, addresses[job[j].host]) /\ UNCHANGED <<listed, tunnel>>
    BY <1>1, ReadAddressesMoves DEF ReadAddresses
  <2>3. QED
    BY <1>0, <2>1, <2>2, QuietSteps
<1>2. ASSUME NEW j \in Job, Assign(j) PROVE Undisturbed'
  <2>1. \/ Place(j) \in Even /\ Following(j) \in Even
        \/ job[j].kind = "invite"
    BY <1>2, AssignMoves DEF Place, Following, Even, AtFile
  <2>2. PICK a \in Subnet : Moves(j, a, {})
    BY <1>2, AssignMoves
  <2>3. Busy(j) /\ UNCHANGED <<listed, tunnel>>
    BY <1>2, AssignMoves DEF Assign
  <2>4. QED
    BY <1>0, <2>1, <2>2, <2>3, QuietSteps
<1>3. ASSUME NEW j \in Job, ReadInvites(j) PROVE Undisturbed'
  <2>1. Busy(j) /\ Moves(j, job[j].addr, invites[job[j].host]) /\ UNCHANGED <<listed, tunnel>>
    BY <1>3, ReadInvitesMoves DEF ReadInvites
  <2>2. job[j].kind # "accept"
    BY <1>0, <2>1 DEF Undisturbed, OneSided
  <2>3. Place(j) \in {<<"invite", 3>>, <<"lan", 3>>, <<"lan", 7>>, <<"redeem", 2>>}
    BY <1>3, <2>2, ReadInvitesMoves DEF Place
  <2>4. \/ Place(j) \in Even /\ Following(j) \in Even
        \/ Place(j) \in HalfGuest /\ Following(j) \in HalfGuest
        \/ job[j].kind = "invite"
    BY <2>3 DEF Place, Following, Even, HalfGuest
  <2>5. QED
    BY <1>0, <2>1, <2>4, QuietSteps
<1>4. ASSUME NEW j \in Job, Invite(j) PROVE Undisturbed'
  <2>1. /\ Busy(j) /\ Moves(j, job[j].addr, {}) /\ UNCHANGED <<listed, tunnel>>
        /\ Place(j) \in {<<"invite", 4>>, <<"lan", 4>>}
    BY <1>4, InviteMoves DEF Invite
  <2>2. \/ Place(j) \in Even /\ Following(j) \in Even
        \/ job[j].kind = "invite"
    BY <2>1 DEF Place, Following, Even
  <2>3. QED
    BY <1>0, <2>1, <2>2, QuietSteps
<1>5. ASSUME NEW j \in Job, Take(j) PROVE Undisturbed'
  <2>1. PICK i : Moves(j, i.addr, {})
    BY <1>5, TakeMoves
  <2>2. /\ Busy(j) /\ UNCHANGED <<listed, tunnel>>
        /\ Place(j) \in {<<"redeem", 3>>, <<"lan", 8>>, <<"accept", 2>>}
    BY <1>5, TakeMoves DEF Take
  <2>3. job[j].kind # "accept"
    BY <1>0, <2>2 DEF Undisturbed, OneSided
  <2>4. Place(j) \in HalfGuest /\ Following(j) \in HalfGuest
    BY <2>2, <2>3 DEF Place, Following, HalfGuest
  <2>5. QED
    BY <1>0, <2>1, <2>2, <2>4, QuietSteps
<1>6. ASSUME NEW j \in Job, Untaken(j) PROVE FALSE
  BY <1>6 DEF Untaken
<1>7. ASSUME NEW j \in Job, AddTunnel(j) PROVE Undisturbed'
  BY <1>0, <1>7, AgreedTunnel
<1>8. ASSUME NEW j \in Job, List(j) PROVE Undisturbed'
  BY <1>0, <1>8, AgreedList
<1>9. ASSUME NEW j \in Job, Race(j) PROVE Undisturbed'
  BY <1>0, <1>9, AgreedRace
<1>10. ASSUME NEW j \in Job, Admit(j) PROVE Undisturbed'
  BY <1>0, <1>10, AgreedAdmit
<1>11. ASSUME NEW j \in Job, Push(j) PROVE Undisturbed'
  BY <1>0, <1>11, AgreedPush
<1>12. ASSUME NEW j \in Job, Drop(j) \/ Close(j) PROVE FALSE
  <2>1. Busy(j) /\ job[j].kind = "forget"
    BY <1>12, DropMoves, CloseMoves DEF Place
  <2>2. QED
    BY <1>0, <2>1 DEF Undisturbed, OneSided
<1>13. ASSUME NEW j \in Job, Abandon(j) PROVE FALSE
  BY <1>13 DEF Abandon
<1>14. ASSUME NEW j \in Job, Ask(j) \/ Use(j) PROVE Undisturbed'
  BY <1>0, <1>14, AgreedStart
<1>15. ASSUME NEW j \in Job, Administer(j) PROVE Undisturbed'
  <2>1. job[j] = NoRequest("none") /\ Ends(j) /\ tunnel' = tunnel
    BY <1>15, AdministerEnds
  <2>2. \A n, m \in Node : Lists(n, m)' <=> Lists(n, m)
    BY <1>15, AdministerEnds, TrustKeeps DEF Lists
  <2>3. /\ \A k \in Job : Busy(k)' /\ job'[k].kind \in Calls \cup OneSided => job'[k] = job[k]
        /\ \A k \in Job : Making(k) => job'[k] = job[k]
    BY <2>1 DEF Ends, Others, Busy, Making, NoRequest
  <2>4. QED
    BY <1>0, <2>1, <2>2, <2>3, Settled DEF Same
<1>16. ASSUME NEW n \in Node, Restart(n) PROVE FALSE
  BY <1>16 DEF Restart
<1>17. CASE UNCHANGED vars
  BY <1>0, <1>17, Settled DEF vars, Same, Lists
<1>18. QED
  BY <1>1, <1>2, <1>3, <1>4, <1>5, <1>6, <1>7, <1>8, <1>9, <1>10, <1>11, <1>12, <1>13, <1>14,
     <1>15, <1>16, <1>17 DEF Next, Step

\* When no request is in progress, and none was cut short, refused, crossed or made
\* of one node only, two nodes list each other or neither does and use one
\* pre-shared key (complete_invite, redeem_invite, lan_accept, open_join), for any
\* number of nodes and of requests at a time.
THEOREM TunnelsStayAgreed == Spec => []TunnelsAgree
<1>1. Init => Typed /\ Agreed
  BY TypedInit, AgreedInit
<1>2. Typed /\ Agreed /\ [Next]_vars => Typed' /\ Agreed'
  BY TypedStep, AgreedStep
<1>3. Agreed => TunnelsAgree
  BY DEF Agreed, Undisturbed, TunnelsAgree, AtRest, Making
<1>4. QED
  BY <1>1, <1>2, <1>3, PTL DEF Spec

--------------------------------------------------------------------------------
(* No address is given twice.                                                  *)

In(j, places) == Busy(j) /\ Place(j) \in places

\* One request of a node at a time has read this file and is about to rewrite it,
\* from what the file holds.
Exclusive(places, file) ==
  /\ \A j, k \in Job : In(j, places) /\ In(k, places) /\ job[j].host = job[k].host => j = k
  /\ \A j \in Job : In(j, places) => job[j].copy = file[job[j].host]

Unraced == Exclusive(AtFile, addresses) /\ Exclusive(AtInvites, invites)

Holds(j, n) == In(j, Holding) /\ job[j].host = n

\* Whoever has an address of a node has it alone, and the file knows it: a listed
\* peer, a pending invite, or a request between the two.
Distinct(n) ==
  /\ \A i, k \in 1 .. Len(listed[n]) :
       i # k /\ listed[n][i].addr # Own => listed[n][i].addr # listed[n][k].addr
  /\ \A i, k \in invites[n] : i.addr = k.addr => i = k
  /\ \A i \in 1 .. Len(listed[n]) : listed[n][i].addr # Own =>
       listed[n][i].addr \in addresses[n] /\ listed[n][i].addr \notin Given(n)
  /\ Given(n) \subseteq addresses[n]
  /\ \A j \in Job : Holds(j, n) =>
       /\ job[j].addr \in addresses[n] /\ job[j].addr \notin Given(n)
       /\ \A i \in 1 .. Len(listed[n]) : listed[n][i].addr # job[j].addr
       /\ \A k \in Job : Holds(k, n) /\ job[k].addr = job[j].addr => j = k

Separate == "raced" \notin trouble => Unraced /\ \A n \in Node : Distinct(n)

LEMMA ExclusiveStays ==
  ASSUME NEW P, NEW f, NEW g, Exclusive(P, f), NEW j \in Job, Others(j),
         \A k \in Job : k # j /\ In(k, P) => g[job[k].host] = f[job[k].host],
         In(j, P)' => /\ job'[j].copy = g[job'[j].host]
                      /\ \A k \in Job : k # j /\ In(k, P) => job[k].host # job'[j].host
  PROVE  Exclusive(P, g)'
<1>1. \A k \in Job : k # j => job'[k] = job[k] /\ (In(k, P)' <=> In(k, P))
  BY DEF Others, In, Busy, Place
<1>2. ASSUME NEW i \in Job, NEW k \in Job, In(i, P)', In(k, P)', job'[i].host = job'[k].host
      PROVE  i = k
  BY <1>1, <1>2 DEF Exclusive
<1>3. ASSUME NEW k \in Job, In(k, P)' PROVE job'[k].copy = g[job'[k].host]
  BY <1>1, <1>3 DEF Exclusive
<1>4. QED
  BY <1>2, <1>3 DEF Exclusive

\* The entries of a list are some of those before.
Sublist(n) ==
  \E place \in [1 .. Len(listed'[n]) -> 1 .. Len(listed[n])] :
    /\ \A i \in 1 .. Len(listed'[n]) : listed'[n][i].addr = listed[n][place[i]].addr
    /\ \A i, k \in 1 .. Len(listed'[n]) : i # k => place[i] # place[k]

\* No request comes to hold an address of n that it did not hold.
NoMore(n) ==
  \A k \in Job : Holds(k, n)' => Holds(k, n) /\ job'[k].addr = job[k].addr

LEMMA SameSublist ==
  ASSUME NEW n \in Node, Len(listed'[n]) = Len(listed[n]),
         \A i \in 1 .. Len(listed[n]) : listed'[n][i].addr = listed[n][i].addr
  PROVE  Sublist(n)
<1> DEFINE place == [i \in 1 .. Len(listed[n]) |-> i]
<1>1. place \in [1 .. Len(listed'[n]) -> 1 .. Len(listed[n])]
  OBVIOUS
<1>2. \A i \in 1 .. Len(listed[n]) : place[i] = i
  OBVIOUS
<1> HIDE DEF place
<1>3. QED
  BY <1>1, <1>2 DEF Sublist

LEMMA DistinctStays ==
  ASSUME NEW n \in Node, Distinct(n), NoMore(n), Sublist(n),
         addresses[n] \subseteq addresses'[n], invites'[n] \subseteq invites[n]
  PROVE  Distinct(n)'
<1>1. PICK place \in [1 .. Len(listed'[n]) -> 1 .. Len(listed[n])] :
        /\ \A i \in 1 .. Len(listed'[n]) : listed'[n][i].addr = listed[n][place[i]].addr
        /\ \A i, k \in 1 .. Len(listed'[n]) : i # k => place[i] # place[k]
  BY DEF Sublist
<1>2. \A i \in 1 .. Len(listed'[n]) : place[i] \in 1 .. Len(listed[n])
  BY <1>1
<1>3. Given(n)' \subseteq Given(n)
  BY DEF Given
<1>4. ASSUME NEW i \in 1 .. Len(listed'[n]), NEW k \in 1 .. Len(listed'[n]),
             i # k, listed'[n][i].addr # Own
      PROVE  listed'[n][i].addr # listed'[n][k].addr
  <2>1. place[i] # place[k] /\ place[i] \in 1 .. Len(listed[n]) /\ place[k] \in 1 .. Len(listed[n])
    BY <1>1, <1>2, <1>4
  <2>2. listed'[n][i].addr = listed[n][place[i]].addr /\ listed'[n][k].addr = listed[n][place[k]].addr
    BY <1>1
  <2>3. QED
    BY <1>4, <2>1, <2>2 DEF Distinct
<1>5. ASSUME NEW i \in 1 .. Len(listed'[n]), listed'[n][i].addr # Own
      PROVE  listed'[n][i].addr \in addresses'[n] /\ listed'[n][i].addr \notin Given(n)'
  BY <1>1, <1>2, <1>3, <1>5 DEF Distinct
<1>6. ASSUME NEW j \in Job, Holds(j, n)'
      PROVE  /\ job'[j].addr \in addresses'[n] /\ job'[j].addr \notin Given(n)'
             /\ \A i \in 1 .. Len(listed'[n]) : listed'[n][i].addr # job'[j].addr
             /\ \A k \in Job : Holds(k, n)' /\ job'[k].addr = job'[j].addr => j = k
  <2>1. Holds(j, n) /\ job'[j].addr = job[j].addr
    BY <1>6 DEF NoMore
  <2>2. job'[j].addr \in addresses'[n] /\ job'[j].addr \notin Given(n)'
    BY <1>3, <2>1 DEF Distinct
  <2>3. \A i \in 1 .. Len(listed'[n]) : listed'[n][i].addr # job'[j].addr
    BY <1>1, <1>2, <2>1 DEF Distinct
  <2>4. \A k \in Job : Holds(k, n)' /\ job'[k].addr = job'[j].addr => j = k
    BY <2>1 DEF Distinct, NoMore
  <2>5. QED
    BY <2>2, <2>3, <2>4
<1>7. \A i, k \in invites'[n] : i.addr = k.addr => i = k
  BY DEF Distinct
<1>8. Given(n)' \subseteq addresses'[n]
  BY <1>3 DEF Distinct
<1>9. QED
  BY <1>4, <1>5, <1>6, <1>7, <1>8 DEF Distinct

\* A node lists one more peer, at its own address or at one that a request held.
LEMMA DistinctAppend ==
  ASSUME Typed, NEW n \in Node, Distinct(n), NoMore(n), NEW e \in Entry, Appends(n, e),
         NEW j \in Job,
         e.addr = Own \/ (Holds(j, n) /\ e.addr = job[j].addr /\ ~Holds(j, n)'),
         addresses'[n] = addresses[n], invites'[n] = invites[n]
  PROVE  Distinct(n)'
<1> DEFINE len == Len(listed[n])
<1>1. /\ Len(listed'[n]) = len + 1 /\ len \in Nat
      /\ \A i \in 1 .. len : listed'[n][i] = listed[n][i]
      /\ listed'[n][len + 1] = e
  BY AppendLists
<1>2. \A i \in 1 .. Len(listed'[n]) : i \in 1 .. len \/ i = len + 1
  BY <1>1
<1>3. Given(n)' = Given(n)
  BY DEF Given
<1>4. e.addr # Own =>
        /\ e.addr \in addresses[n] /\ e.addr \notin Given(n)
        /\ \A i \in 1 .. len : listed[n][i].addr # e.addr
        /\ \A k \in Job : Holds(k, n)' => job'[k].addr # e.addr
  BY DEF Distinct, NoMore
<1>5. \A k \in Job : Holds(k, n)' => job'[k].addr # Own
  <2>1. \A k \in Job : Holds(k, n) => job[k].addr \in Subnet
    BY DEF Holds, In, Typed, Running
  <2>2. Own \notin Subnet
    BY DEF Own, Subnet
  <2>3. QED
    BY <2>1, <2>2 DEF NoMore
<1> HIDE DEF len
<1>6. ASSUME NEW i \in 1 .. Len(listed'[n]), NEW k \in 1 .. Len(listed'[n]),
             i # k, listed'[n][i].addr # Own
      PROVE  listed'[n][i].addr # listed'[n][k].addr
  <2>1. CASE i \in 1 .. len /\ k \in 1 .. len
    BY <1>1, <1>6, <2>1 DEF Distinct, len
  <2>2. CASE i \in 1 .. len /\ k = len + 1
    BY <1>1, <1>4, <1>6, <2>2
  <2>3. CASE k \in 1 .. len /\ i = len + 1
    BY <1>1, <1>4, <1>6, <2>3
  <2>4. QED
    BY <1>2, <1>6, <2>1, <2>2, <2>3
<1>7. ASSUME NEW i \in 1 .. Len(listed'[n]), listed'[n][i].addr # Own
      PROVE  listed'[n][i].addr \in addresses'[n] /\ listed'[n][i].addr \notin Given(n)'
  <2>1. CASE i \in 1 .. len
    BY <1>1, <1>3, <1>7, <2>1 DEF Distinct, len
  <2>2. CASE i = len + 1
    BY <1>1, <1>3, <1>4, <1>7, <2>2
  <2>3. QED
    BY <1>2, <2>1, <2>2
<1>8. ASSUME NEW k \in Job, Holds(k, n)'
      PROVE  /\ job'[k].addr \in addresses'[n] /\ job'[k].addr \notin Given(n)'
             /\ \A i \in 1 .. Len(listed'[n]) : listed'[n][i].addr # job'[k].addr
             /\ \A l \in Job : Holds(l, n)' /\ job'[l].addr = job'[k].addr => k = l
  <2>1. Holds(k, n) /\ job'[k].addr = job[k].addr
    BY <1>8 DEF NoMore
  <2>2. job'[k].addr \in addresses'[n] /\ job'[k].addr \notin Given(n)'
    BY <1>3, <2>1 DEF Distinct
  <2>3. ASSUME NEW i \in 1 .. Len(listed'[n]) PROVE listed'[n][i].addr # job'[k].addr
    <3>1. CASE i \in 1 .. len
      BY <1>1, <2>1, <3>1 DEF Distinct, len
    <3>2. CASE i = len + 1
      BY <1>1, <1>4, <1>5, <1>8, <3>2
    <3>3. QED
      BY <1>2, <3>1, <3>2
  <2>4. \A l \in Job : Holds(l, n)' /\ job'[l].addr = job'[k].addr => k = l
    BY <2>1 DEF Distinct, NoMore
  <2>5. QED
    BY <2>2, <2>3, <2>4
<1>9. Given(n)' \subseteq addresses'[n] /\ \A i, k \in invites'[n] : i.addr = k.addr => i = k
  BY <1>3 DEF Distinct
<1>10. QED
  BY <1>6, <1>7, <1>8, <1>9 DEF Distinct

\* A request comes to hold an address that nobody has.
LEMMA DistinctHolds ==
  ASSUME NEW n \in Node, Distinct(n), NEW j \in Job, ~Holds(j, n),
         \A k \in Job : k # j => (Holds(k, n)' <=> Holds(k, n)) /\ job'[k].addr = job[k].addr,
         listed' = listed, invites'[n] \subseteq invites[n], addresses[n] \subseteq addresses'[n],
         job'[j].addr \in addresses'[n], job'[j].addr \notin Given(n)',
         \A i \in 1 .. Len(listed[n]) : listed[n][i].addr # job'[j].addr,
         \A k \in Job : Holds(k, n) => job[k].addr # job'[j].addr
  PROVE  Distinct(n)'
<1>1. Given(n)' \subseteq Given(n)
  BY DEF Given
<1>2. ASSUME NEW k \in Job, Holds(k, n)'
      PROVE  /\ job'[k].addr \in addresses'[n] /\ job'[k].addr \notin Given(n)'
             /\ \A i \in 1 .. Len(listed'[n]) : listed'[n][i].addr # job'[k].addr
             /\ \A l \in Job : Holds(l, n)' /\ job'[l].addr = job'[k].addr => k = l
  BY <1>1, <1>2 DEF Distinct
<1>3. \A i \in 1 .. Len(listed'[n]) : listed'[n][i].addr # Own =>
        listed'[n][i].addr \in addresses'[n] /\ listed'[n][i].addr \notin Given(n)'
  BY <1>1 DEF Distinct
<1>4. QED
  BY <1>1, <1>2, <1>3 DEF Distinct

LEMMA AddressesQuiet ==
  ASSUME Exclusive(AtFile, addresses), NEW j \in Job, Others(j), addresses' = addresses, ~In(j, AtFile)'
  PROVE  Exclusive(AtFile, addresses)'
<1>1. PICK f : f = addresses
  OBVIOUS
<1>2. Exclusive(AtFile, f)
  BY <1>1 DEF Exclusive
<1>3. Exclusive(AtFile, f)'
  BY <1>2, ExclusiveStays
<1>4. f = addresses'
  BY <1>1
<1>5. QED
  BY <1>3, <1>4 DEF Exclusive

\* A request has read the file that nobody else is about to rewrite.
LEMMA AddressesRead ==
  ASSUME Exclusive(AtFile, addresses), NEW j \in Job, Others(j), addresses' = addresses,
         In(j, AtFile)' => job'[j].host = job[j].host /\ job'[j].copy = addresses[job[j].host],
         \A k \in Job : k # j /\ In(k, AtFile) => job[k].host # job[j].host
  PROVE  Exclusive(AtFile, addresses)'
<1>1. PICK f : f = addresses
  OBVIOUS
<1>2. Exclusive(AtFile, f)
  BY <1>1 DEF Exclusive
<1>3. Exclusive(AtFile, f)'
  BY <1>1, <1>2, ExclusiveStays
<1>4. f = addresses'
  BY <1>1
<1>5. QED
  BY <1>3, <1>4 DEF Exclusive

\* A request has rewritten the file.
LEMMA AddressesWritten ==
  ASSUME Exclusive(AtFile, addresses), NEW j \in Job, Others(j), In(j, AtFile), ~In(j, AtFile)',
         job[j].host \in Node, \A k \in Job : In(k, AtFile) => job[k].host \in Node,
         \A n \in Node : n # job[j].host => addresses'[n] = addresses[n]
  PROVE  Exclusive(AtFile, addresses)'
<1>1. PICK f : f = addresses
  OBVIOUS
<1>2. PICK g : g = addresses'
  OBVIOUS
<1>3. Exclusive(AtFile, f)
  BY <1>1 DEF Exclusive
<1>4. \A k \in Job : k # j /\ In(k, AtFile) => g[job[k].host] = f[job[k].host]
  BY <1>1, <1>2 DEF Exclusive
<1>5. Exclusive(AtFile, g)'
  BY <1>3, <1>4, ExclusiveStays
<1>6. QED
  BY <1>2, <1>5 DEF Exclusive

LEMMA InvitesQuiet ==
  ASSUME Exclusive(AtInvites, invites), NEW j \in Job, Others(j), invites' = invites, ~In(j, AtInvites)'
  PROVE  Exclusive(AtInvites, invites)'
<1>1. PICK f : f = invites
  OBVIOUS
<1>2. Exclusive(AtInvites, f)
  BY <1>1 DEF Exclusive
<1>3. Exclusive(AtInvites, f)'
  BY <1>2, ExclusiveStays
<1>4. f = invites'
  BY <1>1
<1>5. QED
  BY <1>3, <1>4 DEF Exclusive

\* A request has read the file that nobody else is about to rewrite.
LEMMA InvitesRead ==
  ASSUME Exclusive(AtInvites, invites), NEW j \in Job, Others(j), invites' = invites,
         In(j, AtInvites)' => job'[j].host = job[j].host /\ job'[j].copy = invites[job[j].host],
         \A k \in Job : k # j /\ In(k, AtInvites) => job[k].host # job[j].host
  PROVE  Exclusive(AtInvites, invites)'
<1>1. PICK f : f = invites
  OBVIOUS
<1>2. Exclusive(AtInvites, f)
  BY <1>1 DEF Exclusive
<1>3. Exclusive(AtInvites, f)'
  BY <1>1, <1>2, ExclusiveStays
<1>4. f = invites'
  BY <1>1
<1>5. QED
  BY <1>3, <1>4 DEF Exclusive

\* A request has rewritten the file.
LEMMA InvitesWritten ==
  ASSUME Exclusive(AtInvites, invites), NEW j \in Job, Others(j), In(j, AtInvites), ~In(j, AtInvites)',
         job[j].host \in Node, \A k \in Job : In(k, AtInvites) => job[k].host \in Node,
         \A n \in Node : n # job[j].host => invites'[n] = invites[n]
  PROVE  Exclusive(AtInvites, invites)'
<1>1. PICK f : f = invites
  OBVIOUS
<1>2. PICK g : g = invites'
  OBVIOUS
<1>3. Exclusive(AtInvites, f)
  BY <1>1 DEF Exclusive
<1>4. \A k \in Job : k # j /\ In(k, AtInvites) => g[job[k].host] = f[job[k].host]
  BY <1>1, <1>2 DEF Exclusive
<1>5. Exclusive(AtInvites, g)'
  BY <1>3, <1>4, ExclusiveStays
<1>6. QED
  BY <1>2, <1>5 DEF Exclusive

\* The files and the addresses of a request that neither reads nor rewrites a file.
LEMMA SeparateQuiet ==
  ASSUME Typed, Unraced, \A n \in Node : Distinct(n), NEW j \in Job, Others(j),
         UNCHANGED <<addresses, invites>>, ~In(j, AtFile)', ~In(j, AtInvites)',
         \A n \in Node : NoMore(n) /\ Sublist(n)
  PROVE  Unraced' /\ \A n \in Node : Distinct(n)'
<1>1. Exclusive(AtFile, addresses)' /\ Exclusive(AtInvites, invites)'
  BY AddressesQuiet, InvitesQuiet DEF Unraced
<1>2. \A n \in Node : Distinct(n)'
  BY DistinctStays
<1>3. QED
  BY <1>1, <1>2 DEF Unraced

LEMMA OthersHold ==
  ASSUME NEW j \in Job, Others(j), NEW n \in Node, NEW k \in Job, k # j
  PROVE  (Holds(k, n)' <=> Holds(k, n)) /\ job'[k].addr = job[k].addr
BY DEF Others, Holds, In, Busy, Place

LEMMA ListsAlike ==
  ASSUME listed' = listed
  PROVE  \A n \in Node : Sublist(n)
BY SameSublist

LEMMA EndsHold ==
  ASSUME NEW j \in Job, Ends(j)
  PROVE  /\ Others(j) /\ ~In(j, AtFile)' /\ ~In(j, AtInvites)'
         /\ \A n \in Node : NoMore(n) /\ ~Holds(j, n)'
BY DEF Ends, Others, In, Busy, NoMore, Holds, Place

LEMMA MovesHold ==
  ASSUME Typed, NEW j \in Job, Busy(j), NEW a, NEW c, Moves(j, a, c)
  PROVE  /\ Others(j)
         /\ \A P : In(j, P)' => Following(j) \in P /\ job'[j].host = job[j].host /\ job'[j].copy = c
         /\ \A n \in Node : Holds(j, n)' =>
              Following(j) \in Holding /\ job[j].host = n /\ job'[j].addr = a
         /\ (Following(j) \in Holding => Place(j) \in Holding /\ a = job[j].addr) =>
              \A n \in Node : NoMore(n)
<1>1. Others(j)
  BY DEF Moves
<1>2. ASSUME Busy(j)'
      PROVE  Place(j)' = Following(j) /\ job'[j].host = job[j].host /\ job'[j].copy = c
             /\ job'[j].addr = a
  <2>1. job[j].at # Len(Program[job[j].kind])
    BY <1>2 DEF Busy, Moves
  <2>2. QED
    BY <2>1, MovedFields DEF Place, Following
<1>3. \A P : In(j, P)' => Following(j) \in P /\ job'[j].host = job[j].host /\ job'[j].copy = c
  BY <1>2 DEF In
<1>4. \A n \in Node : Holds(j, n)' =>
        Following(j) \in Holding /\ job[j].host = n /\ job'[j].addr = a
  BY <1>2 DEF In, Holds
<1>5. ASSUME Following(j) \in Holding => Place(j) \in Holding /\ a = job[j].addr, NEW n \in Node,
             NEW k \in Job, Holds(k, n)'
      PROVE  Holds(k, n) /\ job'[k].addr = job[k].addr
  <2>1. CASE k = j
    BY <1>4, <1>5, <2>1 DEF Holds, In
  <2>2. CASE k # j
    BY <1>1, <1>5, <2>2 DEF Others, Holds, In, Busy, Place
  <2>3. QED
    BY <2>1, <2>2
<1>6. QED
  BY <1>1, <1>3, <1>4, <1>5 DEF NoMore

\* A request that goes on and touches no file.
LEMMA SeparateMoves ==
  ASSUME Typed, Unraced, \A n \in Node : Distinct(n), NEW j \in Job, Busy(j),
         Moves(j, job[j].addr, job[j].copy),
         UNCHANGED <<addresses, invites>>, Following(j) \notin AtFile \cup AtInvites,
         Following(j) \in Holding => Place(j) \in Holding,
         \A n \in Node : Sublist(n)
  PROVE  Unraced' /\ \A n \in Node : Distinct(n)'
<1>1. Others(j) /\ ~In(j, AtFile)' /\ ~In(j, AtInvites)' /\ \A n \in Node : NoMore(n)
  BY MovesHold
<1>2. QED
  BY <1>1, SeparateQuiet

LEMMA SeparateEnds ==
  ASSUME Typed, Unraced, \A n \in Node : Distinct(n), NEW j \in Job, Ends(j),
         UNCHANGED <<addresses, invites>>, \A n \in Node : Sublist(n)
  PROVE  Unraced' /\ \A n \in Node : Distinct(n)'
BY EndsHold, SeparateQuiet

\* Whoever is about to rewrite a file is one that the reader of it overlaps with.
LEMMA ReaderOverlaps ==
  ASSUME Typed, NEW j \in Job, AtHost(j), NEW k \in Job \ {j}, job[k].host = job[j].host
  PROVE  /\ In(k, AtFile) => Overlaps(j, {"assign"})
         /\ In(k, AtInvites) => Overlaps(j, {"invite", "take"})
<1>1. CASE In(k, AtFile)
  <2>1. Busy(k) /\ Running(k) /\ Place(k) \in AtFile
    BY <1>1 DEF In, Typed
  <2>2. At(k, "assign") /\ AtHost(k)
    BY <2>1, Places DEF AtFile
  <2>3. Place(k) \notin AtInvites
    BY <2>1 DEF AtFile, AtInvites
  <2>4. QED
    BY <2>1, <2>2, <2>3 DEF Overlaps, At, Here, In
<1>2. CASE In(k, AtInvites)
  <2>1. Busy(k) /\ Running(k) /\ Place(k) \in AtInvites
    BY <1>2 DEF In, Typed
  <2>2. (At(k, "invite") \/ At(k, "take")) /\ AtHost(k)
    BY <2>1, Places DEF AtInvites
  <2>3. Place(k) \notin AtFile
    BY <2>1 DEF AtFile, AtInvites
  <2>4. QED
    BY <2>1, <2>2, <2>3 DEF Overlaps, At, Here, In
<1>3. QED
  BY <1>1, <1>2

LEMMA SeparateReadAddresses ==
  ASSUME Typed, Unraced, \A n \in Node : Distinct(n), NEW j \in Job, ReadAddresses(j),
         "raced" \notin trouble'
  PROVE  Unraced' /\ \A n \in Node : Distinct(n)'
<1>1. /\ Busy(j) /\ AtHost(j) /\ Moves(j, job[j].addr, addresses[job[j].host])
      /\ Place(j) \in {<<"invite", 1>>, <<"lan", 1>>, <<"open", 2>>}
      /\ ~Overlaps(j, {"assign"}) /\ UNCHANGED <<addresses, invites, listed>>
  BY ReadAddressesMoves DEF ReadAddresses, files
<1>2. Following(j) \notin AtInvites \cup Holding
  BY <1>1 DEF Place, Following, AtInvites, Holding
<1>3. /\ Others(j) /\ ~In(j, AtInvites)' /\ \A n \in Node : NoMore(n)
      /\ In(j, AtFile)' => job'[j].host = job[j].host /\ job'[j].copy = addresses[job[j].host]
  BY <1>1, <1>2, MovesHold
<1>4. \A k \in Job : k # j /\ In(k, AtFile) => job[k].host # job[j].host
  BY <1>1, ReaderOverlaps
<1>5. Exclusive(AtFile, addresses)' /\ Exclusive(AtInvites, invites)'
  BY <1>1, <1>3, <1>4, AddressesRead, InvitesQuiet DEF Unraced
<1>6. \A n \in Node : Distinct(n)'
  BY <1>1, <1>3, ListsAlike, DistinctStays
<1>7. QED
  BY <1>5, <1>6 DEF Unraced

LEMMA SeparateReadInvites ==
  ASSUME Typed, Unraced, \A n \in Node : Distinct(n), NEW j \in Job, ReadInvites(j),
         "raced" \notin trouble'
  PROVE  Unraced' /\ \A n \in Node : Distinct(n)'
<1>1. /\ Busy(j) /\ AtHost(j) /\ Moves(j, job[j].addr, invites[job[j].host])
      /\ Place(j) \in {<<"invite", 3>>, <<"lan", 3>>, <<"lan", 7>>, <<"redeem", 2>>, <<"accept", 1>>}
      /\ ~Overlaps(j, {"invite", "take"}) /\ UNCHANGED <<addresses, invites, listed>>
  BY ReadInvitesMoves DEF ReadInvites, files
<1>2. Following(j) \notin AtFile /\ (Following(j) \in Holding => Place(j) \in Holding)
  BY <1>1 DEF Place, Following, AtFile, Holding
<1>3. /\ Others(j) /\ ~In(j, AtFile)' /\ \A n \in Node : NoMore(n)
      /\ In(j, AtInvites)' => job'[j].host = job[j].host /\ job'[j].copy = invites[job[j].host]
  BY <1>1, <1>2, MovesHold
<1>4. \A k \in Job : k # j /\ In(k, AtInvites) => job[k].host # job[j].host
  BY <1>1, ReaderOverlaps
<1>5. Exclusive(AtFile, addresses)' /\ Exclusive(AtInvites, invites)'
  BY <1>1, <1>3, <1>4, AddressesQuiet, InvitesRead DEF Unraced
<1>6. \A n \in Node : Distinct(n)'
  BY <1>1, <1>3, ListsAlike, DistinctStays
<1>7. QED
  BY <1>5, <1>6 DEF Unraced

LEMMA SeparateAssign ==
  ASSUME Typed, Unraced, \A n \in Node : Distinct(n), NEW j \in Job, Assign(j)
  PROVE  Unraced' /\ \A n \in Node : Distinct(n)'
<1>1. /\ Busy(j) /\ Running(j) /\ Place(j) \in AtFile
      /\ listed' = listed /\ invites' = invites
  BY AssignMoves DEF Assign
<1>2. PICK a \in Subnet : /\ a \notin job[j].copy /\ Moves(j, a, {})
        /\ addresses' = [addresses EXCEPT ![job[j].host] = job[j].copy \cup {a}]
  BY AssignMoves
<1>3. Following(j) \notin AtFile \cup AtInvites /\ Place(j) \notin Holding
  BY <1>1 DEF Place, Following, AtFile, AtInvites, Holding
<1>4. PICK h \in Node : h = job[j].host
  BY <1>1 DEF Running
<1>5. In(j, AtFile) /\ addresses[h] = job[j].copy
  BY <1>1, <1>4 DEF In, Unraced, Exclusive
<1>6. /\ Others(j) /\ ~In(j, AtFile)' /\ ~In(j, AtInvites)'
  BY <1>1, <1>2, <1>3, MovesHold
<1>7. addresses'[h] = addresses[h] \cup {a} /\ \A n \in Node : n # h => addresses'[n] = addresses[n]
  BY <1>2, <1>4, <1>5 DEF Typed
<1>8. Exclusive(AtFile, addresses)' /\ Exclusive(AtInvites, invites)'
  BY <1>1, <1>4, <1>5, <1>6, <1>7, AddressesWritten, InvitesQuiet DEF Unraced, In, Typed, Running
<1>9. ASSUME NEW n \in Node PROVE Distinct(n)'
  <2>1. CASE n # h \/ ~Holds(j, n)'
    <3>1. ~Holds(j, n)'
      BY <1>1, <1>2, <1>4, <2>1, MovesHold
    <3>2. NoMore(n)
      BY <1>6, <3>1, OthersHold DEF NoMore
    <3>3. addresses[n] \subseteq addresses'[n]
      BY <1>7
    <3>4. QED
      BY <1>1, <3>2, <3>3, ListsAlike, DistinctStays
  <2>2. CASE n = h /\ Holds(j, n)'
    <3>1. job'[j].addr = a /\ ~Holds(j, n)
      BY <1>1, <1>2, <1>3, <2>2, MovesHold DEF Holds, In
    <3>2. a \notin addresses[n] /\ addresses'[n] = addresses[n] \cup {a}
      BY <1>2, <1>5, <1>7, <2>2
    <3>3. a \notin Given(n)'
      BY <1>1, <3>2 DEF Given, Distinct
    <3>4. /\ \A i \in 1 .. Len(listed[n]) : listed[n][i].addr # a
          /\ \A k \in Job : Holds(k, n) => job[k].addr # a
      BY <3>2 DEF Distinct, Subnet, Own
    <3>5. QED
      BY <1>1, <1>6, <3>1, <3>2, <3>3, <3>4, OthersHold, DistinctHolds
  <2>3. QED
    BY <2>1, <2>2
<1>10. QED
  BY <1>8, <1>9 DEF Unraced

LEMMA SeparateInvite ==
  ASSUME Typed, Unraced, \A n \in Node : Distinct(n), NEW j \in Job, Invite(j)
  PROVE  Unraced' /\ \A n \in Node : Distinct(n)'
<1> DEFINE i == [psk |-> job[j].psk, addr |-> job[j].addr]
<1>1. /\ Busy(j) /\ Running(j) /\ Place(j) \in {<<"invite", 4>>, <<"lan", 4>>}
      /\ Moves(j, job[j].addr, {}) /\ i.addr = job[j].addr
      /\ invites' = [invites EXCEPT ![job[j].host] = job[j].copy \cup {i}]
      /\ listed' = listed /\ addresses' = addresses
  BY InviteMoves DEF Invite
<1> HIDE DEF i
<1>2. /\ Following(j) \notin AtFile \cup AtInvites \cup Holding
      /\ Place(j) \in Holding /\ Place(j) \in AtInvites
  BY <1>1 DEF Place, Following, AtFile, AtInvites, Holding
<1>3. PICK h \in Node : h = job[j].host
  BY <1>1 DEF Running
<1>4. In(j, AtInvites) /\ invites[h] = job[j].copy /\ Holds(j, h)
  BY <1>1, <1>2, <1>3 DEF In, Holds, Unraced, Exclusive
<1>5. /\ Others(j) /\ ~In(j, AtFile)' /\ ~In(j, AtInvites)'
      /\ \A n \in Node : NoMore(n) /\ ~Holds(j, n)'
  BY <1>1, <1>2, MovesHold
<1>6. invites'[h] = invites[h] \cup {i} /\ \A n \in Node : n # h => invites'[n] = invites[n]
  BY <1>1, <1>3, <1>4 DEF Typed
<1>7. Exclusive(AtFile, addresses)' /\ Exclusive(AtInvites, invites)'
  BY <1>1, <1>3, <1>4, <1>5, <1>6, AddressesQuiet, InvitesWritten DEF Unraced, In, Typed, Running
<1>8. ASSUME NEW n \in Node, n # h PROVE Distinct(n)'
  BY <1>1, <1>5, <1>6, <1>8, ListsAlike, DistinctStays
<1>9. Distinct(h)'
  <2>1. Given(h)' = Given(h) \cup {i.addr}
    BY <1>6 DEF Given
  <2>2. i.addr \in addresses[h] /\ i.addr \notin Given(h)
    BY <1>1, <1>4 DEF Distinct
  <2>3. \A k \in 1 .. Len(listed[h]) : listed[h][k].addr # i.addr
    BY <1>1, <1>4 DEF Distinct
  <2>4. \A k \in Job : Holds(k, h)' => Holds(k, h) /\ job'[k].addr = job[k].addr /\ job[k].addr # i.addr
    BY <1>1, <1>4, <1>5 DEF Distinct, NoMore
  <2>5. \A x, y \in invites'[h] : x.addr = y.addr => x = y
    BY <1>6, <2>2 DEF Given, Distinct
  <2>6. \A k \in 1 .. Len(listed'[h]) : listed'[h][k].addr # Own =>
          listed'[h][k].addr \in addresses'[h] /\ listed'[h][k].addr \notin Given(h)'
    BY <1>1, <2>1, <2>3 DEF Distinct
  <2>7. ASSUME NEW k \in Job, Holds(k, h)'
        PROVE  /\ job'[k].addr \in addresses'[h] /\ job'[k].addr \notin Given(h)'
               /\ \A l \in 1 .. Len(listed'[h]) : listed'[h][l].addr # job'[k].addr
               /\ \A l \in Job : Holds(l, h)' /\ job'[l].addr = job'[k].addr => k = l
    BY <1>1, <2>1, <2>4, <2>7 DEF Distinct
  <2>8. Given(h)' \subseteq addresses'[h]
    BY <1>1, <2>1, <2>2 DEF Distinct
  <2>9. \A k, l \in 1 .. Len(listed'[h]) :
          k # l /\ listed'[h][k].addr # Own => listed'[h][k].addr # listed'[h][l].addr
    BY <1>1 DEF Distinct
  <2>10. QED
    BY <2>5, <2>6, <2>7, <2>8, <2>9 DEF Distinct
<1>10. QED
  BY <1>7, <1>8, <1>9 DEF Unraced

LEMMA SeparateTake ==
  ASSUME Typed, Unraced, \A n \in Node : Distinct(n), NEW j \in Job, Take(j)
  PROVE  Unraced' /\ \A n \in Node : Distinct(n)'
<1>1. /\ Busy(j) /\ Running(j) /\ Place(j) \in {<<"redeem", 3>>, <<"lan", 8>>, <<"accept", 2>>}
      /\ invites' = [invites EXCEPT ![job[j].host] = job[j].copy \ Invited(j)]
      /\ listed' = listed /\ addresses' = addresses
  BY TakeMoves DEF Take
<1>2. PICK i \in Invited(j) : Moves(j, i.addr, {})
  BY TakeMoves
<1>3. /\ Following(j) \notin AtFile \cup AtInvites
      /\ Place(j) \notin Holding /\ Place(j) \in AtInvites
  BY <1>1 DEF Place, Following, AtFile, AtInvites, Holding
<1>4. PICK h \in Node : h = job[j].host
  BY <1>1 DEF Running
<1>5. In(j, AtInvites) /\ invites[h] = job[j].copy
  BY <1>1, <1>3, <1>4 DEF In, Unraced, Exclusive
<1>6. Others(j) /\ ~In(j, AtFile)' /\ ~In(j, AtInvites)'
  BY <1>1, <1>2, <1>3, MovesHold
<1>7. invites'[h] = invites[h] \ Invited(j) /\ \A n \in Node : n # h => invites'[n] = invites[n]
  BY <1>1, <1>4, <1>5 DEF Typed
<1>8. Exclusive(AtFile, addresses)' /\ Exclusive(AtInvites, invites)'
  BY <1>1, <1>4, <1>5, <1>6, <1>7, AddressesQuiet, InvitesWritten DEF Unraced, In, Typed, Running
<1>9. ASSUME NEW n \in Node PROVE Distinct(n)'
  <2>1. CASE ~Holds(j, n)'
    <3>1. NoMore(n)
      BY <1>6, <2>1, OthersHold DEF NoMore
    <3>2. invites'[n] \subseteq invites[n]
      BY <1>7
    <3>3. QED
      BY <1>1, <3>1, <3>2, ListsAlike, DistinctStays
  <2>2. CASE Holds(j, n)'
    <3>1. job'[j].addr = i.addr /\ ~Holds(j, n) /\ n = h
      BY <1>1, <1>2, <1>3, <1>4, <2>2, MovesHold DEF Holds, In
    <3>2. i \in invites[n] /\ i \notin invites'[n] /\ invites'[n] \subseteq invites[n]
      BY <1>5, <1>7, <3>1 DEF Invited
    <3>3. i.addr \notin Given(n)' /\ i.addr \in Given(n)
      BY <3>2 DEF Given, Distinct
    <3>4. /\ i.addr \in addresses[n]
          /\ \A k \in Job : Holds(k, n) => job[k].addr # i.addr
      BY <3>3 DEF Distinct
    <3>5. \A k \in 1 .. Len(listed[n]) : listed[n][k].addr # i.addr
      <4>1. i.addr # Own
        BY <3>2 DEF Typed, Pending, Subnet, Own
      <4>2. QED
        BY <3>3, <4>1 DEF Distinct
    <3>6. QED
      BY <1>1, <1>6, <3>1, <3>2, <3>3, <3>4, <3>5, OthersHold, DistinctHolds
  <2>3. QED
    BY <2>1, <2>2
<1>10. QED
  BY <1>8, <1>9 DEF Unraced

LEMMA SeparateUntaken ==
  ASSUME Typed, Unraced, \A n \in Node : Distinct(n), NEW j \in Job, Untaken(j)
  PROVE  Unraced' /\ \A n \in Node : Distinct(n)'
<1>1. /\ Busy(j) /\ Running(j) /\ AtHost(j)
      /\ Place(j) \in {<<"redeem", 3>>, <<"lan", 8>>, <<"accept", 2>>}
      /\ listed' = listed /\ addresses' = addresses
      /\ Ends(j) \/ (Others(j) /\ Place(j)' = <<"lan", 11>>)
  BY UntakenMoves DEF Untaken
<1>2. /\ Others(j) /\ ~In(j, AtFile)' /\ ~In(j, AtInvites)' /\ \A n \in Node : ~Holds(j, n)'
  BY <1>1, EndsHold DEF In, Holds, AtFile, AtInvites, Holding
<1>3. PICK h \in Node : h = job[j].host
  BY <1>1 DEF Running
<1>4. In(j, AtInvites) /\ invites[h] = job[j].copy
  <2>1. Place(j) \in AtInvites
    BY <1>1 DEF AtInvites
  <2>2. QED
    BY <1>1, <1>3, <2>1 DEF In, Unraced, Exclusive
<1>5. invites' = [invites EXCEPT ![h] = IF Invited(j) = {} THEN invites[h] ELSE job[j].copy \ Invited(j)]
  BY <1>1, <1>3 DEF Untaken, Here
<1>6. invites'[h] \subseteq invites[h] /\ \A n \in Node : n # h => invites'[n] = invites[n]
  BY <1>4, <1>5 DEF Typed
<1>7. Exclusive(AtFile, addresses)' /\ Exclusive(AtInvites, invites)'
  BY <1>1, <1>2, <1>3, <1>4, <1>6, AddressesQuiet, InvitesWritten DEF Unraced, In, Typed, Running
<1>8. ASSUME NEW n \in Node PROVE Distinct(n)'
  <2>1. NoMore(n)
    BY <1>2, OthersHold DEF NoMore
  <2>2. invites'[n] \subseteq invites[n]
    BY <1>6
  <2>3. QED
    BY <1>1, <2>1, <2>2, ListsAlike, DistinctStays
<1>9. QED
  BY <1>7, <1>8 DEF Unraced

\* A request goes on and its node lists the other one.
LEMMA SeparateAppends ==
  ASSUME Typed, Unraced, \A n \in Node : Distinct(n), NEW j \in Job, Busy(j),
         Moves(j, job[j].addr, job[j].copy), UNCHANGED <<addresses, invites>>,
         Following(j) \notin AtFile \cup AtInvites \cup Holding,
         NEW h \in Node, NEW e \in Entry, Appends(h, e),
         e.addr = Own \/ (Place(j) \in Holding /\ h = job[j].host /\ e.addr = job[j].addr)
  PROVE  Unraced' /\ \A n \in Node : Distinct(n)'
<1>1. /\ Others(j) /\ ~In(j, AtFile)' /\ ~In(j, AtInvites)'
      /\ \A n \in Node : NoMore(n) /\ ~Holds(j, n)'
  BY MovesHold
<1>2. Exclusive(AtFile, addresses)' /\ Exclusive(AtInvites, invites)'
  BY <1>1, AddressesQuiet, InvitesQuiet DEF Unraced
<1>3. ASSUME NEW n \in Node, n # h PROVE Distinct(n)'
  <2>1. listed'[n] = listed[n]
    BY <1>3, AppendLists
  <2>2. Sublist(n)
    BY <2>1, SameSublist
  <2>3. QED
    BY <1>1, <2>2, DistinctStays
<1>4. Distinct(h)'
  <2>1. e.addr = Own \/ (Holds(j, h) /\ e.addr = job[j].addr /\ ~Holds(j, h)')
    BY <1>1 DEF Holds, In
  <2>2. QED
    BY <1>1, <2>1, DistinctAppend
<1>5. QED
  BY <1>2, <1>3, <1>4 DEF Unraced

LEMMA SeparateList ==
  ASSUME Typed, Unraced, \A n \in Node : Distinct(n), NEW j \in Job, List(j)
  PROVE  Unraced' /\ \A n \in Node : Distinct(n)'
<1> DEFINE Hosts == {<<"redeem", 5>>, <<"lan", 10>>, <<"accept", 4>>}
           Lasts == {<<"redeem", 6>>, <<"lan", 11>>, <<"open", 7>>}
<1>1. /\ Busy(j) /\ Running(j) /\ Moves(j, job[j].addr, job[j].copy)
      /\ Here(j) \in Node /\ UNCHANGED <<addresses, invites>>
  BY ListMoves DEF List, files
<1>2. Place(j) \in Hosts \cup Lasts
  BY <1>1, ListMoves, Places
<1>3. Following(j) \notin AtFile \cup AtInvites \cup Holding
  BY <1>2 DEF Place, Following, AtFile, AtInvites, Holding
<1>4. AtHost(j) => Place(j) \in Holding
  <2>1. AtHost(j) => Place(j) \in Hosts
    BY <1>1, <1>2, Places
  <2>2. QED
    BY <2>1 DEF Holding
<1>5. CASE listed' = listed
  BY <1>1, <1>3, <1>5, ListsAlike, SeparateMoves
<1>6. CASE listed' # listed
  <2>1. PICK e \in Entry : Appends(Here(j), e) /\ e.addr = AddressFor(j)
    BY <1>6, ListMoves
  <2>2. PICK h \in Node : h = Here(j)
    BY <1>1
  <2>3. Appends(h, e)
    BY <2>1, <2>2 DEF Appends
  <2>4. e.addr = Own \/ (Place(j) \in Holding /\ h = job[j].host /\ e.addr = job[j].addr)
    BY <1>4, <2>1, <2>2 DEF AddressFor, Here
  <2>5. QED
    BY <1>1, <1>3, <2>3, <2>4, SeparateAppends
<1>7. QED
  BY <1>5, <1>6

LEMMA SeparatePush ==
  ASSUME Typed, Unraced, \A n \in Node : Distinct(n), NEW j \in Job, Push(j)
  PROVE  Unraced' /\ \A n \in Node : Distinct(n)'
<1>1. /\ Busy(j) /\ Running(j) /\ Place(j) = <<"open", 5>> /\ Moves(j, job[j].addr, job[j].copy)
      /\ UNCHANGED <<addresses, invites>>
  BY PushMoves DEF Push, files
<1>2. Following(j) \notin AtFile \cup AtInvites \cup Holding /\ Place(j) \in Holding
  BY <1>1 DEF Place, Following, AtFile, AtInvites, Holding
<1>3. PICK h \in Node : h = job[j].host
  BY <1>1 DEF Running
<1>4. PICK e \in Entry : Appends(h, e) /\ e.addr = job[j].addr
  BY <1>3, PushMoves DEF Appends
<1>5. QED
  BY <1>1, <1>2, <1>3, <1>4, SeparateAppends

\* A request that is at a place where it neither rewrites a file nor holds an address.
LEMMA SeparateAside ==
  ASSUME Typed, Unraced, \A n \in Node : Distinct(n), NEW j \in Job, Others(j),
         UNCHANGED <<addresses, invites>>, Place(j)' \notin AtFile \cup AtInvites \cup Holding,
         \A n \in Node : Sublist(n)
  PROVE  Unraced' /\ \A n \in Node : Distinct(n)'
<1>1. ~In(j, AtFile)' /\ ~In(j, AtInvites)' /\ \A n \in Node : ~Holds(j, n)'
  BY DEF In, Holds
<1>2. \A n \in Node : NoMore(n)
  BY <1>1, OthersHold DEF NoMore
<1>3. QED
  BY <1>1, <1>2, SeparateQuiet

LEMMA SeparateDrop ==
  ASSUME Typed, Unraced, \A n \in Node : Distinct(n), NEW j \in Job, Drop(j)
  PROVE  Unraced' /\ \A n \in Node : Distinct(n)'
<1>1. UNCHANGED <<addresses, invites>> /\ Busy(j) /\ Running(j)
  BY DropMoves DEF Drop, files
<1>2. CASE Ends(j) /\ listed' = listed
  BY <1>1, <1>2, ListsAlike, SeparateEnds
<1>3. CASE /\ Others(j) /\ Place(j)' = <<"forget", 2>>
           /\ \E id : \E rest \in Without(listed[job[j].host], id) :
                listed' = [listed EXCEPT ![job[j].host] = rest]
  <2>1. PICK h \in Node : h = job[j].host
    BY <1>1 DEF Running
  <2>2. PICK id : \E rest \in Without(listed[h], id) : listed' = [listed EXCEPT ![h] = rest]
    BY <1>3, <2>1
  <2>3. PICK rest \in Without(listed[h], id) : listed' = [listed EXCEPT ![h] = rest]
    BY <2>2
  <2>4. listed[h] \in Seq(Entry) /\ listed'[h] = rest
        /\ \A n \in Node : n # h => listed'[n] = listed[n]
    BY <2>3 DEF Typed
  <2>5. Sublist(h)
    <3>1. PICK place \in [1 .. Len(rest) -> 1 .. Len(listed[h])] :
            /\ \A i \in 1 .. Len(rest) : rest[i] = listed[h][place[i]]
            /\ \A i, k \in 1 .. Len(rest) : i # k => place[i] # place[k]
      BY <2>4, WithoutKeeps
    <3>2. QED
      BY <2>4, <3>1 DEF Sublist
  <2>6. ASSUME NEW n \in Node, n # h PROVE Sublist(n)
    BY <2>4, <2>6, SameSublist
  <2>7. Place(j)' \notin AtFile \cup AtInvites \cup Holding
    BY <1>3 DEF AtFile, AtInvites, Holding
  <2>8. QED
    BY <1>1, <1>3, <2>5, <2>6, <2>7, SeparateAside
<1>4. QED
  BY <1>2, <1>3, DropMoves

LEMMA SeparateRestart ==
  ASSUME Typed, Unraced, \A n \in Node : Distinct(n), NEW m \in Node, Restart(m)
  PROVE  Unraced' /\ \A n \in Node : Distinct(n)'
<1>1. /\ \A k \in Job : Busy(k)' => job'[k] = job[k]
      /\ UNCHANGED <<listed, addresses, invites>>
  BY RestartMoves DEF Busy
<1>2. \A k \in Job : \A P : In(k, P)' => In(k, P) /\ job'[k] = job[k]
  BY <1>1 DEF In, Busy, Place
<1>3. Exclusive(AtFile, addresses)' /\ Exclusive(AtInvites, invites)'
  BY <1>1, <1>2 DEF Unraced, Exclusive
<1>4. \A n \in Node : NoMore(n)
  BY <1>2 DEF NoMore, Holds
<1>5. \A n \in Node : Distinct(n)'
  BY <1>1, <1>4, ListsAlike, DistinctStays
<1>6. QED
  BY <1>3, <1>5 DEF Unraced

LEMMA SeparateInit == Init => Separate
<1> SUFFICES ASSUME Init PROVE Unraced /\ \A n \in Node : Distinct(n)
  BY DEF Separate
<1>1. \A j \in Job : ~Busy(j)
  BY DEF Init, Busy, NoRequest
<1>2. Unraced
  BY <1>1 DEF Unraced, Exclusive, In
<1>3. ASSUME NEW n \in Node PROVE Distinct(n)
  <2>1. Len(listed[n]) = 0 /\ invites[n] = {}
    BY EmptySeq DEF Init
  <2>2. Given(n) = {}
    BY <2>1 DEF Given
  <2>3. QED
    BY <1>1, <2>1, <2>2 DEF Distinct, Holds, In
<1>4. QED
  BY <1>2, <1>3

LEMMA SeparateStep == Typed /\ Separate /\ [Next]_vars => Separate'
<1> SUFFICES ASSUME Typed, Separate, [Next]_vars, "raced" \notin trouble'
             PROVE  Unraced' /\ \A n \in Node : Distinct(n)'
  BY DEF Separate
<1> DEFINE Goal == Unraced' /\ \A n \in Node : Distinct(n)'
<1>0. Unraced /\ \A n \in Node : Distinct(n)
  BY TroubleGrows DEF Separate, vars
<1>1. ASSUME NEW j \in Job, ReadAddresses(j) PROVE Goal
  BY <1>0, <1>1, SeparateReadAddresses
<1>2. ASSUME NEW j \in Job, Assign(j) PROVE Goal
  BY <1>0, <1>2, SeparateAssign
<1>3. ASSUME NEW j \in Job, ReadInvites(j) PROVE Goal
  BY <1>0, <1>3, SeparateReadInvites
<1>4. ASSUME NEW j \in Job, Invite(j) PROVE Goal
  BY <1>0, <1>4, SeparateInvite
<1>5. ASSUME NEW j \in Job, Take(j) PROVE Goal
  BY <1>0, <1>5, SeparateTake
<1>6. ASSUME NEW j \in Job, Untaken(j) PROVE Goal
  BY <1>0, <1>6, SeparateUntaken
<1>7. ASSUME NEW j \in Job, AddTunnel(j) PROVE Goal
  <2>1. /\ Busy(j) /\ Running(j) /\ Moves(j, job[j].addr, job[j].copy)
        /\ UNCHANGED <<addresses, invites, listed>>
    BY <1>7, TunnelMoves DEF AddTunnel
  <2>2. Place(j) \in {<<"redeem", 1>>, <<"redeem", 4>>, <<"lan", 6>>, <<"lan", 9>>,
                      <<"accept", 3>>, <<"open", 4>>, <<"open", 6>>}
    BY <1>7, <2>1, TunnelMoves, Places
  <2>3. /\ Following(j) \notin AtFile \cup AtInvites
        /\ Following(j) \in Holding => Place(j) \in Holding
    BY <2>2 DEF Place, Following, AtFile, AtInvites, Holding
  <2>4. QED
    BY <1>0, <2>1, <2>3, ListsAlike, SeparateMoves
<1>8. ASSUME NEW j \in Job, List(j) PROVE Goal
  BY <1>0, <1>8, SeparateList
<1>9. ASSUME NEW j \in Job, Race(j) PROVE Goal
  <2>1. /\ Busy(j) /\ Place(j) = <<"lan", 5>> /\ UNCHANGED <<addresses, invites, listed>>
        /\ Ends(j) \/ Moves(j, job[j].addr, job[j].copy)
    BY <1>9, RaceMoves DEF Race
  <2>2. Following(j) \notin AtFile \cup AtInvites \cup Holding
    BY <2>1 DEF Place, Following, AtFile, AtInvites, Holding
  <2>3. QED
    BY <1>0, <2>1, <2>2, ListsAlike, SeparateMoves, SeparateEnds
<1>10. ASSUME NEW j \in Job, Admit(j) PROVE Goal
  <2>1. /\ Busy(j) /\ Place(j) = <<"open", 1>> /\ UNCHANGED <<addresses, invites, listed>>
        /\ Ends(j) \/ Moves(j, job[j].addr, job[j].copy)
    BY <1>10, AdmitMoves DEF Admit, files
  <2>2. Following(j) \notin AtFile \cup AtInvites \cup Holding
    BY <2>1 DEF Place, Following, AtFile, AtInvites, Holding
  <2>3. QED
    BY <1>0, <2>1, <2>2, ListsAlike, SeparateMoves, SeparateEnds
<1>11. ASSUME NEW j \in Job, Push(j) PROVE Goal
  BY <1>0, <1>11, SeparatePush
<1>12. ASSUME NEW j \in Job, Drop(j) PROVE Goal
  BY <1>0, <1>12, SeparateDrop
<1>13. ASSUME NEW j \in Job, Close(j) \/ Abandon(j) PROVE Goal
  <2>1. Ends(j) /\ UNCHANGED <<addresses, invites, listed>>
    BY <1>13, CloseMoves, AbandonEnds DEF Close, Abandon, files
  <2>2. QED
    BY <1>0, <2>1, ListsAlike, SeparateEnds
<1>14. ASSUME NEW j \in Job, Ask(j) \/ Use(j) PROVE Goal
  <2>1. Others(j) /\ job'[j].at = 1 /\ UNCHANGED <<addresses, invites, listed>>
    BY <1>14, AskStarts DEF Starts
  <2>2. Place(j)' \notin AtFile \cup AtInvites \cup Holding
    BY <2>1 DEF Place, AtFile, AtInvites, Holding
  <2>3. QED
    BY <1>0, <2>1, <2>2, ListsAlike, SeparateAside
<1>15. ASSUME NEW j \in Job, Administer(j) PROVE Goal
  <2>1. Ends(j) /\ UNCHANGED <<addresses, invites>>
    BY <1>15, AdministerEnds
  <2>2. \A n \in Node : Sublist(n)
    <3>1. CASE listed' = listed
      BY <3>1, ListsAlike
    <3>2. CASE listed' # listed
      BY <1>15, <3>2, AdministerEnds, TrustKeeps, SameSublist
    <3>3. QED
      BY <3>1, <3>2
  <2>3. QED
    BY <1>0, <2>1, <2>2, SeparateEnds
<1>16. ASSUME NEW n \in Node, Restart(n) PROVE Goal
  BY <1>0, <1>16, SeparateRestart
<1>17. CASE UNCHANGED vars
  <2>1. UNCHANGED <<listed, addresses, invites, job>>
    BY <1>17 DEF vars, files
  <2>2. Unraced'
    BY <1>0, <2>1 DEF Unraced, Exclusive, In, Busy, Place
  <2>3. \A n \in Node : NoMore(n)
    BY <2>1 DEF NoMore, Holds, In, Busy, Place
  <2>4. QED
    BY <1>0, <2>1, <2>2, <2>3, ListsAlike, DistinctStays
<1>18. QED
  BY <1>1, <1>2, <1>3, <1>4, <1>5, <1>6, <1>7, <1>8, <1>9, <1>10, <1>11, <1>12, <1>13, <1>14,
     <1>15, <1>16, <1>17 DEF Next, Step

\* As long as no two requests of a node read and rewrite addresses.json or
\* pending_invites.json at once, the addresses it has given to listed peers and to
\* pending invites are all different (assign_next_address, consume_by_psk).
THEOREM AddressesStayDistinct == Spec => []AddressesDistinct
<1>1. Init => Typed /\ Separate
  BY TypedInit, SeparateInit
<1>2. Typed /\ Separate /\ [Next]_vars => Typed' /\ Separate'
  BY TypedStep, SeparateStep
<1>3. Typed /\ Separate => AddressesDistinct
  <2>1. ASSUME Typed, NEW n \in Node PROVE Own \notin Given(n)
    <3>1. \A i \in invites[n] : i.addr \in Subnet
      BY <2>1 DEF Typed, Pending
    <3>2. QED
      BY <3>1 DEF Given, Own, Subnet
  <2>2. QED
    BY <2>1 DEF Separate, Distinct, AddressesDistinct
<1>4. QED
  BY <1>1, <1>2, <1>3, PTL DEF Spec

--------------------------------------------------------------------------------
(* No invite is used twice.                                                    *)

\* A request that has yet to save its invite, and one that has taken an invite.
Inviting == {<<"invite", 1>>, <<"invite", 2>>, <<"invite", 3>>, <<"invite", 4>>,
             <<"lan", 1>>, <<"lan", 2>>, <<"lan", 3>>, <<"lan", 4>>}
Taken == {<<"redeem", 4>>, <<"lan", 9>>, <<"accept", 3>>}

\* The pre-shared keys on a node's interface, or that a restart puts there.
Keys(n) == {tunnel[n][m].psk : m \in Node} \cup {f.psk : f \in saved[n]}

Used(p, n) ==
  \/ p \in Keys(n)
  \/ \E j \in Job : In(j, Taken) /\ job[j].psk = p /\ job[j].host = n

\* No invite has this key, or will have it.
Clean(p) ==
  /\ \A n \in Node : \A i \in invites[n] : i.psk # p
  /\ ~In(p, Inviting)

Fresh(p) ==
  /\ \A n \in Node : p \notin Keys(n) /\ \A i \in invites[n] : i.psk # p
  /\ \A c \in codes : c.psk # p
  /\ \A j \in Job : Busy(j) /\ job[j].kind # "forget" => job[j].psk # p

\* Every pre-shared key has one owner, the node that made it, and bears the name of
\* the request that made it; the owner has no invite with a key it has used.
Named(owner) ==
  /\ \A n \in Node : \A i \in invites[n] : owner[i.psk] = n
  /\ \A c \in codes : owner[c.psk] = c.host
  /\ \A j \in Job : Busy(j) =>
       /\ job[j].kind # "forget" => owner[job[j].psk] = job[j].host
       /\ job[j].kind \in {"invite", "lan", "open"} => job[j].psk = j
       /\ job[j].kind \in {"redeem", "accept"} => \E c \in codes : c.psk = job[j].psk
       /\ job[j].kind = "open" => \A n \in Node : \A i \in invites[n] : i.psk # j
  /\ \A j \in Job : In(j, Inviting) => \A c \in codes : c.psk # j
  /\ \A j \in Job : job[j] = NoRequest("none") => Fresh(j)
  /\ \A p \in Job, n \in Node : owner[p] = n /\ Used(p, n) => Clean(p)

Owners == [Job -> Node \cup {0}]

Once == "raced" \notin trouble => \E owner \in Owners : Named(owner)

\* The requests go on or end, and none makes an invite.
LEMMA NamedStays ==
  ASSUME NEW owner, Named(owner), codes' = codes,
         \A n \in Node : invites'[n] \subseteq invites[n],
         \A k \in Job : Busy(k)' => /\ Busy(k) /\ job'[k].kind = job[k].kind
                                    /\ job'[k].host = job[k].host /\ job'[k].psk = job[k].psk
                                    /\ In(k, Inviting)' => In(k, Inviting),
         \A k \in Job : job'[k] = NoRequest("none") => job[k] = NoRequest("none"),
         \A q \in Job, n \in Node : q \in Keys(n)' =>
           \/ q \in Keys(n)
           \/ \E k \in Job : Busy(k) /\ job[k].kind # "forget" /\ job[k].psk = q,
         \A q \in Job, n \in Node : owner[q] = n /\ Used(q, n)' => Used(q, n) \/ Clean(q)'
  PROVE  Named(owner)'
<1>1. \A n \in Node : \A i \in invites'[n] : owner[i.psk] = n
  BY DEF Named
<1>2. \A c \in codes' : owner[c.psk] = c.host
  BY DEF Named
<1>3. ASSUME NEW k \in Job, Busy(k)'
      PROVE  /\ job'[k].kind # "forget" => owner[job'[k].psk] = job'[k].host
             /\ job'[k].kind \in {"invite", "lan", "open"} => job'[k].psk = k
             /\ job'[k].kind \in {"redeem", "accept"} => \E c \in codes' : c.psk = job'[k].psk
             /\ job'[k].kind = "open" => \A n \in Node : \A i \in invites'[n] : i.psk # k
  BY <1>3 DEF Named
<1>4. ASSUME NEW k \in Job, In(k, Inviting)' PROVE \A c \in codes' : c.psk # k
  BY <1>4 DEF Named, In
<1>5. ASSUME NEW q \in Job, job'[q] = NoRequest("none") PROVE Fresh(q)'
  <2>1. Fresh(q)
    BY <1>5 DEF Named
  <2>2. \A n \in Node : q \notin Keys(n)' /\ \A i \in invites'[n] : i.psk # q
    BY <2>1 DEF Fresh
  <2>3. \A c \in codes' : c.psk # q
    BY <2>1 DEF Fresh
  <2>4. \A k \in Job : Busy(k)' /\ job'[k].kind # "forget" => job'[k].psk # q
    BY <2>1 DEF Fresh
  <2>5. QED
    BY <2>2, <2>3, <2>4 DEF Fresh
<1>6. ASSUME NEW q \in Job, NEW n \in Node, owner[q] = n, Used(q, n)' PROVE Clean(q)'
  <2>1. CASE Used(q, n)
    BY <1>6, <2>1 DEF Named, Clean, In
  <2>2. QED
    BY <1>6, <2>1
<1>7. QED
  BY <1>1, <1>2, <1>3, <1>4, <1>5, <1>6 DEF Named

\* It takes no invite either, and the interfaces get no key.
LEMMA NamedQuiet ==
  ASSUME NEW owner, Named(owner), codes' = codes,
         \A n \in Node : invites'[n] \subseteq invites[n],
         \A k \in Job : Busy(k)' => /\ Busy(k) /\ job'[k].kind = job[k].kind
                                    /\ job'[k].host = job[k].host /\ job'[k].psk = job[k].psk
                                    /\ In(k, Inviting)' => In(k, Inviting)
                                    /\ In(k, Taken)' => In(k, Taken),
         \A k \in Job : job'[k] = NoRequest("none") => job[k] = NoRequest("none"),
         \A q \in Job, n \in Node : q \in Keys(n)' => q \in Keys(n)
  PROVE  Named(owner)'
<1>1. \A q \in Job, n \in Node : Used(q, n)' => Used(q, n)
  BY DEF Used, In
<1>2. QED
  BY <1>1, NamedStays

LEMMA SameKeys ==
  ASSUME UNCHANGED <<tunnel, saved>>
  PROVE  \A n \in Node : Keys(n)' = Keys(n)
BY DEF Keys

\* What NamedQuiet asks of the requests.
LEMMA MovedName ==
  ASSUME Typed, NEW j \in Job, Busy(j), NEW a, NEW c, Moves(j, a, c),
         Following(j) \in Inviting => Place(j) \in Inviting
  PROVE  /\ \A k \in Job : Busy(k)' => /\ Busy(k) /\ job'[k].kind = job[k].kind
                                       /\ job'[k].host = job[k].host /\ job'[k].psk = job[k].psk
                                       /\ In(k, Inviting)' => In(k, Inviting)
         /\ \A k \in Job : job'[k] = NoRequest("none") => job[k] = NoRequest("none")
         /\ \A k \in Job : k # j => (In(k, Taken)' <=> In(k, Taken))
         /\ In(j, Taken)' => Following(j) \in Taken
<1>1. \A k \in Job : k # j => /\ job'[k] = job[k] /\ (In(k, Taken)' <=> In(k, Taken))
                              /\ (In(k, Inviting)' <=> In(k, Inviting)) /\ (Busy(k)' <=> Busy(k))
  BY DEF Moves, Others, In, Busy, Place
<1>2. CASE job[j].at = Len(Program[job[j].kind])
  <2>1. ~Busy(j)' /\ job'[j] # NoRequest("none")
    BY <1>2 DEF Moves, Busy, NoRequest
  <2>2. QED
    BY <1>1, <2>1 DEF In
<1>3. CASE job[j].at # Len(Program[job[j].kind])
  <2>1. /\ job'[j].kind = job[j].kind /\ job'[j].host = job[j].host /\ job'[j].psk = job[j].psk
        /\ Place(j)' = Following(j) /\ job'[j].at # 0
    BY <1>3, MovedFields DEF Place, Following, Typed, Handling
  <2>2. job'[j] # NoRequest("none")
    BY <2>1 DEF NoRequest
  <2>3. QED
    BY <1>1, <2>1, <2>2 DEF In
<1>4. QED
  BY <1>2, <1>3

LEMMA EndedName ==
  ASSUME NEW j \in Job, Ends(j)
  PROVE  /\ \A k \in Job : Busy(k)' => /\ Busy(k) /\ job'[k].kind = job[k].kind
                                       /\ job'[k].host = job[k].host /\ job'[k].psk = job[k].psk
                                       /\ In(k, Inviting)' => In(k, Inviting)
                                       /\ In(k, Taken)' => In(k, Taken)
         /\ \A k \in Job : job'[k] = NoRequest("none") => job[k] = NoRequest("none")
<1>1. \A k \in Job : k # j => job'[k] = job[k]
  BY DEF Ends, Others
<1>2. ~Busy(j)' /\ job'[j] # NoRequest("none")
  BY DEF Ends, Busy, NoRequest
<1>3. QED
  BY <1>1, <1>2 DEF In, Busy, Place

LEMMA NamedTake ==
  ASSUME Typed, Unraced, NEW owner, Named(owner), NEW j \in Job, Take(j)
  PROVE  Named(owner)'
<1>1. /\ Busy(j) /\ Running(j) /\ Place(j) \in {<<"redeem", 3>>, <<"lan", 8>>, <<"accept", 2>>}
      /\ invites' = [invites EXCEPT ![job[j].host] = job[j].copy \ Invited(j)]
      /\ UNCHANGED <<codes, tunnel, saved>>
  BY TakeMoves DEF Take
<1>2. PICK i \in Invited(j) : Moves(j, i.addr, {})
  BY TakeMoves
<1>3. Following(j) \notin Inviting /\ Place(j) \in AtInvites
  BY <1>1 DEF Place, Following, Inviting, AtInvites
<1>4. PICK h \in Node, p \in Job : h = job[j].host /\ p = job[j].psk
  <2>1. job[j].kind # "forget"
    BY <1>1 DEF Place
  <2>2. QED
    BY <1>1, <2>1 DEF Running
<1>5. invites[h] = job[j].copy
  BY <1>1, <1>3, <1>4 DEF In, Unraced, Exclusive
<1>6. invites'[h] = {x \in invites[h] : x.psk # p} /\ \A n \in Node : n # h => invites'[n] = invites[n]
  BY <1>1, <1>4, <1>5 DEF Typed, Invited
<1>7. \A n \in Node : Keys(n)' = Keys(n)
  BY <1>1, SameKeys
<1>8. /\ \A k \in Job : Busy(k)' => /\ Busy(k) /\ job'[k].kind = job[k].kind
                                    /\ job'[k].host = job[k].host /\ job'[k].psk = job[k].psk
                                    /\ In(k, Inviting)' => In(k, Inviting)
      /\ \A k \in Job : job'[k] = NoRequest("none") => job[k] = NoRequest("none")
      /\ \A k \in Job : k # j => (In(k, Taken)' <=> In(k, Taken))
  BY <1>1, <1>2, <1>3, MovedName
<1>9. Clean(p)'
  <2>1. owner[p] = h
    BY <1>1, <1>4 DEF Named, Place
  <2>2. \A n \in Node : \A x \in invites'[n] : x.psk # p
    BY <1>6, <2>1 DEF Named
  <2>3. ~In(p, Inviting)
    <3>1. CASE job[j].kind = "lan"
      <4>1. p = j /\ Place(j) \notin Inviting
        BY <1>1, <1>4, <3>1 DEF Named, Inviting
      <4>2. QED
        BY <4>1 DEF In
    <3>2. CASE job[j].kind # "lan"
      <4>1. job[j].kind \in {"redeem", "accept"}
        BY <1>1, <3>2 DEF Place
      <4>2. QED
        BY <1>1, <1>4, <4>1 DEF Named
    <3>3. QED
      BY <3>1, <3>2
  <2>4. QED
    BY <1>8, <2>2, <2>3 DEF Clean, In
<1>10. \A q \in Job, n \in Node : owner[q] = n /\ Used(q, n)' => Used(q, n) \/ Clean(q)'
  <2>1. SUFFICES ASSUME NEW q \in Job, NEW n \in Node, Used(q, n)' PROVE Used(q, n) \/ Clean(q)'
    OBVIOUS
  <2>2. CASE q \in Keys(n)'
    BY <1>7, <2>2 DEF Used
  <2>3. CASE \E k \in Job : In(k, Taken)' /\ job'[k].psk = q /\ job'[k].host = n
    <3>1. PICK k \in Job : In(k, Taken)' /\ job'[k].psk = q /\ job'[k].host = n
      BY <2>3
    <3>2. job[k].psk = q /\ job[k].host = n
      BY <1>8, <3>1 DEF In
    <3>3. CASE k = j
      BY <1>4, <1>9, <3>2, <3>3
    <3>4. CASE k # j
      BY <1>8, <3>1, <3>2, <3>4 DEF Used
    <3>5. QED
      BY <3>3, <3>4
  <2>4. QED
    BY <2>1, <2>2, <2>3 DEF Used
<1>11. \A n \in Node : invites'[n] \subseteq invites[n]
  BY <1>6
<1>12. QED
  BY <1>1, <1>7, <1>8, <1>10, <1>11, NamedStays

LEMMA NamedTunnel ==
  ASSUME Typed, NEW owner, Named(owner), NEW j \in Job, AddTunnel(j)
  PROVE  Named(owner)'
<1>1. /\ Busy(j) /\ Running(j) /\ Moves(j, job[j].addr, job[j].copy)
      /\ UNCHANGED <<codes, invites>>
  BY TunnelMoves DEF AddTunnel
<1>2. Place(j) \in {<<"redeem", 1>>, <<"redeem", 4>>, <<"lan", 6>>, <<"lan", 9>>, <<"accept", 3>>,
                    <<"open", 4>>, <<"open", 6>>}
  BY <1>1, TunnelMoves, Places
<1>3. Following(j) \notin Inviting \cup Taken /\ job[j].kind # "forget"
  BY <1>2 DEF Place, Following, Inviting, Taken
<1>4. /\ \A k \in Job : Busy(k)' => /\ Busy(k) /\ job'[k].kind = job[k].kind
                                    /\ job'[k].host = job[k].host /\ job'[k].psk = job[k].psk
                                    /\ In(k, Inviting)' => In(k, Inviting)
      /\ \A k \in Job : job'[k] = NoRequest("none") => job[k] = NoRequest("none")
      /\ \A k \in Job : In(k, Taken)' => In(k, Taken)
  BY <1>1, <1>3, MovedName
<1>5. PICK p \in Job : p = job[j].psk
  BY TunnelMoves
<1>6. ASSUME NEW n \in Node, NEW q \in Job, q \in Keys(n)', q \notin Keys(n)
      PROVE  n = Here(j) /\ q = p
  <2>1. \A m \in Node : (tunnel'[n][m].psk = p /\ n = Here(j)) \/ tunnel'[n][m].psk = tunnel[n][m].psk
    BY <1>5, TunnelMoves
  <2>2. \A f \in saved'[n] : f \in saved[n] \/ (n = Here(j) /\ f.psk = p)
    BY <1>5, TunnelMoves
  <2>3. QED
    BY <1>6, <2>1, <2>2 DEF Keys
<1>7. ASSUME AtHost(j) PROVE Used(p, job[j].host) \/ Clean(p)'
  <2>1. Place(j) \in {<<"redeem", 4>>, <<"lan", 9>>, <<"accept", 3>>, <<"open", 4>>}
    BY <1>1, <1>2, <1>7, Places
  <2>2. CASE Place(j) = <<"open", 4>>
    <3>1. p = j /\ \A n \in Node : \A i \in invites[n] : i.psk # j
      BY <1>1, <1>5, <2>2 DEF Named, Place
    <3>2. Place(j) \notin Inviting
      BY <2>2 DEF Inviting
    <3>3. QED
      BY <1>1, <1>4, <3>1, <3>2 DEF Clean, In
  <2>3. CASE Place(j) \in Taken
    BY <1>1, <1>5, <2>3 DEF Used, In
  <2>4. QED
    BY <2>1, <2>2, <2>3 DEF Taken
<1>8. owner[p] = job[j].host /\ job[j].host # job[j].guest
  BY <1>1, <1>3, <1>5 DEF Named, Running
<1>9. ASSUME NEW q \in Job, NEW n \in Node, owner[q] = n, Used(q, n)'
      PROVE  Used(q, n) \/ Clean(q)'
  <2>1. CASE q \in Keys(n)' /\ q \notin Keys(n)
    <3>1. n = Here(j) /\ q = p
      BY <1>6, <2>1
    <3>2. AtHost(j) /\ n = job[j].host
      BY <1>8, <1>9, <3>1 DEF Here
    <3>3. QED
      BY <1>7, <3>1, <3>2
  <2>2. CASE q \in Keys(n)
    BY <2>2 DEF Used
  <2>3. CASE \E k \in Job : In(k, Taken)' /\ job'[k].psk = q /\ job'[k].host = n
    BY <1>4, <2>3 DEF Used, In
  <2>4. QED
    BY <1>9, <2>1, <2>2, <2>3 DEF Used
<1>10. \A q \in Job, n \in Node : q \in Keys(n)' =>
         q \in Keys(n) \/ \E k \in Job : Busy(k) /\ job[k].kind # "forget" /\ job[k].psk = q
  BY <1>1, <1>3, <1>5, <1>6
<1>11. QED
  BY <1>1, <1>4, <1>9, <1>10, NamedStays

LEMMA NamedInvite ==
  ASSUME Typed, Unraced, NEW owner, Named(owner), NEW j \in Job, Invite(j)
  PROVE  Named(owner)'
<1> DEFINE i == [psk |-> job[j].psk, addr |-> job[j].addr]
<1>1. /\ Busy(j) /\ Running(j) /\ Place(j) \in {<<"invite", 4>>, <<"lan", 4>>}
      /\ Moves(j, job[j].addr, {}) /\ i.psk = job[j].psk
      /\ invites' = [invites EXCEPT ![job[j].host] = job[j].copy \cup {i}]
      /\ UNCHANGED <<tunnel, saved>>
  BY InviteMoves DEF Invite
<1> HIDE DEF i
<1>2. PICK h \in Node : h = job[j].host
  BY <1>1 DEF Running
<1>3. Place(j) \in AtInvites /\ Place(j) \in Inviting /\ Following(j) \notin Inviting \cup Taken
      /\ job[j].kind \in {"invite", "lan"}
  BY <1>1 DEF AtInvites, Inviting, Taken, Place, Following
<1>4. i.psk = j /\ owner[j] = h
  BY <1>1, <1>2, <1>3 DEF Named
<1>5. invites[h] = job[j].copy /\ In(j, Inviting)
  BY <1>1, <1>2, <1>3 DEF In, Unraced, Exclusive
<1>6. invites'[h] = invites[h] \cup {i} /\ \A n \in Node : n # h => invites'[n] = invites[n]
  BY <1>1, <1>2, <1>5 DEF Typed
<1>7. /\ codes \subseteq codes'
      /\ \A c \in codes' : c \in codes \/ (c.psk = j /\ c.host = h /\ job[j].kind = "invite")
  <2>1. codes' = IF job[j].kind = "lan" THEN codes ELSE codes \cup {[psk |-> j, host |-> h]}
    BY <1>1, <1>2, <1>4, InviteMoves
  <2>2. QED
    BY <1>3, <2>1
<1>8. /\ \A k \in Job : Busy(k)' => /\ Busy(k) /\ job'[k].kind = job[k].kind
                                    /\ job'[k].host = job[k].host /\ job'[k].psk = job[k].psk
                                    /\ In(k, Inviting)' => In(k, Inviting)
      /\ \A k \in Job : job'[k] = NoRequest("none") => job[k] = NoRequest("none")
      /\ \A k \in Job : In(k, Taken)' => In(k, Taken)
      /\ ~In(j, Inviting)'
  BY <1>1, <1>3, MovedName, MovesHold
<1>9. \A n \in Node : Keys(n)' = Keys(n)
  BY <1>1, SameKeys
<1>10. \A n \in Node : \A x \in invites'[n] : x \in invites[n] \/ (x = i /\ n = h)
  BY <1>6
<1>11. \A n \in Node : \A x \in invites'[n] : owner[x.psk] = n
  BY <1>4, <1>10 DEF Named
<1>12. \A c \in codes' : owner[c.psk] = c.host
  BY <1>4, <1>7 DEF Named
<1>13. ASSUME NEW k \in Job, Busy(k)'
       PROVE  /\ job'[k].kind # "forget" => owner[job'[k].psk] = job'[k].host
              /\ job'[k].kind \in {"invite", "lan", "open"} => job'[k].psk = k
              /\ job'[k].kind \in {"redeem", "accept"} => \E c \in codes' : c.psk = job'[k].psk
              /\ job'[k].kind = "open" => \A n \in Node : \A x \in invites'[n] : x.psk # k
  <2>1. Busy(k) /\ job'[k].kind = job[k].kind /\ job'[k].host = job[k].host /\ job'[k].psk = job[k].psk
    BY <1>8, <1>13
  <2>2. job[k].kind = "open" => k # j
    BY <1>3
  <2>3. job[k].kind = "open" => \A n \in Node : \A x \in invites'[n] : x.psk # k
    BY <1>4, <1>10, <2>1, <2>2 DEF Named
  <2>4. job[k].kind \in {"redeem", "accept"} => \E c \in codes' : c.psk = job[k].psk
    BY <1>7, <2>1 DEF Named
  <2>5. QED
    BY <2>1, <2>3, <2>4 DEF Named
<1>14. ASSUME NEW k \in Job, In(k, Inviting)' PROVE \A c \in codes' : c.psk # k
  BY <1>7, <1>8, <1>14 DEF Named, In
<1>15. ASSUME NEW q \in Job, job'[q] = NoRequest("none") PROVE Fresh(q)'
  <2>0. job[q] = NoRequest("none") /\ NoRequest("none").at = 0
    BY <1>8, <1>15 DEF NoRequest
  <2>1. Fresh(q) /\ q # j
    BY <1>1, <2>0 DEF Named, Busy
  <2>2. \A n \in Node : q \notin Keys(n)' /\ \A x \in invites'[n] : x.psk # q
    BY <1>4, <1>9, <1>10, <2>1 DEF Fresh
  <2>3. \A c \in codes' : c.psk # q
    BY <1>7, <2>1 DEF Fresh
  <2>4. \A k \in Job : Busy(k)' /\ job'[k].kind # "forget" => job'[k].psk # q
    BY <1>8, <2>1 DEF Fresh
  <2>5. QED
    BY <2>2, <2>3, <2>4 DEF Fresh
<1>16. ASSUME NEW q \in Job, NEW n \in Node, owner[q] = n, Used(q, n)' PROVE Clean(q)'
  <2>1. Used(q, n)
    BY <1>8, <1>9, <1>16 DEF Used, In
  <2>2. Clean(q) /\ q # j
    BY <1>5, <1>16, <2>1 DEF Named, Clean
  <2>3. QED
    BY <1>4, <1>8, <1>10, <2>2 DEF Clean, In
<1>17. QED
  BY <1>11, <1>12, <1>13, <1>14, <1>15, <1>16 DEF Named

\* A request starts, of a new invite or with a code.
LEMMA NamedStart ==
  ASSUME Typed, NEW owner \in Owners, Named(owner), NEW j \in Job, Ask(j) \/ Use(j)
  PROVE  \E after \in Owners : Named(after)'
<1>1. Starts(j) /\ UNCHANGED <<tunnel, saved, invites, codes>>
  BY AskStarts
<1>2. PICK h \in Node : h = job'[j].host
  BY <1>1 DEF Starts
<1> DEFINE p == job'[j].psk
<1>3. /\ job[j] = NoRequest("none") /\ job'[j].at = 1
      /\ job'[j].kind \in {"invite", "lan", "open"} => p = j
      /\ job'[j].kind \in {"redeem", "accept"} => \E c \in codes : p = c.psk /\ h = c.host
      /\ job'[j].kind \in {"invite", "lan", "open", "redeem", "accept", "forget"}
      /\ \A k \in Job : k # j => job'[k] = job[k]
  BY <1>1, <1>2 DEF Starts, Others
<1>4. Fresh(j) /\ ~Busy(j) /\ Busy(j)' /\ job'[j] # NoRequest("none")
  <2>1. NoRequest("none").at = 0
    BY DEF NoRequest
  <2>2. Fresh(j)
    BY <1>3 DEF Named
  <2>3. QED
    BY <1>3, <2>1, <2>2 DEF Busy
<1>5. \A n \in Node : Keys(n)' = Keys(n)
  BY <1>1, SameKeys
<1>6. \A k \in Job : k # j => /\ Busy(k)' <=> Busy(k)
                              /\ \A P : In(k, P)' <=> In(k, P)
  BY <1>3 DEF Busy, In, Place
<1>7. ~In(j, Taken)' /\ ~In(j, Taken)
  BY <1>3, <1>4 DEF In, Place, Taken
<1>8. \A q \in Job, n \in Node : Used(q, n)' <=> Used(q, n)
  BY <1>3, <1>5, <1>6, <1>7 DEF Used
<1>9. \A n \in Node : ~Used(j, n)
  <2>1. \A k \in Job : In(k, Taken) => Busy(k) /\ job[k].kind # "forget"
    BY DEF In, Taken, Place
  <2>2. QED
    BY <1>4, <2>1 DEF Used, Fresh
<1> DEFINE own == job'[j].kind \in {"invite", "lan", "open"}
<1>10. PICK after \in Owners : /\ \A q \in Job : q # j => after[q] = owner[q]
                               /\ own => after[j] = h
                               /\ ~own => after = owner
  <2>1. CASE own
    <3>1. [owner EXCEPT ![j] = h] \in Owners /\ [owner EXCEPT ![j] = h][j] = h
          /\ \A q \in Job : q # j => [owner EXCEPT ![j] = h][q] = owner[q]
      BY DEF Owners
    <3>2. QED
      BY <2>1, <3>1
  <2>2. CASE ~own
    BY <2>2
  <2>3. QED
    BY <2>1, <2>2
<1>11. \A n \in Node : \A i \in invites'[n] : i.psk \in Job /\ i.psk # j /\ after[i.psk] = n
  <2>1. \A n \in Node : \A i \in invites[n] : i.psk \in Job /\ i.psk # j /\ owner[i.psk] = n
    BY <1>4 DEF Fresh, Named, Typed, Pending
  <2>2. QED
    BY <1>1, <1>10, <2>1
<1>12. \A c \in codes' : c.psk \in Job /\ c.psk # j /\ after[c.psk] = c.host
  <2>1. \A c \in codes : c.psk \in Job /\ c.psk # j /\ owner[c.psk] = c.host
    BY <1>4 DEF Fresh, Named, Typed
  <2>2. QED
    BY <1>1, <1>10, <2>1
<1>13. ASSUME NEW k \in Job, Busy(k)'
       PROVE  /\ job'[k].kind # "forget" => after[job'[k].psk] = job'[k].host
              /\ job'[k].kind \in {"invite", "lan", "open"} => job'[k].psk = k
              /\ job'[k].kind \in {"redeem", "accept"} => \E c \in codes' : c.psk = job'[k].psk
              /\ job'[k].kind = "open" => \A n \in Node : \A x \in invites'[n] : x.psk # k
  <2>1. CASE k = j
    <3>1. job'[j].kind # "forget" => after[p] = h
      BY <1>1, <1>3, <1>10, <1>12
    <3>2. QED
      BY <1>1, <1>2, <1>3, <1>11, <2>1, <3>1
  <2>2. CASE k # j
    <3>1. job'[k] = job[k] /\ Busy(k)
      BY <1>3, <1>6, <1>13, <2>2
    <3>2. job[k].kind # "forget" => job[k].psk \in Job /\ job[k].psk # j
      BY <1>4, <3>1 DEF Fresh, Typed, Running
    <3>3. job[k].kind # "forget" => after[job[k].psk] = job[k].host
      BY <1>10, <3>1, <3>2 DEF Named
    <3>4. QED
      BY <1>1, <3>1, <3>3 DEF Named
  <2>3. QED
    BY <2>1, <2>2
<1>14. ASSUME NEW k \in Job, In(k, Inviting)' PROVE \A c \in codes' : c.psk # k
  BY <1>1, <1>6, <1>12, <1>14 DEF Named
<1>15. ASSUME NEW q \in Job, job'[q] = NoRequest("none") PROVE Fresh(q)'
  <2>1. q # j /\ job[q] = NoRequest("none")
    BY <1>3, <1>4, <1>15
  <2>2. Fresh(q)
    BY <2>1 DEF Named
  <2>3. p # q \/ job'[j].kind = "forget"
    BY <1>3, <2>1, <2>2 DEF Fresh
  <2>4. \A k \in Job : Busy(k)' /\ job'[k].kind # "forget" => job'[k].psk # q
    BY <1>2, <1>3, <1>6, <2>2, <2>3 DEF Fresh
  <2>5. QED
    BY <1>1, <1>5, <2>2, <2>4 DEF Fresh
<1>16. ASSUME NEW q \in Job, NEW n \in Node, after[q] = n, Used(q, n)' PROVE Clean(q)'
  <2>1. q # j /\ Used(q, n)
    BY <1>8, <1>9, <1>16
  <2>2. Clean(q)
    BY <1>10, <1>16, <2>1 DEF Named
  <2>3. QED
    BY <1>1, <1>6, <2>1, <2>2 DEF Clean
<1>17. Named(after)'
  <2>1. \A n \in Node : \A i \in invites'[n] : after[i.psk] = n
    BY <1>11
  <2>2. \A c \in codes' : after[c.psk] = c.host
    BY <1>12
  <2>3. QED
    BY <1>13, <1>14, <1>15, <1>16, <2>1, <2>2 DEF Named
<1>18. QED
  BY <1>10, <1>17

LEMMA NamedRestart ==
  ASSUME Typed, NEW owner, Named(owner), NEW n \in Node, Restart(n)
  PROVE  Named(owner)'
<1>1. /\ \A k \in Job : job'[k] = job[k] \/ (job'[k].at = 0 /\ job'[k].kind = "done")
      /\ UNCHANGED <<codes, invites>>
  BY RestartMoves
<1>2. \A k \in Job : job'[k] = NoRequest("none") => job[k] = NoRequest("none")
  BY <1>1 DEF NoRequest
<1>3. \A k \in Job : Busy(k)' => job'[k] = job[k]
  BY <1>1 DEF Busy
<1>4. ASSUME NEW q \in Job, NEW m \in Node, q \in Keys(m)' PROVE q \in Keys(m)
  <2>1. saved' = saved
    BY RestartMoves
  <2>2. CASE q \in {f.psk : f \in saved'[m]}
    BY <2>1, <2>2 DEF Keys
  <2>3. CASE q \in {tunnel'[m][k].psk : k \in Node}
    <3>1. PICK k \in Node : q = tunnel'[m][k].psk
      BY <2>3
    <3>2. CASE m = n
      <4>1. q # NoJob
        BY ConstantsAssumption
      <4>2. \E f \in saved[n] : f.psk = q
        BY <3>1, <3>2, <4>1, RestartMoves
      <4>3. QED
        BY <3>2, <4>2 DEF Keys
    <3>3. CASE m # n
      <4>1. tunnel'[m] = tunnel[m]
        BY <3>3, RestartMoves
      <4>2. QED
        BY <3>1, <4>1 DEF Keys
    <3>4. QED
      BY <3>2, <3>3
  <2>4. QED
    BY <1>4, <2>2, <2>3 DEF Keys
<1>5. QED
  BY <1>1, <1>2, <1>3, <1>4, NamedQuiet DEF In, Busy, Place

LEMMA NamedUntaken ==
  ASSUME Typed, Unraced, NEW owner, Named(owner), NEW j \in Job, Untaken(j)
  PROVE  Named(owner)'
<1>1. /\ Busy(j) /\ Running(j) /\ AtHost(j)
      /\ Place(j) \in {<<"redeem", 3>>, <<"lan", 8>>, <<"accept", 2>>}
      /\ UNCHANGED <<codes, tunnel, saved>>
  BY UntakenMoves DEF Untaken
<1>2. PICK h \in Node : h = job[j].host
  BY <1>1 DEF Running
<1>3. In(j, AtInvites) /\ invites[h] = job[j].copy
  <2>1. Place(j) \in AtInvites
    BY <1>1 DEF AtInvites
  <2>2. QED
    BY <1>1, <1>2, <2>1 DEF In, Unraced, Exclusive
<1>4. invites' = [invites EXCEPT ![h] = IF Invited(j) = {} THEN invites[h] ELSE job[j].copy \ Invited(j)]
  BY <1>1, <1>2 DEF Untaken, Here
<1>5. \A n \in Node : invites'[n] \subseteq invites[n]
  BY <1>3, <1>4 DEF Typed
<1>6. \A q \in Job, n \in Node : q \in Keys(n)' => q \in Keys(n)
  BY <1>1, SameKeys
<1>7. CASE Ends(j)
  BY <1>1, <1>5, <1>6, <1>7, EndedName, NamedQuiet
<1>8. CASE ~Ends(j)
  <2>1. /\ \A k \in Job : k # j => job'[k] = job[k]
        /\ Place(j)' = <<"lan", 11>> /\ job'[j].host = job[j].host /\ job'[j].psk = job[j].psk
    BY <1>8, UntakenMoves DEF Others
  <2>2. job'[j] # NoRequest("none") /\ job'[j].kind = job[j].kind
    <3>1. job'[j].kind = "lan"
      BY <2>1 DEF Place
    <3>2. NoRequest("none").kind = "none"
      BY DEF NoRequest
    <3>3. job[j].kind = "lan"
      <4>1. job[j].kind # "lan" => job' = End(j)
        BY DEF Untaken
      <4>2. QED
        BY <1>8, <4>1, EndEnds
    <3>4. QED
      BY <3>1, <3>2, <3>3
  <2>3. ~In(j, Inviting)' /\ ~In(j, Taken)'
    BY <2>1 DEF In, Inviting, Taken
  <2>4. \A k \in Job : k # j => /\ Busy(k)' <=> Busy(k)
                                /\ In(k, Inviting)' <=> In(k, Inviting)
                                /\ In(k, Taken)' <=> In(k, Taken)
    BY <2>1 DEF In, Busy, Place
  <2>5. \A k \in Job : Busy(k)' => /\ Busy(k) /\ job'[k].kind = job[k].kind
                                   /\ job'[k].host = job[k].host /\ job'[k].psk = job[k].psk
                                   /\ In(k, Inviting)' => In(k, Inviting)
                                   /\ In(k, Taken)' => In(k, Taken)
    BY <1>1, <2>1, <2>2, <2>3, <2>4
  <2>6. \A k \in Job : job'[k] = NoRequest("none") => job[k] = NoRequest("none")
    BY <2>1, <2>2
  <2>7. QED
    BY <1>1, <1>5, <1>6, <2>5, <2>6, NamedQuiet
<1>9. QED
  BY <1>7, <1>8

\* A request that goes on without an invite, and leaves no key where there was none.
LEMMA NamedMoves ==
  ASSUME Typed, NEW owner, Named(owner), NEW j \in Job, Busy(j), NEW a, NEW c,
         Moves(j, a, c), UNCHANGED <<codes, invites>>,
         Following(j) \in Inviting => Place(j) \in Inviting, Following(j) \notin Taken,
         \A q \in Job, n \in Node : q \in Keys(n)' => q \in Keys(n)
  PROVE  Named(owner)'
<1>1. /\ \A k \in Job : Busy(k)' => /\ Busy(k) /\ job'[k].kind = job[k].kind
                                    /\ job'[k].host = job[k].host /\ job'[k].psk = job[k].psk
                                    /\ In(k, Inviting)' => In(k, Inviting)
                                    /\ In(k, Taken)' => In(k, Taken)
      /\ \A k \in Job : job'[k] = NoRequest("none") => job[k] = NoRequest("none")
  BY MovedName
<1>2. QED
  BY <1>1, NamedQuiet

LEMMA NamedEnds ==
  ASSUME NEW owner, Named(owner), NEW j \in Job, Ends(j), UNCHANGED <<codes, invites>>,
         \A q \in Job, n \in Node : q \in Keys(n)' => q \in Keys(n)
  PROVE  Named(owner)'
BY EndedName, NamedQuiet

\* An entry is taken off an interface, and files may go.
LEMMA CutKeys ==
  ASSUME Typed, NEW n \in Node, NEW m \in Node, tunnel' = [tunnel EXCEPT ![n][m] = NoTunnel],
         \A k \in Node : saved'[k] \subseteq saved[k]
  PROVE  \A q \in Job, k \in Node : q \in Keys(k)' => q \in Keys(k)
<1>1. ASSUME NEW q \in Job, NEW k \in Node, q \in Keys(k)' PROVE q \in Keys(k)
  <2>1. CASE q \in {f.psk : f \in saved'[k]}
    BY <2>1 DEF Keys
  <2>2. CASE q \in {tunnel'[k][l].psk : l \in Node}
    <3>1. PICK l \in Node : q = tunnel'[k][l].psk
      BY <2>2
    <3>2. NoTunnel.psk = NoJob /\ q # NoJob
      BY ConstantsAssumption DEF NoTunnel
    <3>3. tunnel'[k][l] = tunnel[k][l]
      BY <3>1, <3>2, CutsTunnel
    <3>4. QED
      BY <3>1, <3>3 DEF Keys
  <2>3. QED
    BY <1>1, <2>1, <2>2 DEF Keys
<1>2. QED
  BY <1>1

LEMMA NamedDrop ==
  ASSUME Typed, NEW owner, Named(owner), NEW j \in Job, Drop(j)
  PROVE  Named(owner)'
<1>1. UNCHANGED <<codes, invites, tunnel, saved>> /\ Busy(j) /\ Place(j) = <<"forget", 1>>
  BY DropMoves DEF Drop, files
<1>2. \A q \in Job, n \in Node : q \in Keys(n)' => q \in Keys(n)
  BY <1>1, SameKeys
<1>3. CASE Ends(j)
  BY <1>1, <1>2, <1>3, NamedEnds
<1>4. CASE ~Ends(j)
  <2>1. /\ \A k \in Job : k # j => job'[k] = job[k]
        /\ Place(j)' = <<"forget", 2>> /\ job'[j].host = job[j].host /\ job'[j].psk = job[j].psk
    BY <1>4, DropMoves DEF Others
  <2>2. job'[j].kind = "forget" /\ job[j].kind = "forget" /\ NoRequest("none").kind = "none"
    BY <1>1, <2>1 DEF Place, NoRequest
  <2>3. ~In(j, Inviting)' /\ ~In(j, Taken)'
    BY <2>1 DEF In, Inviting, Taken
  <2>4. \A k \in Job : k # j => /\ Busy(k)' <=> Busy(k)
                                /\ In(k, Inviting)' <=> In(k, Inviting)
                                /\ In(k, Taken)' <=> In(k, Taken)
    BY <2>1 DEF In, Busy, Place
  <2>5. \A k \in Job : Busy(k)' => /\ Busy(k) /\ job'[k].kind = job[k].kind
                                   /\ job'[k].host = job[k].host /\ job'[k].psk = job[k].psk
                                   /\ In(k, Inviting)' => In(k, Inviting)
                                   /\ In(k, Taken)' => In(k, Taken)
    BY <1>1, <2>1, <2>2, <2>3, <2>4
  <2>6. \A k \in Job : job'[k] = NoRequest("none") => job[k] = NoRequest("none")
    BY <2>1, <2>2
  <2>7. QED
    BY <1>1, <1>2, <2>5, <2>6, NamedQuiet
<1>5. QED
  BY <1>3, <1>4

LEMMA OnceInit == Init => Once
<1> SUFFICES ASSUME Init PROVE Once
  OBVIOUS
<1> DEFINE owner == [p \in Job |-> 0]
<1>1. owner \in Owners
  BY DEF Owners
<1>2. \A j \in Job : ~Busy(j)
  BY DEF Init, Busy, NoRequest
<1>3. \A n \in Node : invites[n] = {} /\ \A p \in Job : p \notin Keys(n)
  <2>1. ASSUME NEW n \in Node PROVE invites[n] = {} /\ \A p \in Job : p \notin Keys(n)
    <3>1. /\ invites[n] = {} /\ saved[n] = {}
          /\ \A m \in Node : tunnel[n][m] = NoTunnel
      BY DEF Init
    <3>2. NoTunnel.psk = NoJob /\ NoJob \notin Job
      BY ConstantsAssumption DEF NoTunnel
    <3>3. QED
      BY <3>1, <3>2 DEF Keys
  <2>2. QED
    BY <2>1
<1>4. codes = {}
  BY DEF Init
<1>5. \A p \in Job : Fresh(p)
  BY <1>2, <1>3, <1>4 DEF Fresh
<1>6. \A p \in Job, n \in Node : ~Used(p, n)
  BY <1>2, <1>3 DEF Used, In
<1> HIDE DEF owner
<1>7. Named(owner)
  BY <1>2, <1>3, <1>4, <1>5, <1>6 DEF Named, In
<1>8. QED
  BY <1>1, <1>7 DEF Once

LEMMA OnceStep == Typed /\ Separate /\ Once /\ [Next]_vars => Once'
<1> SUFFICES ASSUME Typed, Separate, Once, [Next]_vars, "raced" \notin trouble'
             PROVE  \E owner \in Owners : Named(owner)'
  BY DEF Once
<1>0. Unraced /\ "raced" \notin trouble
  BY TroubleGrows DEF Separate, vars
<1>00. PICK owner \in Owners : Named(owner)
  BY <1>0 DEF Once
<1> DEFINE Quiet == \A q \in Job, n \in Node : q \in Keys(n)' => q \in Keys(n)
<1>1. ASSUME NEW j \in Job, ReadAddresses(j) PROVE Named(owner)'
  <2>1. /\ Busy(j) /\ Place(j) \in {<<"invite", 1>>, <<"lan", 1>>, <<"open", 2>>}
        /\ Moves(j, job[j].addr, addresses[job[j].host])
        /\ UNCHANGED <<codes, invites, tunnel, saved>>
    BY <1>1, ReadAddressesMoves DEF ReadAddresses, files
  <2>2. (Following(j) \in Inviting => Place(j) \in Inviting) /\ Following(j) \notin Taken
    BY <2>1 DEF Place, Following, Inviting, Taken
  <2>3. QED
    BY <1>00, <2>1, <2>2, SameKeys, NamedMoves
<1>2. ASSUME NEW j \in Job, Assign(j) PROVE Named(owner)'
  <2>1. /\ Busy(j) /\ Place(j) \in AtFile /\ UNCHANGED <<codes, invites, tunnel, saved>>
    BY <1>2, AssignMoves DEF Assign
  <2>2. PICK a \in Subnet : Moves(j, a, {})
    BY <1>2, AssignMoves
  <2>3. (Following(j) \in Inviting => Place(j) \in Inviting) /\ Following(j) \notin Taken
    BY <2>1 DEF Place, Following, Inviting, Taken, AtFile
  <2>4. QED
    BY <1>00, <2>1, <2>2, <2>3, SameKeys, NamedMoves
<1>3. ASSUME NEW j \in Job, ReadInvites(j) PROVE Named(owner)'
  <2>1. /\ Busy(j) /\ Place(j) \in {<<"invite", 3>>, <<"lan", 3>>, <<"lan", 7>>, <<"redeem", 2>>,
                                    <<"accept", 1>>}
        /\ Moves(j, job[j].addr, invites[job[j].host])
        /\ UNCHANGED <<codes, invites, tunnel, saved>>
    BY <1>3, ReadInvitesMoves DEF ReadInvites, files
  <2>2. (Following(j) \in Inviting => Place(j) \in Inviting) /\ Following(j) \notin Taken
    BY <2>1 DEF Place, Following, Inviting, Taken
  <2>3. QED
    BY <1>00, <2>1, <2>2, SameKeys, NamedMoves
<1>4. ASSUME NEW j \in Job, Invite(j) PROVE Named(owner)'
  BY <1>0, <1>00, <1>4, NamedInvite
<1>5. ASSUME NEW j \in Job, Take(j) PROVE Named(owner)'
  BY <1>0, <1>00, <1>5, NamedTake
<1>6. ASSUME NEW j \in Job, Untaken(j) PROVE Named(owner)'
  BY <1>0, <1>00, <1>6, NamedUntaken
<1>7. ASSUME NEW j \in Job, AddTunnel(j) PROVE Named(owner)'
  BY <1>00, <1>7, NamedTunnel
<1>8. ASSUME NEW j \in Job, List(j) PROVE Named(owner)'
  <2>1. /\ Busy(j) /\ Running(j) /\ At(j, "list") /\ Moves(j, job[j].addr, job[j].copy)
        /\ UNCHANGED <<codes, invites, tunnel, saved>>
    BY <1>8, ListMoves DEF List, files
  <2>2. Place(j) \in {<<"redeem", 5>>, <<"redeem", 6>>, <<"lan", 10>>, <<"lan", 11>>,
                      <<"accept", 4>>, <<"open", 7>>}
    BY <2>1, Places
  <2>3. (Following(j) \in Inviting => Place(j) \in Inviting) /\ Following(j) \notin Taken
    BY <2>2 DEF Place, Following, Inviting, Taken
  <2>4. QED
    BY <1>00, <2>1, <2>3, SameKeys, NamedMoves
<1>9. ASSUME NEW j \in Job, Race(j) PROVE Named(owner)'
  <2>1. /\ Busy(j) /\ Place(j) = <<"lan", 5>> /\ UNCHANGED <<codes, invites>>
        /\ Ends(j) \/ Moves(j, job[j].addr, job[j].copy)
    BY <1>9, RaceMoves DEF Race
  <2>2. (Following(j) \in Inviting => Place(j) \in Inviting) /\ Following(j) \notin Taken
    BY <2>1 DEF Place, Following, Inviting, Taken
  <2>3. Quiet
    <3>1. CASE UNCHANGED <<tunnel, saved>>
      BY <3>1, SameKeys
    <3>2. CASE ~UNCHANGED <<tunnel, saved>>
      <4>1. PICK g \in Node : g = job[j].guest
        BY <1>9, RaceMoves
      <4>2. PICK h \in Node : h = job[j].host
        BY <1>9, RaceMoves
      <4>3. /\ tunnel' = [tunnel EXCEPT ![g][h] = NoTunnel]
            /\ saved' = [saved EXCEPT ![g] = {f \in saved[g] : f.name # 0}]
        BY <1>9, <3>2, <4>1, <4>2, RaceMoves
      <4>4. \A k \in Node : saved'[k] \subseteq saved[k]
        BY <4>3 DEF Typed
      <4>5. QED
        BY <4>3, <4>4, CutKeys
    <3>3. QED
      BY <3>1, <3>2
  <2>4. QED
    BY <1>00, <2>1, <2>2, <2>3, NamedMoves, NamedEnds
<1>10. ASSUME NEW j \in Job, Admit(j) PROVE Named(owner)'
  <2>1. /\ Busy(j) /\ Place(j) = <<"open", 1>> /\ UNCHANGED <<codes, invites, tunnel, saved>>
        /\ Ends(j) \/ Moves(j, job[j].addr, job[j].copy)
    BY <1>10, AdmitMoves DEF Admit, files
  <2>2. (Following(j) \in Inviting => Place(j) \in Inviting) /\ Following(j) \notin Taken
    BY <2>1 DEF Place, Following, Inviting, Taken
  <2>3. Quiet
    BY <2>1, SameKeys
  <2>4. QED
    BY <1>00, <2>1, <2>2, <2>3, NamedMoves, NamedEnds
<1>11. ASSUME NEW j \in Job, Push(j) PROVE Named(owner)'
  <2>1. /\ Busy(j) /\ Place(j) = <<"open", 5>> /\ UNCHANGED <<codes, invites, tunnel, saved>>
        /\ Moves(j, job[j].addr, job[j].copy)
    BY <1>11, PushMoves DEF Push, files
  <2>2. (Following(j) \in Inviting => Place(j) \in Inviting) /\ Following(j) \notin Taken
    BY <2>1 DEF Place, Following, Inviting, Taken
  <2>3. QED
    BY <1>00, <2>1, <2>2, SameKeys, NamedMoves
<1>12. ASSUME NEW j \in Job, Drop(j) PROVE Named(owner)'
  BY <1>00, <1>12, NamedDrop
<1>13. ASSUME NEW j \in Job, Close(j) PROVE Named(owner)'
  <2>1. Ends(j) /\ Running(j) /\ UNCHANGED <<codes, invites>>
    BY <1>13, CloseMoves DEF Close
  <2>2. PICK h \in Node : h = job[j].host
    BY <2>1 DEF Running
  <2>3. PICK g \in Node : g = job[j].guest
    BY <2>1 DEF Running
  <2>4. /\ tunnel' = [tunnel EXCEPT ![h][g] = NoTunnel]
        /\ \A k \in Node : saved'[k] \subseteq saved[k]
    BY <1>13, <2>2, <2>3, CloseMoves
  <2>5. Quiet
    BY <2>4, CutKeys
  <2>6. QED
    BY <1>00, <2>1, <2>5, NamedEnds
<1>14. ASSUME NEW j \in Job, Abandon(j) PROVE Named(owner)'
  <2>1. Ends(j) /\ UNCHANGED <<codes, invites, tunnel, saved>>
    BY <1>14, AbandonEnds DEF Abandon, files
  <2>2. QED
    BY <1>00, <2>1, SameKeys, NamedEnds
<1>15. ASSUME NEW j \in Job, Ask(j) \/ Use(j) PROVE \E after \in Owners : Named(after)'
  BY <1>00, <1>15, NamedStart
<1>16. ASSUME NEW j \in Job, Administer(j) PROVE Named(owner)'
  <2>1. Ends(j) /\ UNCHANGED <<codes, invites, tunnel, saved>>
    BY <1>16, AdministerEnds
  <2>2. QED
    BY <1>00, <2>1, SameKeys, NamedEnds
<1>17. ASSUME NEW n \in Node, Restart(n) PROVE Named(owner)'
  BY <1>00, <1>17, NamedRestart
<1>18. CASE UNCHANGED vars
  <2>1. UNCHANGED <<codes, invites, tunnel, saved, job>>
    BY <1>18 DEF vars, files
  <2>2. \A k \in Job : /\ Busy(k)' <=> Busy(k)
                       /\ In(k, Inviting)' <=> In(k, Inviting)
                       /\ In(k, Taken)' <=> In(k, Taken)
    BY <2>1 DEF Busy, In, Place
  <2>3. Named(owner)'
    BY <1>00, <2>1, <2>2, SameKeys, NamedQuiet
  <2>4. QED
    BY <1>00, <2>3
<1>19. QED
  BY <1>00, <1>1, <1>2, <1>3, <1>4, <1>5, <1>6, <1>7, <1>8, <1>9, <1>10, <1>11, <1>12, <1>13,
     <1>14, <1>15, <1>16, <1>17, <1>18 DEF Next, Step

\* As long as no two requests of a node rewrite pending_invites.json at once, an
\* invite is used at most once: no pending invite of a node has a pre-shared key that
\* is on its interface or on its way there (consume_by_psk), also after restarts and
\* with open invites and LAN invites under way.
THEOREM InvitesStaySpent == Spec => []InviteSpent
<1>1. Init => Typed /\ Separate /\ Once
  BY TypedInit, SeparateInit, OnceInit
<1>2. Typed /\ Separate /\ Once /\ [Next]_vars => Typed' /\ Separate' /\ Once'
  BY TypedStep, SeparateStep, OnceStep
<1>3. Typed /\ Once => InviteSpent
  <2> SUFFICES ASSUME Typed, Once, "raced" \notin trouble, NEW n \in Node, NEW i \in invites[n]
               PROVE  /\ \A m \in Node : tunnel[n][m].psk # i.psk
                      /\ \A j \in Job : ~(At(j, "tunnel") /\ AtHost(j) /\ job[j].host = n
                                            /\ job[j].psk = i.psk)
    BY DEF InviteSpent
  <2>1. PICK owner \in Owners : Named(owner)
    BY DEF Once
  <2>2. PICK p \in Job : p = i.psk
    BY DEF Typed, Pending
  <2>3. owner[p] = n /\ ~Clean(p)
    BY <2>1, <2>2 DEF Named, Clean
  <2>4. ~Used(p, n)
    BY <2>1, <2>3 DEF Named
  <2>5. \A m \in Node : tunnel[n][m].psk # p
    BY <2>4 DEF Used, Keys
  <2>6. ASSUME NEW j \in Job, At(j, "tunnel"), AtHost(j), job[j].host = n, job[j].psk = p
        PROVE  FALSE
    <3>1. Busy(j) /\ Running(j)
      BY <2>6 DEF At, Typed
    <3>2. Place(j) \in {<<"redeem", 4>>, <<"lan", 9>>, <<"accept", 3>>, <<"open", 4>>}
      BY <2>6, <3>1, Places
    <3>3. CASE Place(j) = <<"open", 4>>
      <4>1. job[j].kind = "open"
        BY <3>3 DEF Place
      <4>2. QED
        BY <2>1, <2>2, <2>6, <3>1, <4>1 DEF Named
    <3>4. CASE Place(j) \in Taken
      BY <2>4, <2>6, <3>1, <3>4 DEF Used, In
    <3>5. QED
      BY <3>2, <3>3, <3>4 DEF Taken
  <2>7. QED
    BY <2>2, <2>5, <2>6
<1>4. QED
  BY <1>1, <1>2, <1>3, PTL DEF Spec

--------------------------------------------------------------------------------
(* Nobody is its own peer, and a name is the name of one file.                 *)

\* Requests are between two nodes, and what a node keeps of peers is of others.
TwoSided  == \A j \in Job : Busy(j) => job[j].host # job[j].guest
ListsNone == \A n \in Node : \A i \in 1 .. Len(listed[n]) : listed[n][i].key # n
Grouped   == /\ groups \in [Node -> SUBSET [key : Node, group : Group]]
             /\ \A n \in Node : \A g \in groups[n] : g.key # n
SavesNone == \A n \in Node : \A f \in saved[n] : f.key # n
OneFile   == \A n \in Node : \A f, h \in saved[n] : f.name = h.name => f = h
Counted   == open \subseteq Node /\ faults \in 0 .. MaxFaults

Abroad == TwoSided /\ ListsNone /\ Grouped /\ SavesNone /\ OneFile /\ Counted

LEMMA AbroadInit == Init => Abroad
<1> SUFFICES ASSUME Init PROVE Abroad
  OBVIOUS
<1>1. TwoSided
  BY DEF Init, TwoSided, Busy, NoRequest
<1>2. ListsNone
  BY DEF Init, ListsNone
<1>3. Grouped /\ SavesNone /\ OneFile
  BY DEF Init, Grouped, SavesNone, OneFile
<1>4. Counted
  BY ConstantsAssumption DEF Init, Counted
<1>5. QED
  BY <1>1, <1>2, <1>3, <1>4 DEF Abroad

LEMMA MovesSides ==
  ASSUME Typed, TwoSided, NEW j \in Job, Busy(j), NEW a, NEW c, Moves(j, a, c)
  PROVE  TwoSided'
<1>1. ASSUME NEW k \in Job, Busy(k)', k # j PROVE job'[k].host # job'[k].guest
  BY <1>1 DEF Moves, Others, TwoSided, Busy
<1>2. ASSUME Busy(j)' PROVE job'[j].host # job'[j].guest
  <2>1. job[j].at # Len(Program[job[j].kind])
    BY <1>2 DEF Moves, Busy
  <2>2. QED
    BY <2>1, MovedFields DEF TwoSided
<1>3. QED
  BY <1>1, <1>2 DEF TwoSided

LEMMA EndsSides ==
  ASSUME TwoSided, NEW j \in Job, Ends(j)
  PROVE  TwoSided'
BY DEF TwoSided, Ends, Others, Busy

\* What remove_peer closes afterwards is a listed peer.
LEMMA DropSides ==
  ASSUME Typed, TwoSided, ListsNone, NEW j \in Job, Drop(j)
  PROVE  TwoSided'
<1>1. Busy(j) /\ Running(j) /\ AtHost(j)
  BY DropMoves, Places
<1> DEFINE n == job[j].host
           list == listed[n]
           p == Proceed(j)
<1>2. CASE job' = End(j)
  BY <1>2, EndEnds, EndsSides
<1>3. ASSUME NEW id, NEW i \in 1 .. Len(list),
             job' = [p EXCEPT ![j].guest = list[i].key, ![j].addr = id]
      PROVE  TwoSided'
  <2>1. p \in [Job -> Handling] /\ \A k \in Job : k # j => p[k] = job[k]
    BY <1>1, ProceedMoves
  <2>2. p[j].host = n
    <3>1. job[j].at # Len(Program[job[j].kind])
      <4>1. job[j].at = 1 /\ job[j].kind = "forget"
        BY DropMoves DEF Place
      <4>2. QED
        BY <4>1, Lengths
    <3>2. p[j] = [job[j] EXCEPT !.at = job[j].at + 1]
      BY <1>1, <3>1, ProceedMoves
    <3>3. QED
      BY <3>2 DEF Typed, Handling
  <2>3. list[i].key # n
    BY <1>1 DEF Running, ListsNone
  <2> DEFINE key == list[i].key
             r == [[p[j] EXCEPT !.guest = key] EXCEPT !.addr = id]
  <2> HIDE DEF p, key, n
  <2>4. r.host = n /\ r.guest = key
    BY <2>1, <2>2 DEF Handling
  <2>5. job' = [p EXCEPT ![j] = r]
    BY <1>3, <2>1 DEF key, n
  <2> HIDE DEF r
  <2>6. job'[j] = r /\ \A k \in Job : k # j => job'[k] = p[k]
    BY <2>1, <2>5
  <2>7. ASSUME NEW k \in Job, k # j, Busy(k)' PROVE job'[k].host # job'[k].guest
    BY <2>1, <2>6, <2>7 DEF TwoSided, Busy
  <2>8. job'[j].host # job'[j].guest
    BY <2>3, <2>4, <2>6 DEF key
  <2>9. QED
    BY <2>7, <2>8 DEF TwoSided
<1>4. job' = End(j) \/ \E id : \E i \in 1 .. Len(list) :
        job' = [p EXCEPT ![j].guest = list[i].key, ![j].addr = id]
  BY <1>1 DEF Drop, Here
<1>5. QED
  BY <1>2, <1>3, <1>4

LEMMA SidesStep == Typed /\ TwoSided /\ ListsNone /\ [Next]_vars => TwoSided'
<1> SUFFICES ASSUME Typed, TwoSided, ListsNone, [Next]_vars PROVE TwoSided'
  OBVIOUS
<1>1. ASSUME NEW j \in Job, ReadAddresses(j) PROVE TwoSided'
  BY <1>1, ReadAddressesMoves, MovesSides
<1>2. ASSUME NEW j \in Job, Assign(j) PROVE TwoSided'
  <2>1. Busy(j) /\ \E a \in Subnet : Moves(j, a, {})
    BY <1>2, AssignMoves
  <2>2. QED
    BY <2>1, MovesSides
<1>3. ASSUME NEW j \in Job, ReadInvites(j) PROVE TwoSided'
  BY <1>3, ReadInvitesMoves, MovesSides
<1>4. ASSUME NEW j \in Job, Invite(j) PROVE TwoSided'
  BY <1>4, InviteMoves, MovesSides
<1>5. ASSUME NEW j \in Job, Take(j) PROVE TwoSided'
  <2>1. Busy(j) /\ \E i \in Pending : Moves(j, i.addr, {})
    BY <1>5, TakeMoves
  <2>2. QED
    BY <2>1, MovesSides
<1>6. ASSUME NEW j \in Job, Untaken(j) PROVE TwoSided'
  <2>1. CASE Ends(j)
    BY <2>1, EndsSides
  <2>2. CASE Busy(j) /\ Others(j) /\ job'[j].host = job[j].host /\ job'[j].guest = job[j].guest
    BY <2>2 DEF Others, TwoSided, Busy
  <2>3. QED
    BY <1>6, <2>1, <2>2, UntakenMoves
<1>7. ASSUME NEW j \in Job, AddTunnel(j) PROVE TwoSided'
  BY <1>7, TunnelMoves, MovesSides
<1>8. ASSUME NEW j \in Job, List(j) PROVE TwoSided'
  BY <1>8, ListMoves, MovesSides
<1>9. ASSUME NEW j \in Job, Race(j) PROVE TwoSided'
  BY <1>9, RaceMoves, MovesSides, EndsSides
<1>10. ASSUME NEW j \in Job, Admit(j) PROVE TwoSided'
  BY <1>10, AdmitMoves, MovesSides, EndsSides
<1>11. ASSUME NEW j \in Job, Push(j) PROVE TwoSided'
  BY <1>11, PushMoves, MovesSides
<1>12. ASSUME NEW j \in Job, Drop(j) PROVE TwoSided'
  BY <1>12, DropSides
<1>13. ASSUME NEW j \in Job, Close(j) \/ Abandon(j) \/ Administer(j) PROVE TwoSided'
  BY <1>13, CloseMoves, AbandonEnds, AdministerEnds, EndsSides
<1>14. ASSUME NEW j \in Job, Ask(j) \/ Use(j) PROVE TwoSided'
  BY <1>14, AskStarts DEF Starts, Others, TwoSided, Busy
<1>15. ASSUME NEW n \in Node, Restart(n) PROVE TwoSided'
  BY <1>15, RestartMoves DEF TwoSided, Busy
<1>16. CASE UNCHANGED vars
  BY <1>16 DEF vars, TwoSided, Busy
<1>17. QED
  BY <1>1, <1>2, <1>3, <1>4, <1>5, <1>6, <1>7, <1>8, <1>9, <1>10, <1>11, <1>12, <1>13, <1>14,
     <1>15, <1>16 DEF Next, Step

LEMMA AppendedNone ==
  ASSUME Typed, ListsNone, NEW n \in Node, NEW e \in Entry, Appends(n, e), e.key # n
  PROVE  ListsNone'
<1>1. ASSUME NEW m \in Node, NEW i \in 1 .. Len(listed'[m]) PROVE listed'[m][i].key # m
  <2>1. CASE m # n
    BY <2>1, AppendLists DEF ListsNone
  <2>2. CASE m = n
    <3>1. i \in 1 .. Len(listed[n]) \/ i = Len(listed[n]) + 1
      BY <2>2, AppendLists
    <3>2. QED
      BY <2>2, <3>1, AppendLists DEF ListsNone
  <2>3. QED
    BY <2>1, <2>2
<1>2. QED
  BY <1>1 DEF ListsNone

LEMMA ListsStep == Typed /\ TwoSided /\ ListsNone /\ [Next]_vars => ListsNone'
<1> SUFFICES ASSUME Typed, TwoSided, ListsNone, [Next]_vars PROVE ListsNone'
  OBVIOUS
<1>1. ASSUME NEW j \in Job, List(j) PROVE ListsNone'
  <2>1. Here(j) \in Node /\ Peer(j) # Here(j)
    BY <1>1, ListMoves DEF TwoSided, Here, Peer
  <2>2. CASE listed' = listed
    BY <2>2 DEF ListsNone
  <2>3. CASE \E e \in Entry : Appends(Here(j), e) /\ e.key = Peer(j)
    BY <2>1, <2>3, AppendedNone
  <2>4. QED
    BY <1>1, <2>2, <2>3, ListMoves
<1>2. ASSUME NEW j \in Job, Push(j) PROVE ListsNone'
  <2>1. job[j].host \in Node /\ job[j].guest # job[j].host
    BY <1>2, PushMoves DEF TwoSided, Running
  <2>2. \E e \in Entry : Appends(job[j].host, e) /\ e.key = job[j].guest
    BY <1>2, PushMoves
  <2>3. QED
    BY <2>1, <2>2, AppendedNone
<1>3. ASSUME NEW j \in Job, Drop(j) PROVE ListsNone'
  <2>1. CASE listed' = listed
    BY <2>1 DEF ListsNone
  <2>2. ASSUME NEW n \in Node, NEW id, NEW rest \in Without(listed[n], id),
               listed' = [listed EXCEPT ![n] = rest]
        PROVE  ListsNone'
    <3>1. listed[n] \in Seq(Entry) /\ listed \in [Node -> Seq(Entry)]
      BY DEF Typed
    <3>2. \A i \in 1 .. Len(rest) : \E k \in 1 .. Len(listed[n]) : rest[i] = listed[n][k]
      BY <3>1, WithoutKeeps
    <3>3. \A i \in 1 .. Len(rest) : rest[i].key # n
      BY <3>2 DEF ListsNone
    <3>4. listed'[n] = rest /\ \A m \in Node : m # n => listed'[m] = listed[m]
      BY <2>2, <3>1
    <3>5. QED
      BY <3>3, <3>4 DEF ListsNone
  <2>3. job[j].host \in Node
    BY <1>3, DropMoves DEF Running
  <2>4. QED
    BY <1>3, <2>1, <2>2, <2>3, DropMoves
<1>4. ASSUME NEW j \in Job, Administer(j) PROVE ListsNone'
  <2>1. CASE listed' = listed
    BY <2>1 DEF ListsNone
  <2>2. ASSUME NEW n \in Node, NEW i \in 1 .. Len(listed[n]), NEW t \in Trust,
               listed' = [listed EXCEPT ![n][i].trust = t]
        PROVE  ListsNone'
    <3>1. \A m \in Node : /\ Len(listed'[m]) = Len(listed[m])
                          /\ \A k \in 1 .. Len(listed[m]) : listed'[m][k].key = listed[m][k].key
      BY <2>2, TrustKeeps
    <3>2. QED
      BY <3>1 DEF ListsNone
  <2>3. QED
    BY <1>4, <2>1, <2>2, AdministerEnds
<1>5. CASE UNCHANGED listed
  BY <1>5 DEF ListsNone
<1>6. ASSUME NEW j \in Job,
             \/ ReadAddresses(j) \/ Assign(j) \/ ReadInvites(j) \/ Invite(j) \/ Take(j)
             \/ Untaken(j) \/ AddTunnel(j) \/ Race(j) \/ Admit(j) \/ Close(j) \/ Abandon(j)
      PROVE  UNCHANGED listed
  BY <1>6 DEF ReadAddresses, Assign, ReadInvites, Invite, Take, Untaken, AddTunnel, Race, Admit,
     Close, Abandon
<1>7. ASSUME NEW j \in Job, Ask(j) \/ Use(j) PROVE UNCHANGED listed
  BY <1>7, AskStarts
<1>8. QED
  BY <1>1, <1>2, <1>3, <1>4, <1>5, <1>6, <1>7, RestartMoves DEF Next, Step, vars

LEMMA GroupsStep == Typed /\ ListsNone /\ Grouped /\ [Next]_vars => Grouped'
<1> SUFFICES ASSUME Typed, ListsNone, Grouped, [Next]_vars PROVE Grouped'
  OBVIOUS
<1>1. ASSUME NEW n \in Node, NEW more \in SUBSET [key : Node \ {n}, group : Group],
             NEW fewer \in SUBSET groups[n],
             groups' = [groups EXCEPT ![n] = fewer \cup more]
      PROVE  Grouped'
  BY <1>1 DEF Grouped
<1>2. ASSUME NEW j \in Job, Drop(j) PROVE Grouped'
  <2>1. Here(j) \in Node
    BY <1>2, DropMoves, Places DEF Running, Here
  <2>2. CASE UNCHANGED groups
    BY <2>2 DEF Grouped
  <2>3. ASSUME NEW key, groups' = [groups EXCEPT ![Here(j)] = {g \in @ : g.key # key}]
        PROVE  Grouped'
    BY <1>1, <2>1, <2>3 DEF Grouped
  <2>4. QED
    BY <1>2, <2>2, <2>3 DEF Drop
<1>3. ASSUME NEW j \in Job, Administer(j) PROVE Grouped'
  <2>1. PICK n \in Node : \/ SwitchOpen(j, n)
                          \/ \E m \in Node : Deny(j, n, m) \/ \E g \in Group : AssignToGroup(j, n, m, g)
                          \/ \E member \in groups[n] : RemoveFromGroup(j, n, member)
                          \/ \E i \in 1 .. Len(listed[n]) : UpdateTrust(j, n, i)
    BY <1>3 DEF Administer
  <2>2. CASE \/ UNCHANGED groups
             \/ \E m \in Node : Deny(j, n, m)
             \/ \E member \in groups[n] : RemoveFromGroup(j, n, member)
    BY <2>2 DEF Deny, RemoveFromGroup, Grouped
  <2>3. ASSUME NEW m \in Node, NEW g \in Group, AssignToGroup(j, n, m, g) PROVE Grouped'
    <3>1. [key |-> m, group |-> g] \in [key : Node \ {n}, group : Group]
      BY <2>3 DEF AssignToGroup
    <3>2. groups' = [groups EXCEPT ![n] = groups[n] \cup {[key |-> m, group |-> g]}]
      BY <2>3 DEF AssignToGroup
    <3>3. QED
      BY <1>1, <3>1, <3>2
  <2>4. QED
    BY <2>1, <2>2, <2>3 DEF SwitchOpen, UpdateTrust
<1>4. ASSUME NEW n \in Node, Restart(n) PROVE Grouped'
  <2>1. PICK more \in SUBSET [key : Node \ {n}, group : Group] : Migrated(n) = groups[n] \cup more
    <3> DEFINE put == {[key |-> listed[n][i].key,
                         group |-> IF listed[n][i].trust = "friend" THEN "friends" ELSE "default"]
                         : i \in 1 .. Len(listed[n])}
    <3>1. ASSUME NEW i \in 1 .. Len(listed[n]) PROVE listed[n][i].key \in Node \ {n}
      <4>1. listed[n] \in Seq(Entry)
        BY DEF Typed
      <4>2. listed[n][i] \in Entry
        BY <4>1, LenProperties
      <4>3. QED
        BY <4>2 DEF Entry, ListsNone
    <3>2. put \in SUBSET [key : Node \ {n}, group : Group]
      BY <3>1 DEF Group
    <3>3. Migrated(n) = groups[n] \/ Migrated(n) = groups[n] \cup put
      BY DEF Migrated
    <3> HIDE DEF put
    <3>4. groups[n] = groups[n] \cup {}
      OBVIOUS
    <3>5. QED
      BY <3>2, <3>3, <3>4
  <2>2. groups' = [groups EXCEPT ![n] = Migrated(n)]
    BY <1>4 DEF Restart
  <2>3. QED
    BY <1>1, <2>1, <2>2
<1>5. CASE UNCHANGED groups
  BY <1>5 DEF Grouped
<1>6. ASSUME NEW j \in Job,
             \/ ReadAddresses(j) \/ Assign(j) \/ ReadInvites(j) \/ Invite(j) \/ Take(j)
             \/ Untaken(j) \/ AddTunnel(j) \/ List(j) \/ Race(j) \/ Admit(j) \/ Push(j) \/ Close(j)
             \/ Abandon(j)
      PROVE  UNCHANGED groups
  BY <1>6 DEF ReadAddresses, Assign, ReadInvites, Invite, Take, Untaken, AddTunnel, List, Race,
     Admit, Push, Close, Abandon
<1>7. ASSUME NEW j \in Job, Ask(j) \/ Use(j) PROVE UNCHANGED groups
  BY <1>7 DEF Ask, Use, Create, LanInvite, RedeemOpen, Forget, Redeem, RedeemAccept, Request
<1>8. QED
  BY <1>2, <1>3, <1>4, <1>5, <1>6, <1>7 DEF Next, Step, vars

LEMMA SavedStep == Typed /\ TwoSided /\ SavesNone /\ OneFile /\ [Next]_vars => SavesNone' /\ OneFile'
<1> SUFFICES ASSUME Typed, TwoSided, SavesNone, OneFile, [Next]_vars PROVE SavesNone' /\ OneFile'
  OBVIOUS
<1>1. ASSUME \A n \in Node : saved'[n] \subseteq saved[n] PROVE SavesNone' /\ OneFile'
  BY <1>1 DEF SavesNone, OneFile
<1>2. ASSUME NEW j \in Job, AddTunnel(j) PROVE SavesNone' /\ OneFile'
  <2> DEFINE n == Here(j)
             new == [name |-> FileName(j), key |-> Peer(j), psk |-> job[j].psk,
                     addr |-> AddressFor(j)]
  <2>1. n \in Node /\ new.key # n /\ new.name = FileName(j)
    BY <1>2, TunnelMoves DEF TwoSided, Here, Peer
  <2>2. saved' = [saved EXCEPT ![n] = {f \in saved[n] : f.name # FileName(j)} \cup {new}]
    BY <1>2 DEF AddTunnel
  <2> HIDE DEF n, new
  <2>3. /\ saved'[n] = {f \in saved[n] : f.name # FileName(j)} \cup {new}
        /\ \A m \in Node : m # n => saved'[m] = saved[m]
    BY <2>1, <2>2 DEF Typed
  <2>4. SavesNone'
    BY <2>1, <2>3 DEF SavesNone
  <2>5. OneFile'
    BY <2>1, <2>3 DEF OneFile
  <2>6. QED
    BY <2>4, <2>5
<1>3. ASSUME NEW j \in Job, Race(j) PROVE \A n \in Node : saved'[n] \subseteq saved[n]
  <2>1. PICK g \in Node : g = job[j].guest
    BY <1>3, RaceMoves
  <2>2. \/ saved' = saved
        \/ saved' = [saved EXCEPT ![g] = {f \in saved[g] : f.name # 0}]
    BY <1>3, <2>1, RaceMoves
  <2>3. QED
    BY <2>2 DEF Typed
<1>4. ASSUME NEW j \in Job, Close(j) PROVE \A n \in Node : saved'[n] \subseteq saved[n]
  BY <1>4, CloseMoves
<1>5. ASSUME NEW j \in Job,
             \/ ReadAddresses(j) \/ Assign(j) \/ ReadInvites(j) \/ Invite(j) \/ Take(j)
             \/ Untaken(j) \/ List(j) \/ Admit(j) \/ Push(j) \/ Drop(j) \/ Abandon(j)
      PROVE  UNCHANGED saved
  BY <1>5 DEF ReadAddresses, Assign, ReadInvites, Invite, Take, Untaken, List, Admit, Push, Drop,
     Abandon, files
<1>6. ASSUME NEW j \in Job, Ask(j) \/ Use(j) \/ Administer(j) PROVE UNCHANGED saved
  BY <1>6, AskStarts, AdministerEnds
<1>7. ASSUME NEW n \in Node, Restart(n) PROVE UNCHANGED saved
  BY <1>7, RestartMoves
<1>8. QED
  BY <1>1, <1>2, <1>3, <1>4, <1>5, <1>6, <1>7 DEF Next, Step, vars, files

LEMMA CountedStep == Counted /\ [Next]_vars => Counted'
<1> SUFFICES ASSUME Counted, [Next]_vars PROVE Counted'
  OBVIOUS
<1>1. ASSUME NEW j \in Job, Step(j) PROVE UNCHANGED <<open, faults>>
  BY <1>1 DEF Step, ReadAddresses, Assign, ReadInvites, Invite, Take, Untaken, AddTunnel, List,
     Race, Admit, Push, Drop, Close, files
<1>2. ASSUME NEW j \in Job, Ask(j) \/ Use(j) PROVE UNCHANGED <<open, faults>>
  BY <1>2 DEF Ask, Use, Create, LanInvite, RedeemOpen, Forget, Redeem, RedeemAccept, Request, files
<1>3. ASSUME NEW j \in Job, Administer(j) PROVE open' \subseteq Node /\ faults' = faults
  BY <1>3 DEF Administer, SwitchOpen, Deny, AssignToGroup, RemoveFromGroup, UpdateTrust, Quick,
     Counted
<1>4. ASSUME NEW j \in Job, Abandon(j) PROVE Counted'
  BY <1>4, ConstantsAssumption DEF Abandon, files, Counted
<1>5. ASSUME NEW n \in Node, Restart(n) PROVE Counted'
  BY <1>5, ConstantsAssumption DEF Restart, files, Counted
<1>6. QED
  BY <1>1, <1>2, <1>3, <1>4, <1>5 DEF Next, vars, files, Counted

\* Every variable has its type, no node is in its own list, groups or files of peers
\* (create_invite, lan_invite and open_join are made between two nodes), and a name is
\* the name of one file (wireguard::add_peer), for any number of nodes and requests.
THEOREM TypeCorrect == Spec => []TypeOK
<1>1. Init => Typed /\ Abroad
  BY TypedInit, AbroadInit
<1>2. Typed /\ Abroad /\ [Next]_vars => Typed' /\ Abroad'
  BY TypedStep, SidesStep, ListsStep, GroupsStep, SavedStep, CountedStep DEF Abroad
<1>3. ASSUME Typed, Abroad PROVE TypeOK
  <2>1. ASSUME NEW n \in Node, NEW i \in 1 .. Len(listed[n])
        PROVE  listed[n][i] \in [id : Node \cup {0}, key : Node \ {n}, addr : Address, trust : Trust]
    <3>1. listed[n] \in Seq(Entry)
      BY <1>3 DEF Typed
    <3>2. listed[n][i] \in Entry /\ listed[n][i].key # n
      BY <1>3, <3>1, LenProperties DEF Abroad, ListsNone
    <3>3. QED
      BY <3>2 DEF Entry
  <2>2. ASSUME NEW n \in Node
        PROVE  saved[n] \subseteq [name : Node \cup {0}, key : Node \ {n}, psk : Job, addr : Address]
    BY <1>3 DEF Typed, Abroad, SavesNone, File
  <2>3. ASSUME NEW n \in Node PROVE invites[n] \subseteq [psk : Job, addr : Address \ {0, Own}]
    <3>1. Subnet \subseteq Address \ {0, Own}
      BY ConstantsAssumption DEF Subnet, Address, Own
    <3>2. QED
      BY <1>3, <3>1 DEF Typed, Pending
  <2>4. ASSUME NEW n \in Node PROVE groups[n] \subseteq [key : Node \ {n}, group : Group]
    BY <1>3 DEF Abroad, Grouped
  <2>5. \A n, m \in Node : tunnel[n][m] \in [psk : Job \cup {NoJob}, addr : Address]
    BY <1>3 DEF Typed
  <2>6. QED
    BY <1>3, <2>1, <2>2, <2>3, <2>4, <2>5 DEF TypeOK, Abroad, OneFile, Counted
<1>4. QED
  BY <1>1, <1>2, <1>3, PTL DEF Spec
================================================================================
