---------------------------- MODULE SessionExchange ----------------------------
(* The OFFER/CONFIRM exchange on one TCP socket: node/p2pcd/src/session.rs    *)
(* with the matching and reconciliation rules of node/p2pcd-types.            *)
(*                                                                            *)
(* Each end sends its manifest, computes which capabilities both declare with *)
(* matching roles and its own trust gate permits, sends that set with the     *)
(* reconciled parameters, and keeps the intersection of the two sets.  The    *)
(* trust gate reads the access database, which the HTTP API may change at any *)
(* moment; the socket may break and a read may time out.                      *)
EXTENDS Integers, Sequences

CONSTANTS
  Cap,        \* capability names
  Heartbeat,  \* core.session.heartbeat.1
  Limits,     \* values of a scope parameter (rate_limit, ttl); 0 is unlimited
  Absent      \* a capability a manifest does not declare

ASSUME CapAssumption == Heartbeat \in Cap
ASSUME LimitsAssumption == Limits \subseteq Nat /\ 0 \in Limits

Ends  == {"init", "resp"}
Other == [init |-> "resp", resp |-> "init"]

\* CapabilityDeclaration; one parameter stands for rate_limit and ttl.
Declarations ==
  [role : {"Provide", "Consume", "Both"}, mutual : BOOLEAN, limit : Limits]
ASSUME AbsentAssumption == Absent \notin Declarations
Manifests == [Cap -> Declarations \cup {Absent}]

VARIABLES
  manifest,   \* each end's local manifest
  gate,       \* what each end's access database permits to the other one
  pc,         \* how far each end is
  wire,       \* messages on their way to each end
  broken,     \* the socket is gone
  remote,     \* the manifest an end received
  ours,       \* the set an end computed
  asked,      \* history: what its gate permitted when it computed that set
  final       \* the capabilities an end finalized, with their parameter

vars == <<manifest, gate, pc, wire, broken, remote, ours, asked, final>>

--------------------------------------------------------------------------------
(* Matching and reconciliation.                                               *)

\* Role::matches
RolesMatch(d, e) ==
  IF d.role = "Both" /\ e.role = "Both" THEN d.mutual /\ e.mutual
  ELSE d.role # e.role

\* Mutant: 0 counts as the smallest value.
ReconcileMin(a, b) == IF a < b THEN a ELSE b

\* reconcile_uint_zero_unlimited
Reconcile(a, b) ==
  IF a = 0 THEN b ELSE IF b = 0 THEN a ELSE IF a < b THEN a ELSE b

\* The capabilities both manifests declare with matching roles.
Common(m, n) ==
  {c \in Cap : m[c] # Absent /\ n[c] # Absent /\ RolesMatch(m[c], n[c])}

\* compute_intersection and reconcile_params: heartbeat passes any trust gate.
Intersection(m, n, permitted) ==
  [c \in {x \in Common(m, n) : x = Heartbeat \/ x \in permitted} |->
     Reconcile(m[c].limit, n[c].limit)]

\* Mutant: one's own set is taken for the agreed one.
FinalMine(mine, theirs) == mine

\* intersect_sets and reconcile_confirm_params
Final(mine, theirs) ==
  [c \in DOMAIN mine \cap DOMAIN theirs |-> Reconcile(mine[c], theirs[c])]

--------------------------------------------------------------------------------
NoSet == [c \in {} |-> 0]
NoManifest == [c \in Cap |-> Absent]

Offer(e)   == [type |-> "OFFER", manifest |-> manifest[e]]
Confirm(s) == [type |-> "CONFIRM", set |-> s]

Init ==
  /\ manifest \in [Ends -> Manifests]
  /\ gate \in [Ends -> SUBSET Cap]
  /\ pc = [init |-> "start", resp |-> "wantOffer"]
  /\ wire = [e \in Ends |-> <<>>]
  /\ broken = FALSE
  /\ remote = [e \in Ends |-> NoManifest]
  /\ ours = [e \in Ends |-> NoSet]
  /\ asked = [e \in Ends |-> {}]
  /\ final = [e \in Ends |-> NoSet]

--------------------------------------------------------------------------------
(* The two ends.                                                              *)

Goto(e, label) == pc' = [pc EXCEPT ![e] = label]

\* The next message for e is of this type.
Expects(e, type) == wire[e] # <<>> /\ Head(wire[e]).type = type

\* e reads its next message and sends the messages ms.
Reads(e, ms) ==
  wire' = [wire EXCEPT ![e] = Tail(@), ![Other[e]] = @ \o ms]

\* e computes its set from the manifest m it received and the gate of this moment.
Computes(e, m) ==
  /\ ours' = [ours EXCEPT ![e] = Intersection(manifest[e], m, gate[e])]
  /\ asked' = [asked EXCEPT ![e] = gate[e]]

InitiatorOffers ==
  /\ pc["init"] = "start"
  /\ Goto("init", "wantOffer")
  /\ wire' = [wire EXCEPT !["resp"] = Append(@, Offer("init"))]
  /\ UNCHANGED <<manifest, gate, broken, remote, ours, asked, final>>

\* Mutant: the responder answers an OFFER only when it has the CONFIRM.
ResponderOffersLate ==
  /\ pc["resp"] = "wantOffer" /\ Expects("resp", "OFFER")
  /\ Goto("resp", "wantConfirm")
  /\ remote' = [remote EXCEPT !["resp"] = Head(wire["resp"]).manifest]
  /\ Reads("resp", <<>>)
  /\ UNCHANGED <<manifest, gate, broken, ours, asked, final>>

ResponderOffers ==
  /\ pc["resp"] = "wantOffer" /\ Expects("resp", "OFFER")
  /\ Goto("resp", "wantConfirm")
  /\ remote' = [remote EXCEPT !["resp"] = Head(wire["resp"]).manifest]
  /\ Reads("resp", <<Offer("resp")>>)
  /\ UNCHANGED <<manifest, gate, broken, ours, asked, final>>

InitiatorConfirms ==
  /\ pc["init"] = "wantOffer" /\ Expects("init", "OFFER")
  /\ Goto("init", "wantConfirm")
  /\ remote' = [remote EXCEPT !["init"] = Head(wire["init"]).manifest]
  /\ Computes("init", remote'["init"])
  /\ Reads("init", <<Confirm(ours'["init"])>>)
  /\ UNCHANGED <<manifest, gate, broken, final>>

\* The responder has the initiator's set before it computes its own.
ResponderEnds ==
  /\ pc["resp"] = "wantConfirm" /\ Expects("resp", "CONFIRM")
  /\ Goto("resp", "ended")
  /\ Computes("resp", remote["resp"])
  /\ final' = [final EXCEPT !["resp"] = Final(ours'["resp"], Head(wire["resp"]).set)]
  /\ Reads("resp", <<Confirm(ours'["resp"])>>)
  /\ UNCHANGED <<manifest, gate, broken, remote>>

\* Mutant: the answer's set is not looked at.
InitiatorEndsOwn ==
  /\ pc["init"] = "wantConfirm" /\ Expects("init", "CONFIRM")
  /\ Goto("init", "ended")
  /\ final' = [final EXCEPT !["init"] = ours["init"]]
  /\ Reads("init", <<>>)
  /\ UNCHANGED <<manifest, gate, broken, remote, ours, asked>>

InitiatorEnds ==
  /\ pc["init"] = "wantConfirm" /\ Expects("init", "CONFIRM")
  /\ Goto("init", "ended")
  /\ final' = [final EXCEPT !["init"] = Final(ours["init"], Head(wire["init"]).set)]
  /\ Reads("init", <<>>)
  /\ UNCHANGED <<manifest, gate, broken, remote, ours, asked>>

\* A read fails on a broken socket, even when a message was still on its way; the
\* transport, and with it the socket, is dropped with the session.
Fails(e) ==
  /\ pc[e] \in {"start", "wantOffer", "wantConfirm"}
  /\ broken
  /\ Goto(e, "failed")
  /\ UNCHANGED <<manifest, gate, wire, broken, remote, ours, asked, final>>

\* A read took longer than io_timeout, or the network gave up.
Breaks ==
  /\ ~broken
  /\ \E e \in Ends : pc[e] # "ended"
  /\ broken' = TRUE
  /\ UNCHANGED <<manifest, gate, pc, wire, remote, ours, asked, final>>

\* The user changes what a group may do.
GateChanges(e) ==
  /\ pc[e] \in {"start", "wantOffer", "wantConfirm"}
  /\ \E c \in Cap :
       gate' = [gate EXCEPT ![e] = IF c \in @ THEN @ \ {c} ELSE @ \cup {c}]
  /\ UNCHANGED <<manifest, pc, wire, broken, remote, ours, asked, final>>

Protocol ==
  \/ InitiatorOffers \/ ResponderOffers
  \/ InitiatorConfirms \/ ResponderEnds \/ InitiatorEnds

Next == Protocol \/ Breaks \/ \E e \in Ends : Fails(e) \/ GateChanges(e)

Spec == Init /\ [][Next]_vars

\* Each end keeps reading, and a read on a broken socket returns an error.
Fairness == WF_vars(Protocol) /\ \A e \in Ends : WF_vars(Fails(e))

FairSpec == Spec /\ Fairness

--------------------------------------------------------------------------------
(* Properties.                                                                *)

Sets == UNION {[D -> Limits] : D \in SUBSET Cap}

Messages ==
  [type : {"OFFER"}, manifest : Manifests] \cup [type : {"CONFIRM"}, set : Sets]

TypeOK ==
  /\ manifest \in [Ends -> Manifests]
  /\ gate \in [Ends -> SUBSET Cap]
  /\ pc \in [Ends -> {"start", "wantOffer", "wantConfirm", "ended", "failed"}]
  /\ wire \in [Ends -> Seq(Messages)]
  /\ broken \in BOOLEAN
  /\ remote \in [Ends -> Manifests]
  /\ ours \in [Ends -> Sets]
  /\ asked \in [Ends -> SUBSET Cap]
  /\ final \in [Ends -> Sets]

\* Two ends that both finish hold the same capabilities with the same parameters,
\* although each computed its own set from its own gate at its own time.
Agreement ==
  (\A e \in Ends : pc[e] = "ended") => final["init"] = final["resp"]

\* What an end activates both ends permitted: the gate of the end on the other
\* side of the wire counts as much as one's own.
Consented ==
  \A e \in Ends : pc[e] = "ended" =>
    \A c \in DOMAIN final[e] \ {Heartbeat} : \A f \in Ends : c \in asked[f]

\* The initiator never has a session the responder does not have; the responder
\* may be left with one whose CONFIRM was lost.
ResponderFirst == pc["init"] = "ended" => pc["resp"] = "ended"

\* No parameter in force is looser than what either manifest declares for it.
MostRestrictive ==
  \A e \in Ends : pc[e] = "ended" =>
    \A c \in DOMAIN final[e] : \A f \in Ends :
      LET declared == manifest[f][c].limit IN
      declared # 0 => final[e][c] # 0 /\ final[e][c] <= declared

\* An exchange whose socket holds never ends with an end stuck waiting for the
\* other: both finish.
Completes == []~broken => <>(\A e \in Ends : pc[e] = "ended")

--------------------------------------------------------------------------------
(* The exchange implements SessionAgreement.                                  *)

Pending   == [state |-> "pending"]
Failed    == [state |-> "failed"]
Agreed(s) == [state |-> "ended", set |-> s]
Values    == {Agreed(s) : s \in Sets}

\* What an end has come to.
Outcome(e) ==
  CASE pc[e] = "ended"  -> Agreed(final[e])
    [] pc[e] = "failed" -> Failed
    [] OTHER            -> Pending

Abstract == INSTANCE SessionAgreement WITH outcome <- [e \in Ends |-> Outcome(e)]

\* Every step of the exchange is a step of the agreement: the responder settles,
\* the initiator learns exactly that, or an end without an outcome fails.
ImplementsAgreement == Abstract!Spec

================================================================================
