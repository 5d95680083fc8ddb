----------------------------- MODULE Session_proofs ----------------------------
(* Theorems about the sessions of two nodes: the exchange on one socket, for    *)
(* any capabilities, manifests and gates, and the choice between sockets that   *)
(* rests on what an exchange promises, for any sockets dialled by either node.  *)
EXTENDS SessionExchange, Glare, TLAPS

--------------------------------------------------------------------------------
(* The exchange: facts about the operators it is built from.                   *)

LEMMA MessageFields ==
  /\ \A e \in Ends : Offer(e).manifest = manifest[e]
  /\ \A s : Confirm(s).set = s
BY DEF Offer, Confirm

LEMMA OneMessage ==
  ASSUME NEW x
  PROVE  /\ <<x>> # <<>> /\ Head(<<x>>) = x /\ Tail(<<x>>) = <<>>
         /\ Append(<<>>, x) = <<x>> /\ <<>> \o <<x>> = <<x>> /\ <<>> \o <<>> = <<>>
OBVIOUS

LEMMA ReconcileFacts ==
  ASSUME NEW a \in Limits, NEW b \in Limits
  PROVE  /\ Reconcile(a, b) \in Limits
         /\ Reconcile(a, b) = Reconcile(b, a)
         /\ a # 0 => Reconcile(a, b) # 0 /\ Reconcile(a, b) <= a
BY LimitsAssumption DEF Reconcile

LEMMA SetsFacts ==
  /\ \A D \in SUBSET Cap : \A s \in [D -> Limits] : s \in Sets
  /\ \A s \in Sets : DOMAIN s \in SUBSET Cap /\ s \in [DOMAIN s -> Limits]
<1>1. ASSUME NEW D \in SUBSET Cap, NEW s \in [D -> Limits] PROVE s \in Sets
  BY Zenon DEF Sets
<1>2. ASSUME NEW s \in Sets PROVE DOMAIN s \in SUBSET Cap /\ s \in [DOMAIN s -> Limits]
  <2>1. PICK D \in SUBSET Cap : s \in [D -> Limits]
    BY Zenon DEF Sets
  <2>2. QED
    BY <2>1
<1>3. QED
  BY <1>1, <1>2

\* The set s has no parameter that is looser than what m declares.
Within(s, m) ==
  \A c \in DOMAIN s : m[c].limit # 0 => s[c] # 0 /\ s[c] <= m[c].limit

(* Both ends reconcile the same two sets, in opposite order, and loosen       *)
(* nothing.                                                                   *)
LEMMA FinalWithin ==
  ASSUME NEW s \in Sets, NEW t \in Sets, NEW m \in Manifests, Within(s, m),
         \A c \in DOMAIN s : m[c] \in Declarations
  PROVE  Within(Final(s, t), m)
<1> SUFFICES ASSUME NEW c \in DOMAIN Final(s, t), m[c].limit # 0
             PROVE  Final(s, t)[c] # 0 /\ Final(s, t)[c] <= m[c].limit
  BY DEF Within
<1>1. c \in DOMAIN s /\ c \in DOMAIN t /\ Final(s, t)[c] = Reconcile(s[c], t[c])
  BY DEF Final
<1>2. s[c] \in Limits /\ t[c] \in Limits /\ m[c].limit \in Limits
  BY <1>1, SetsFacts DEF Declarations
<1>3. s[c] # 0 /\ s[c] <= m[c].limit
  BY <1>1 DEF Within
<1>4. Reconcile(s[c], t[c]) # 0 /\ Reconcile(s[c], t[c]) <= s[c]
  BY <1>2, <1>3, ReconcileFacts
<1>5. Reconcile(s[c], t[c]) \in Nat /\ s[c] \in Nat /\ m[c].limit \in Nat
  BY <1>2, ReconcileFacts, LimitsAssumption
<1>6. Reconcile(s[c], t[c]) <= m[c].limit
  BY <1>3, <1>4, <1>5
<1>7. QED
  BY <1>1, <1>4, <1>6

LEMMA FinalCommutes ==
  ASSUME NEW s \in Sets, NEW t \in Sets
  PROVE  Final(s, t) = Final(t, s) /\ Final(s, t) \in Sets
<1>1. /\ DOMAIN s \in SUBSET Cap /\ DOMAIN t \in SUBSET Cap
      /\ s \in [DOMAIN s -> Limits] /\ t \in [DOMAIN t -> Limits]
  BY SetsFacts
<1>2. \A c \in DOMAIN s \cap DOMAIN t :
        Reconcile(s[c], t[c]) = Reconcile(t[c], s[c]) /\ Reconcile(s[c], t[c]) \in Limits
  BY <1>1, ReconcileFacts
<1>3. Final(s, t) = Final(t, s)
  BY <1>2 DEF Final
<1>4. Final(s, t) \in [DOMAIN s \cap DOMAIN t -> Limits]
  BY <1>2 DEF Final
<1>5. DOMAIN s \cap DOMAIN t \in SUBSET Cap
  BY <1>1
<1>6. QED
  BY <1>3, <1>4, <1>5, SetsFacts

LEMMA CommonCommutes ==
  ASSUME NEW m, NEW n
  PROVE  Common(m, n) = Common(n, m)
BY DEF Common, RolesMatch

LEMMA IntersectionFacts ==
  ASSUME NEW m \in Manifests, NEW n \in Manifests, NEW permitted \in SUBSET Cap
  PROVE  /\ Intersection(m, n, permitted) \in Sets
         /\ DOMAIN Intersection(m, n, permitted) \ {Heartbeat} \subseteq permitted
         /\ DOMAIN Intersection(m, n, permitted) \subseteq Common(m, n)
         /\ Within(Intersection(m, n, permitted), m)
         /\ Within(Intersection(m, n, permitted), n)
<1> DEFINE D == {x \in Common(m, n) : x = Heartbeat \/ x \in permitted}
<1>1. D \in SUBSET Cap
  BY DEF Common
<1>2. \A c \in D : m[c].limit \in Limits /\ n[c].limit \in Limits
  BY DEF Common, Manifests, Declarations
<1>3. \A c \in D : Reconcile(m[c].limit, n[c].limit) \in Limits
  BY <1>2, ReconcileFacts
<1>4. Intersection(m, n, permitted) \in [D -> Limits]
  BY <1>3 DEF Intersection
<1>5. Intersection(m, n, permitted) \in Sets
  BY <1>1, <1>4, SetsFacts
<1>6. \A c \in D : Intersection(m, n, permitted)[c] = Reconcile(m[c].limit, n[c].limit)
  BY DEF Intersection
<1>7. ASSUME NEW c \in D PROVE
        /\ m[c].limit # 0 => /\ Intersection(m, n, permitted)[c] # 0
                             /\ Intersection(m, n, permitted)[c] <= m[c].limit
        /\ n[c].limit # 0 => /\ Intersection(m, n, permitted)[c] # 0
                             /\ Intersection(m, n, permitted)[c] <= n[c].limit
  BY <1>2, <1>6, ReconcileFacts
<1>8. DOMAIN Intersection(m, n, permitted) = D
  BY <1>4
<1>9. QED
  BY <1>5, <1>7, <1>8 DEF Within

--------------------------------------------------------------------------------
(* The exchange goes through six phases: at most one message is on its way,   *)
(* and it is the one the next end waits for.                                  *)

\* An end is at this point of its code, or has failed there or before.
At(e, label) == pc[e] \in {label, "failed"}

\* The set an end has computed and what it was computed from.
Computed(e) ==
  /\ ours[e] \in Sets
  /\ DOMAIN ours[e] \ {Heartbeat} \subseteq asked[e]
  /\ DOMAIN ours[e] \subseteq Common(manifest["init"], manifest["resp"])
  /\ \A f \in Ends : Within(ours[e], manifest[f])

Silent == wire["init"] = <<>> /\ wire["resp"] = <<>>

Idle     == At("init", "start") /\ At("resp", "wantOffer") /\ Silent

Offering == /\ At("init", "wantOffer") /\ At("resp", "wantOffer")
            /\ wire["init"] = <<>> /\ wire["resp"] = <<Offer("init")>>

Answering == /\ At("init", "wantOffer") /\ At("resp", "wantConfirm")
             /\ wire["init"] = <<Offer("resp")>> /\ wire["resp"] = <<>>
             /\ remote["resp"] = manifest["init"]

Confirming == /\ At("init", "wantConfirm") /\ At("resp", "wantConfirm")
              /\ wire["init"] = <<>> /\ wire["resp"] = <<Confirm(ours["init"])>>
              /\ Computed("init") /\ remote["resp"] = manifest["init"]

Confirmed == /\ At("init", "wantConfirm") /\ pc["resp"] = "ended"
           /\ wire["init"] = <<Confirm(ours["resp"])>> /\ wire["resp"] = <<>>
           /\ Computed("init") /\ Computed("resp")
           /\ final["resp"] = Final(ours["resp"], ours["init"])

Finished == /\ pc["init"] = "ended" /\ pc["resp"] = "ended" /\ Silent
            /\ Computed("init") /\ Computed("resp")
            /\ final["resp"] = Final(ours["resp"], ours["init"])
            /\ final["init"] = Final(ours["init"], ours["resp"])

Phases == Idle \/ Offering \/ Answering \/ Confirming \/ Confirmed \/ Finished

\* The variables apart from the wire.
Data ==
  /\ manifest \in [Ends -> Manifests]
  /\ gate \in [Ends -> SUBSET Cap]
  /\ pc \in [Ends -> {"start", "wantOffer", "wantConfirm", "ended", "failed"}]
  /\ broken \in BOOLEAN
  /\ remote \in [Ends -> Manifests]
  /\ ours \in [Ends -> Sets]
  /\ asked \in [Ends -> SUBSET Cap]
  /\ final \in [Ends -> Sets]

TwoWires == DOMAIN wire = Ends /\ wire = [e \in Ends |-> wire[e]]

DataOK == Data /\ TwoWires

Inv == DataOK /\ Phases

LEMMA EmptySet == NoSet \in Sets
<1>1. NoSet \in [{} -> Limits]
  BY DEF NoSet
<1>2. QED
  BY <1>1, SetsFacts

LEMMA InitInv == Init => Inv
<1>1. ASSUME Init PROVE DataOK
  <2>1. NoManifest \in Manifests
    BY DEF NoManifest, Manifests
  <2>2. wire = [e \in Ends |-> <<>>]
    BY <1>1 DEF Init
  <2>3. DOMAIN wire = Ends /\ wire = [e \in Ends |-> wire[e]]
    BY <2>2
  <2>4. Data
    <3>1. /\ remote \in [Ends -> Manifests]
          /\ ours \in [Ends -> Sets] /\ final \in [Ends -> Sets]
      BY <1>1, <2>1, EmptySet DEF Init
    <3>2. pc \in [Ends -> {"start", "wantOffer", "wantConfirm", "ended", "failed"}]
      BY <1>1 DEF Init, Ends
    <3>3. QED
      BY <1>1, <3>1, <3>2 DEF Init, Data
  <2>5. QED
    BY <2>3, <2>4 DEF DataOK, TwoWires
<1>2. ASSUME Init PROVE Idle
  BY <1>2 DEF Init, Idle, At, Silent, Ends
<1>3. QED
  BY <1>1, <1>2 DEF Inv, Phases

LEMMA StepInv == ASSUME Inv, [Next]_vars PROVE Inv'
<1> USE DEF Inv, DataOK, Ends, At, Silent, Goto, Reads, Expects, Other
<1>1. CASE InitiatorOffers
  <2>1. Idle
    BY <1>1 DEF InitiatorOffers, Phases, Idle, Offering, Answering, Confirming, Confirmed,
       Finished, Data, TwoWires
  <2>2. Offering'
    BY <1>1, <2>1, OneMessage DEF InitiatorOffers, Idle, Offering, Data, TwoWires, Offer
  <2>3. DataOK'
    BY <1>1 DEF InitiatorOffers, Data, TwoWires
  <2>4. QED
    BY <2>2, <2>3 DEF Phases
<1>2. CASE ResponderOffers
  <2>1. Offering /\ pc["resp"] = "wantOffer" /\ Head(wire["resp"]) = Offer("init")
    BY <1>2, OneMessage DEF ResponderOffers, Phases, Idle, Offering, Answering, Confirming,
       Confirmed, Finished, Data, TwoWires
  <2>2. remote' = [remote EXCEPT !["resp"] = manifest["init"]]
    BY <1>2, <2>1, MessageFields DEF ResponderOffers
  <2>3. Answering'
    BY <1>2, <2>1, <2>2, OneMessage DEF ResponderOffers, Offering, Answering, Data, TwoWires, Offer
  <2>4. DataOK'
    BY <1>2, <2>2 DEF ResponderOffers, Data, TwoWires
  <2>5. QED
    BY <2>3, <2>4 DEF Phases
<1>3. CASE InitiatorConfirms
  <2>1. Answering /\ pc["init"] = "wantOffer" /\ Head(wire["init"]) = Offer("resp")
    BY <1>3, OneMessage DEF InitiatorConfirms, Phases, Idle, Offering, Answering, Confirming,
       Confirmed, Finished, Data, TwoWires
  <2> remote' = [remote EXCEPT !["init"] = manifest["resp"]]
    BY <1>3, <2>1, MessageFields DEF InitiatorConfirms
  <2> remote'["init"] = manifest["resp"]
    BY DEF Data, TwoWires
  <2>2. /\ ours' = [ours EXCEPT !["init"] =
                      Intersection(manifest["init"], manifest["resp"], gate["init"])]
        /\ asked' = [asked EXCEPT !["init"] = gate["init"]]
    BY <1>3 DEF InitiatorConfirms, Computes
  <2>3. DataOK' /\ Computed("init")'
    BY <1>3, <2>2, IntersectionFacts DEF InitiatorConfirms, Data, TwoWires, Computed
  <2>4. Confirming'
    <3>1. wire' = [wire EXCEPT !["init"] = <<>>, !["resp"] = <<Confirm(ours'["init"])>>]
      BY <1>3, <2>1, OneMessage DEF InitiatorConfirms, Answering, TwoWires
    <3>2. wire'["init"] = <<>> /\ wire'["resp"] = <<Confirm(ours'["init"])>>
      BY <3>1 DEF TwoWires
    <3>3. At("init", "wantConfirm")' /\ At("resp", "wantConfirm")'
      BY <1>3, <2>1 DEF InitiatorConfirms, Answering, Data
    <3>4. remote'["resp"] = manifest'["init"]
      BY <1>3, <2>1 DEF InitiatorConfirms, Answering, Data
    <3>5. QED
      BY <2>3, <3>2, <3>3, <3>4 DEF Confirming, Confirm
  <2>5. QED
    BY <2>3, <2>4 DEF Phases
<1>4. CASE ResponderEnds
  <2>1. /\ Confirming /\ pc["resp"] = "wantConfirm"
        /\ Head(wire["resp"]) = Confirm(ours["init"])
    BY <1>4, OneMessage DEF ResponderEnds, Phases, Idle, Offering, Answering, Confirming,
       Confirmed, Finished, Data, TwoWires, Offer
  <2>2. /\ ours' = [ours EXCEPT !["resp"] =
                      Intersection(manifest["resp"], remote["resp"], gate["resp"])]
        /\ asked' = [asked EXCEPT !["resp"] = gate["resp"]]
        /\ final' = [final EXCEPT !["resp"] = Final(ours'["resp"], ours["init"])]
    BY <1>4, <2>1, MessageFields DEF ResponderEnds, Computes
  <2>3. ours'["resp"] \in Sets /\ ours'["init"] = ours["init"]
    BY <2>2, IntersectionFacts DEF Data
  <2> manifest' = manifest /\ remote["resp"] = manifest["init"]
    BY <1>4, <2>1 DEF ResponderEnds, Confirming
  <2> ours'["resp"] = Intersection(manifest["resp"], manifest["init"], gate["resp"])
    BY <2>2 DEF Data
  <2> Computed("resp")'
    <3>1. asked'["resp"] = gate["resp"]
      BY <2>2 DEF Data
    <3>2. manifest["resp"] \in Manifests /\ manifest["init"] \in Manifests
          /\ gate["resp"] \in SUBSET Cap
      BY DEF Data
    <3>3. QED
      BY <2>3, <3>1, <3>2, IntersectionFacts, CommonCommutes DEF Computed
  <2> Final(ours'["resp"], ours["init"]) \in Sets
    BY <2>3, FinalCommutes DEF Data, TwoWires
  <2>4. DataOK'
    <3>1. final' \in [Ends -> Sets]
      BY <2>2 DEF Data
    <3>2. ours' \in [Ends -> Sets] /\ asked' \in [Ends -> SUBSET Cap]
      BY <2>2, <2>3 DEF Data
    <3>3. pc' \in [Ends -> {"start", "wantOffer", "wantConfirm", "ended", "failed"}]
      BY <1>4 DEF ResponderEnds, Data
    <3>4. TwoWires'
      BY <1>4 DEF ResponderEnds, TwoWires
    <3>5. QED
      BY <1>4, <3>1, <3>2, <3>3, <3>4 DEF ResponderEnds, Data
  <2>5. Confirmed'
    <3>1. Computed("init")'
      <4>1. asked'["init"] = asked["init"]
        BY <2>2 DEF Data
      <4>2. QED
        BY <2>1, <2>3, <4>1 DEF Confirming, Computed
    <3>2. wire' = [wire EXCEPT !["resp"] = <<>>, !["init"] = <<Confirm(ours'["resp"])>>]
      BY <1>4, <2>1, OneMessage DEF ResponderEnds, Confirming, Data, TwoWires
    <3>3. wire'["init"] = <<Confirm(ours'["resp"])>> /\ wire'["resp"] = <<>>
      BY <3>2 DEF Data, TwoWires
    <3>4. QED
      BY <1>4, <2>1, <2>2, <2>3, <3>1, <3>3 DEF ResponderEnds, Confirming, Confirmed, Data, TwoWires, Confirm
  <2>6. QED
    BY <2>4, <2>5 DEF Phases
<1>5. CASE InitiatorEnds
  <2>1. /\ Confirmed /\ pc["init"] = "wantConfirm"
        /\ Head(wire["init"]) = Confirm(ours["resp"])
    BY <1>5, OneMessage DEF InitiatorEnds, Phases, Idle, Offering, Answering, Confirming,
       Confirmed, Finished, Data, TwoWires, Offer
  <2>2. final' = [final EXCEPT !["init"] = Final(ours["init"], ours["resp"])]
    BY <1>5, <2>1, MessageFields DEF InitiatorEnds
  <2> Final(ours["init"], ours["resp"]) \in Sets
    BY FinalCommutes DEF Data, TwoWires
  <2>3. DataOK'
    <3>1. final' \in [Ends -> Sets]
      BY <2>2 DEF Data
    <3>2. pc' \in [Ends -> {"start", "wantOffer", "wantConfirm", "ended", "failed"}]
      BY <1>5 DEF InitiatorEnds, Data
    <3>3. TwoWires'
      BY <1>5 DEF InitiatorEnds, TwoWires
    <3>4. QED
      BY <1>5, <3>1, <3>2, <3>3 DEF InitiatorEnds, Data
  <2>4. Finished'
    BY <1>5, <2>1, <2>2, OneMessage DEF InitiatorEnds, Confirmed, Finished, Data, TwoWires, Computed
  <2>5. QED
    BY <2>3, <2>4 DEF Phases
<1>6. ASSUME NEW e \in Ends, Fails(e) PROVE Inv'
  <2>1. DataOK'
    BY <1>6 DEF Fails, Data, TwoWires
  <2>2. Phases'
    BY <1>6 DEF Fails, Phases, Idle, Offering, Answering, Confirming, Confirmed, Finished,
       Data, TwoWires, Offer, Confirm, Computed
  <2>3. QED
    BY <2>1, <2>2
<1>7. CASE Breaks
  BY <1>7 DEF Breaks, Phases, Idle, Offering, Answering, Confirming, Confirmed, Finished,
     Data, TwoWires, Offer, Confirm, Computed
<1>8. ASSUME NEW e \in Ends, GateChanges(e) PROVE Inv'
  <2>1. DataOK'
    BY <1>8 DEF GateChanges, Data, TwoWires
  <2>2. Phases'
    BY <1>8 DEF GateChanges, Phases, Idle, Offering, Answering, Confirming, Confirmed,
       Finished, Offer, Confirm, Computed
  <2>3. QED
    BY <2>1, <2>2
<1>9. CASE UNCHANGED vars
  BY <1>9 DEF vars, Phases, Idle, Offering, Answering, Confirming, Confirmed, Finished,
     Data, TwoWires, Offer, Confirm, Computed
<1>10. QED
  BY <1>1, <1>2, <1>3, <1>4, <1>5, <1>6, <1>7, <1>8, <1>9 DEF Next, Protocol

(* In every reachable state the exchange is in one of its six phases.         *)
THEOREM InvInductive == Spec => []Inv
<1>1. QED
  BY InitInv, StepInv, PTL DEF Spec

--------------------------------------------------------------------------------
(* What the six phases say about two ends.                                    *)

\* An end that has ended is in one of the last two phases.
LEMMA EndedPhases ==
  ASSUME Inv
  PROVE  /\ pc["init"] = "ended" => Finished
         /\ pc["resp"] = "ended" => Confirmed \/ Finished
BY DEF Inv, Phases, Idle, Offering, Answering, Confirming, Confirmed, Finished, At

\* With the responder's end the sets both computed are fixed.
LEMMA EndedSets ==
  ASSUME Inv, NEW e \in Ends, pc[e] = "ended"
  PROVE  /\ Computed("init") /\ Computed("resp")
         /\ final[e] = Final(ours[e], ours[Other[e]]) /\ Other[e] \in Ends
BY EndedPhases DEF Confirmed, Finished, Ends, Other

LEMMA InvAgreement == Inv => Agreement
<1> SUFFICES ASSUME Inv, \A e \in Ends : pc[e] = "ended"
             PROVE  final["init"] = final["resp"]
  BY DEF Agreement
<1>1. Finished
  BY EndedPhases DEF Ends
<1>2. QED
  BY <1>1, FinalCommutes DEF Finished, Computed

LEMMA InvResponderFirst == Inv => ResponderFirst
BY EndedPhases DEF ResponderFirst, Finished

LEMMA InvConsented == Inv => Consented
<1> SUFFICES ASSUME Inv, NEW e \in Ends, pc[e] = "ended",
                    NEW c \in DOMAIN final[e] \ {Heartbeat}, NEW f \in Ends
             PROVE  c \in asked[f]
  BY DEF Consented
<1>1. c \in DOMAIN ours["init"] /\ c \in DOMAIN ours["resp"]
  BY EndedSets DEF Final, Ends, Other
<1>2. QED
  BY <1>1, EndedSets DEF Computed, Ends

LEMMA InvMostRestrictive == Inv => MostRestrictive
<1> SUFFICES ASSUME Inv, NEW e \in Ends, pc[e] = "ended",
                    NEW c \in DOMAIN final[e], NEW f \in Ends,
                    manifest[f][c].limit # 0
             PROVE  final[e][c] # 0 /\ final[e][c] <= manifest[f][c].limit
  BY DEF MostRestrictive
<1>1. Computed(e) /\ Computed(Other[e]) /\ final[e] = Final(ours[e], ours[Other[e]])
  BY EndedSets DEF Ends, Other
<1>2. ours[e] \in Sets /\ ours[Other[e]] \in Sets /\ manifest[f] \in Manifests
  BY <1>1 DEF Computed, Inv, DataOK, Data
<1>3. \A x \in DOMAIN ours[e] : manifest[f][x] \in Declarations
  BY <1>1, <1>2 DEF Computed, Common, Manifests, Ends
<1>4. Within(ours[e], manifest[f])
  BY <1>1 DEF Computed
<1>5. Within(final[e], manifest[f])
  BY <1>1, <1>2, <1>3, <1>4, FinalWithin
<1>6. QED
  BY <1>5 DEF Within

LEMMA InvTypeOK == Inv => TypeOK
<1> SUFFICES ASSUME Inv PROVE wire \in [Ends -> Seq(Messages)]
  BY DEF Inv, DataOK, Data, TypeOK
<1>1. \A e \in Ends : Offer(e) \in Messages
  BY DEF Inv, DataOK, Data, Offer, Messages
<1>2. \A e \in Ends : Confirm(ours[e]) \in Messages
  BY DEF Inv, DataOK, Data, Confirm, Messages
<1>3. <<>> \in Seq(Messages) /\ \A m \in Messages : <<m>> \in Seq(Messages)
  OBVIOUS
<1>4. wire["init"] \in Seq(Messages) /\ wire["resp"] \in Seq(Messages)
  <2>1. CASE Idle \/ Finished
    BY <2>1, <1>3 DEF Idle, Finished, Silent
  <2>2. CASE Offering \/ Answering
    BY <2>2, <1>1, <1>3 DEF Offering, Answering, Ends
  <2>3. CASE Confirming \/ Confirmed
    BY <2>3, <1>2, <1>3 DEF Confirming, Confirmed, Ends
  <2>4. QED
    BY <2>1, <2>2, <2>3 DEF Inv, Phases
<1>5. wire = [e \in Ends |-> wire[e]]
  BY DEF Inv, DataOK, TwoWires
<1>6. QED
  BY <1>4, <1>5 DEF Ends

(* Every variable keeps its type; both wires carry messages only.             *)
THEOREM TypeCorrect == Spec => []TypeOK
<1>1. QED
  BY InvInductive, InvTypeOK, PTL

(* Both ends that finish hold the same capabilities and parameters.           *)
THEOREM ExchangeAgrees == Spec => []Agreement
<1>1. QED
  BY InvInductive, InvAgreement, PTL

(* The initiator only has a session the responder has.                        *)
THEOREM ResponderHasIt == Spec => []ResponderFirst
<1>1. QED
  BY InvInductive, InvResponderFirst, PTL

(* Nothing becomes active that one of the two gates did not permit.           *)
THEOREM BothConsented == Spec => []Consented
<1>1. QED
  BY InvInductive, InvConsented, PTL

(* No parameter in force is looser than what a manifest declares for it.      *)
THEOREM NothingLoosened == Spec => []MostRestrictive
<1>1. QED
  BY InvInductive, InvMostRestrictive, PTL

--------------------------------------------------------------------------------
(* The exchange implements SessionAgreement.                                  *)

\* What the outcome says, end by end.
LEMMA Outcomes ==
  /\ \A e \in Ends : pc[e] = "ended" => Outcome(e) = Agreed(final[e])
  /\ \A e \in Ends : pc[e] = "failed" => Outcome(e) = Failed
  /\ \A e \in Ends : pc[e] \notin {"ended", "failed"} => Outcome(e) = Pending
BY DEF Outcome

\* An end that moved on without ending keeps its outcome.
LEMMA SameOutcome ==
  ASSUME NEW e \in Ends,
         \/ pc[e] = pc'[e] /\ final[e] = final'[e]
         \/ pc[e] \notin {"ended", "failed"} /\ pc'[e] \notin {"ended", "failed"}
  PROVE  Outcome(e)' = Outcome(e)
BY DEF Outcome

LEMMA NextAgrees == Inv' => Agreement' /\ ResponderFirst'
<1>1. QED
  BY InvAgreement, InvResponderFirst, PTL

LEMMA AbstractStep ==
  ASSUME Inv, Inv', [Next]_vars
  PROVE  [Abstract!Next]_([e \in Ends |-> Outcome(e)])
<1> DEFINE mapped == [e \in Ends |-> Outcome(e)]
<1> mapped' = [e \in Ends |-> Outcome(e)']
  OBVIOUS
<1> USE DEF Ends, Goto, Inv, DataOK
<1>1. CASE InitiatorOffers
  BY <1>1, SameOutcome DEF InitiatorOffers, Data
<1>2. CASE ResponderOffers
  BY <1>2, SameOutcome DEF ResponderOffers, Data
<1>3. CASE InitiatorConfirms
  BY <1>3, SameOutcome DEF InitiatorConfirms, Data
<1>4. CASE ResponderEnds
  <2>1. pc["resp"] = "wantConfirm" /\ pc'["resp"] = "ended" /\ pc'["init"] = pc["init"]
    BY <1>4 DEF ResponderEnds, Data
  <2>2. final'["init"] = final["init"] /\ final'["resp"] \in Sets
    BY <1>4 DEF ResponderEnds, Data
  <2>3. /\ Outcome("resp") = Pending /\ Outcome("resp")' = Agreed(final'["resp"])
        /\ Outcome("init")' = Outcome("init")
    BY <2>1, <2>2, SameOutcome DEF Outcome, Agreed
  <2>4. Agreed(final'["resp"]) \in Values
    BY <2>2 DEF Values
  <2>5. mapped' = [mapped EXCEPT !["resp"] = Agreed(final'["resp"])]
    BY <2>3
  <2>6. mapped["resp"] = Pending
    BY <2>3
  <2>7. QED
    BY <2>4, <2>5, <2>6 DEF Abstract!Next, Abstract!Settles
<1>5. CASE InitiatorEnds
  <2>1. pc["init"] = "wantConfirm" /\ pc'["init"] = "ended" /\ pc'["resp"] = pc["resp"]
    BY <1>5 DEF InitiatorEnds, Data
  <2>2. pc'["resp"] = "ended" /\ final'["init"] = final'["resp"]
    BY <2>1, NextAgrees DEF Agreement, ResponderFirst
  <2>3. final'["resp"] = final["resp"] /\ final["resp"] \in Sets
    BY <1>5 DEF InitiatorEnds, Data
  <2>4. /\ Outcome("init") = Pending /\ Outcome("init")' = Agreed(final["resp"])
        /\ Outcome("resp") = Agreed(final["resp"])
        /\ Outcome("resp")' = Outcome("resp")
    BY <2>1, <2>2, <2>3, SameOutcome DEF Outcome, Agreed
  <2>5. Agreed(final["resp"]) \in Values
    BY <2>3 DEF Values
  <2>6. /\ mapped' = [mapped EXCEPT !["init"] = mapped["resp"]]
        /\ mapped["init"] = Pending /\ mapped["resp"] \in Values
    BY <2>4, <2>5
  <2>7. QED
    BY <2>6 DEF Abstract!Next, Abstract!Learns
<1>6. ASSUME NEW e \in Ends, Fails(e)
      PROVE  Abstract!Next
  <2>1. /\ pc[e] \notin {"ended", "failed"} /\ pc'[e] = "failed"
        /\ \A f \in Ends \ {e} : pc'[f] = pc[f] /\ final'[f] = final[f]
    BY <1>6 DEF Fails, Data
  <2>2. /\ Outcome(e) = Pending /\ Outcome(e)' = Failed
        /\ \A f \in Ends \ {e} : Outcome(f)' = Outcome(f)
    BY <2>1, SameOutcome DEF Outcome
  <2>3. mapped' = [mapped EXCEPT ![e] = Failed] /\ mapped[e] = Pending
    BY <2>2
  <2>4. QED
    BY <2>3 DEF Abstract!Next, Abstract!Fails, Abstract!Ends
<1>7. CASE Breaks
  BY <1>7, SameOutcome DEF Breaks
<1>8. CASE \E e \in Ends : GateChanges(e)
  BY <1>8, SameOutcome DEF GateChanges
<1>9. CASE UNCHANGED vars
  BY <1>9, SameOutcome DEF vars
<1>10. QED
  BY <1>1, <1>2, <1>3, <1>4, <1>5, <1>6, <1>7, <1>8, <1>9 DEF Next, Protocol

(* The exchange implements the agreement: the responder settles the mapped,  *)
(* the initiator can only learn it.                                           *)
THEOREM Implements == Spec => ImplementsAgreement
<1>1. Init => Abstract!Init
  BY DEF Init, Abstract!Init, Abstract!Ends, Ends, Outcome
<1>2. QED
  BY <1>1, AbstractStep, InvInductive, PTL DEF Spec, ImplementsAgreement, Abstract!Spec

--------------------------------------------------------------------------------
(* Glare: what holds even when the runners of a node race and exchanges fail,   *)
(* and what they agree on when none do.                                         *)

\* The transport kept in a session belongs to a runner that yielded; the sender
\* to one that wired.
Apart ==
  \A n \in Nodes, s \in Sock :
    /\ sender[n] = s => stage[n][s] \in {"insert", "done"}
    /\ held[n] = s => stage[n][s] = "done" /\ sender[n] # s

\* Somebody looked at the result of an exchange.
Used(n, s) ==
  \/ stage[n][s] \in {"yield", "insert"}
  \/ stage[n][s] = "done" /\ outcome[s][Role(n, s)] = "ended"

\* Once a runner of n has come past its glare check, n has a sender or a runner
\* is about to store one.
Covered ==
  \A n \in Nodes :
    (\E s \in Sock : Used(n, s)) => sender[n] # NoSock \/ \E t \in Sock : stage[n][t] = "wire"

\* A runner works only once its end of the exchange has an outcome.
Decided ==
  \A n \in Nodes, s \in Sock :
    stage[n][s] # "exchange" => outcome[s][Role(n, s)] # "pending"

GlareInv == GlareTypeOK /\ Apart /\ Decided /\ Covered

LEMMA RoleIsEnd == \A n \in Nodes, s \in Sock : Role(n, s) \in Roles
BY DEF Role, Roles

LEMMA GlareInitInv == GlareInit => GlareInv
<1> SUFFICES ASSUME GlareInit PROVE GlareInv
  OBVIOUS
<1>1. GlareTypeOK
  BY DEF GlareInit, GlareTypeOK, Roles, Results, Pcs
<1>2. Apart /\ Decided
  BY SockAssumption DEF GlareInit, Apart, Decided
<1>3. Covered
  BY DEF GlareInit, Covered, Used
<1>4. QED
  BY <1>1, <1>2, <1>3 DEF GlareInv

\* A step of an exchange changes only an outcome that was pending.
LEMMA ExchangeStep ==
  ASSUME GlareTypeOK, NEW x \in Sock, Exchange(x)
  PROVE  /\ outcome' \in [Sock -> [Roles -> Results]]
         /\ \A s \in Sock, e \in Roles :
              outcome[s][e] # "pending" => outcome'[s][e] = outcome[s][e]
<1>1. PICK r \in [Roles -> Results] : outcome' = [outcome EXCEPT ![x] = r]
  BY DEF Exchange
<1>2. outcome'[x] = r /\ \A s \in Sock \ {x} : outcome'[s] = outcome[s]
  BY <1>1 DEF GlareTypeOK
<1>3. \A e \in Roles : outcome[x][e] # "pending" => r[e] = outcome[x][e]
  BY <1>2 DEF Exchange, ExchangeOf!Next, ExchangeOf!Settles, ExchangeOf!Learns,
     ExchangeOf!Fails, ExchangeOf!Ends, GlareTypeOK, Roles
<1>4. QED
  BY <1>1, <1>2, <1>3 DEF GlareTypeOK

--------------------------------------------------------------------------------
(* Every step keeps the invariant.                                            *)

LEMMA TypeStep == GlareTypeOK /\ [GlareNext]_glareVars => GlareTypeOK'
<1> SUFFICES ASSUME GlareTypeOK, [GlareNext]_glareVars PROVE GlareTypeOK'
  OBVIOUS
<1> USE DEF GlareTypeOK, exchange, table
<1>1. ASSUME NEW s \in Sock, Dial(s) PROVE GlareTypeOK'
  BY <1>1 DEF Dial
<1>2. ASSUME NEW s \in Sock, Exchange(s) PROVE GlareTypeOK'
  <2>1. outcome' \in [Sock -> [Roles -> Results]]
    BY <1>2, ExchangeStep
  <2>2. QED
    BY <1>2, <2>1 DEF Exchange
<1>3. ASSUME NEW n \in Nodes, NEW s \in Sock, Runner(n, s) PROVE GlareTypeOK'
  <2> \A label \in Pcs : GoesTo(n, s, label) => stage' \in [Nodes -> [Sock -> Pcs]]
    BY DEF GoesTo
  <2> \A t \in Sock \cup {NoSock} : StoreSession(n, t) =>
        /\ session' \in [Nodes -> BOOLEAN] /\ held' \in [Nodes -> Sock \cup {NoSock}]
        /\ down' \in SUBSET Sock
    BY DEF StoreSession
  <2>1. CASE ExchangeFails(n, s)
    BY <2>1 DEF ExchangeFails, Pcs
  <2>2. CASE GlareCheck(n, s)
    <3>1. stage' \in [Nodes -> [Sock -> Pcs]]
      BY <2>2 DEF GlareCheck, Pcs
    <3>2. raced' \in [Nodes -> BOOLEAN]
      BY <2>2 DEF GlareCheck, Wiring
    <3>3. QED
      BY <2>2, <3>1, <3>2 DEF GlareCheck
  <2>3. CASE Yield(n, s)
    BY <2>3 DEF Yield, Pcs
  <2>4. CASE Replace(n, s)
    BY <2>4 DEF Replace, Pcs
  <2>5. CASE Wire(n, s)
    BY <2>5 DEF Wire, Pcs
  <2>6. CASE InsertSession(n, s)
    BY <2>6 DEF InsertSession, Pcs
  <2>7. QED
    BY <1>3, <2>1, <2>2, <2>3, <2>4, <2>5, <2>6 DEF Runner
<1>4. ASSUME NEW n \in Nodes, NEW s \in Sock, WriterEnds(n, s) PROVE GlareTypeOK'
  BY <1>4 DEF WriterEnds
<1>5. CASE UNCHANGED glareVars
  BY <1>5 DEF glareVars
<1>6. QED
  BY <1>1, <1>2, <1>3, <1>4, <1>5 DEF GlareNext

\* What one step of a runner does to its node; nothing else changes the other
\* runners, senders and stored transports.
LEMMA RunnerStep ==
  ASSUME GlareTypeOK, NEW n \in Nodes, NEW s \in Sock, Runner(n, s)
  PROVE  /\ outcome' = outcome
         /\ \A m \in Nodes, t \in Sock : <<m, t>> # <<n, s>> => stage'[m][t] = stage[m][t]
         /\ \A m \in Nodes \ {n} : sender'[m] = sender[m] /\ held'[m] = held[m]
         /\ \/ /\ stage[n][s] = "exchange" /\ outcome[s][Role(n, s)] = "failed"
               /\ stage'[n][s] = "done" /\ sender'[n] = sender[n] /\ held'[n] = held[n]
            \/ /\ stage[n][s] = "exchange" /\ outcome[s][Role(n, s)] = "ended"
               /\ stage'[n][s] \in {"yield", "replace", "wire"}
               /\ stage'[n][s] = "yield" => sender[n] # NoSock
               /\ sender'[n] = sender[n] /\ held'[n] = held[n]
            \/ /\ stage[n][s] = "yield" /\ stage'[n][s] = "done"
               /\ sender'[n] = sender[n] /\ held'[n] = s
            \/ /\ stage[n][s] = "replace" /\ stage'[n][s] = "wire"
               /\ sender'[n] = NoSock /\ held'[n] = held[n]
            \/ /\ stage[n][s] = "wire" /\ stage'[n][s] = "insert"
               /\ sender'[n] = s /\ held'[n] = held[n]
            \/ /\ stage[n][s] = "insert" /\ stage'[n][s] = "done"
               /\ sender'[n] = sender[n] /\ held'[n] = NoSock
<1> USE DEF GlareTypeOK, exchange, table, GoesTo
<1>1. CASE ExchangeFails(n, s)
  BY <1>1 DEF ExchangeFails
<1>2. CASE GlareCheck(n, s)
  BY <1>2 DEF GlareCheck, Alive
<1>3. CASE Yield(n, s)
  BY <1>3 DEF Yield, StoreSession
<1>4. CASE Replace(n, s)
  BY <1>4 DEF Replace
<1>5. CASE Wire(n, s)
  BY <1>5 DEF Wire
<1>6. CASE InsertSession(n, s)
  BY <1>6 DEF InsertSession, StoreSession
<1>7. QED
  BY <1>1, <1>2, <1>3, <1>4, <1>5, <1>6 DEF Runner

LEMMA GlareStepInv == GlareInv /\ [GlareNext]_glareVars => GlareInv'
<1> SUFFICES ASSUME GlareInv, [GlareNext]_glareVars PROVE Apart' /\ Decided' /\ Covered'
  BY TypeStep DEF GlareInv
<1> GlareTypeOK /\ Apart /\ Decided /\ Covered
  BY DEF GlareInv
<1>1. ASSUME NEW n \in Nodes, NEW s \in Sock, Runner(n, s)
      PROVE  Apart' /\ Decided' /\ Covered'
  <2>1. Apart'
    BY <1>1, RunnerStep, SockAssumption DEF Apart
  <2>2. Decided'
    BY <1>1, RunnerStep DEF Decided
  <2>3. Covered'
    <3> SUFFICES ASSUME NEW m \in Nodes, NEW u \in Sock, Used(m, u)'
                 PROVE  sender'[m] # NoSock \/ \E t \in Sock : stage'[m][t] = "wire"
      BY DEF Covered
    <3>1. CASE m # n
      BY <1>1, <3>1, RunnerStep DEF Covered, Used
    <3>2. CASE m = n /\ stage'[n][s] = "wire"
      BY <3>2
    <3>3. CASE m = n /\ stage[n][s] = "wire"
      BY <1>1, <3>3, RunnerStep, SockAssumption
    <3>4. CASE m = n /\ stage[n][s] # "wire" /\ stage'[n][s] # "wire"
      BY <1>1, <3>4, RunnerStep DEF Covered, Used
    <3>5. QED
      BY <3>1, <3>2, <3>3, <3>4
  <2>4. QED
    BY <2>1, <2>2, <2>3
<1>2. ASSUME NEW s \in Sock, Exchange(s)
      PROVE  Apart' /\ Decided' /\ Covered'
  <2>1. stage' = stage /\ sender' = sender /\ held' = held
    BY <1>2 DEF Exchange, table
  <2>2. \A m \in Nodes, t \in Sock :
          outcome[t][Role(m, t)] # "pending" => outcome'[t][Role(m, t)] = outcome[t][Role(m, t)]
    BY <1>2, ExchangeStep, RoleIsEnd
  <2>3. Apart' /\ Decided'
    BY <2>1, <2>2 DEF Apart, Decided
  <2>4. \A m \in Nodes, t \in Sock : Used(m, t)' => Used(m, t)
    BY <2>1, <2>2 DEF Used, Decided
  <2>5. QED
    BY <2>1, <2>3, <2>4 DEF Covered
<1>3. ASSUME UNCHANGED <<outcome, stage, sender, held>>
      PROVE  Apart' /\ Decided' /\ Covered'
  BY <1>3 DEF Apart, Decided, Covered, Used
<1>4. QED
  BY <1>1, <1>2, <1>3 DEF GlareNext, Dial, WriterEnds, glareVars, exchange, table

--------------------------------------------------------------------------------
(* The theorems.                                                              *)

THEOREM GlareInductive == GlareSpec => []GlareInv
<1>1. QED
  BY GlareInitInv, GlareStepInv, PTL DEF GlareSpec

(* Every variable keeps its type.                                             *)
THEOREM GlareTypeCorrect == GlareSpec => []GlareTypeOK
<1>1. GlareInv => GlareTypeOK
  BY DEF GlareInv
<1>2. QED
  BY <1>1, GlareInductive, PTL

(* A node for which some exchange ended is left with a socket.                *)
THEOREM NeverLeftBare == GlareSpec => []NeverBare
<1>1. GlareInv => NeverBare
  <2> SUFFICES ASSUME GlareInv, NEW n \in Nodes,
                      \A s \in Sock : stage[n][s] \in {"exchange", "done"},
                      NEW x \in Sock, stage[n][x] = "done",
                      outcome[x][Role(n, x)] = "ended"
               PROVE  sender[n] # NoSock
    BY DEF NeverBare
  <2>1. Used(n, x) /\ Covered
    BY DEF Used, GlareInv
  <2>2. QED
    BY <2>1 DEF Covered
<1>2. QED
  BY <1>1, GlareInductive, PTL

(* No socket is read raw and by a mux at once.                                *)
THEOREM YieldedIsSpare == GlareSpec => []HeldIsSpare
<1>1. GlareInv => HeldIsSpare
  BY SockAssumption DEF GlareInv, GlareTypeOK, Apart, HeldIsSpare
<1>2. QED
  BY <1>1, GlareInductive, PTL

--------------------------------------------------------------------------------
(* Agreement, as long as the runners of a node do not race.                   *)

\* Only sockets that were dialled are worked on, and only dropped ones close.
Grounded ==
  /\ \A s \in Sock, e \in Roles : outcome[s][e] # "pending" => s \in dialled
  /\ \A n \in Nodes, s \in Sock : stage[n][s] # "exchange" => s \in dialled
  /\ down \subseteq dialled
  /\ \A n \in Nodes : closed[n] \subseteq down

\* How far a node is on the way to s: s is never yielded, once it is wired nothing
\* replaces it, and whoever works on another socket does so before s has a result.
Heading(n, s) ==
  /\ stage[n][s] # "yield" /\ held[n] # s
  /\ stage[n][s] \in {"insert", "done"} => sender[n] = s
  /\ \A t \in Sock \ {s} : stage[n][t] \in {"replace", "wire"} => stage[n][s] = "exchange"

Unfailed(s) == \A e \in Roles : outcome[s][e] # "failed"

Converging(s) == s \notin down /\ \A n \in Nodes : Heading(n, s)

AgreeInv ==
  /\ Grounded
  /\ (\A n \in Nodes : ~raced[n]) =>
       \A s \in Sock : Designated(s) /\ Unfailed(s) => Converging(s)

LEMMA GroundedStep ==
  ASSUME GlareInv, Grounded, [GlareNext]_glareVars
  PROVE  Grounded'
<1> USE DEF GlareInv, GlareTypeOK, Grounded, exchange, table
<1>1. ASSUME NEW s \in Sock, Dial(s) PROVE Grounded'
  BY <1>1 DEF Dial
<1>2. ASSUME NEW s \in Sock, Exchange(s) PROVE Grounded'
  <2>1. \A t \in Sock \ {s} : outcome'[t] = outcome[t]
    BY <1>2 DEF Exchange
  <2>2. QED
    BY <1>2, <2>1 DEF Exchange
<1>3. ASSUME NEW n \in Nodes, NEW s \in Sock, Runner(n, s) PROVE Grounded'
  <2>1. /\ s \in dialled /\ UNCHANGED <<exchange, closed>>
        /\ \A m \in Nodes, t \in Sock : <<m, t>> # <<n, s>> => stage'[m][t] = stage[m][t]
    BY <1>3, RunnerStep, RoleIsEnd DEF Runner, ExchangeFails, GlareCheck, Yield, Replace, Wire,
       InsertSession
  <2>2. down \subseteq down' /\ down' \subseteq down \cup ({s, sender[n], held[n]} \ {NoSock})
    BY <1>3, SockAssumption DEF Runner, ExchangeFails, GlareCheck, Yield, Replace, Wire,
       InsertSession, StoreSession
  <2>3. {sender[n], held[n]} \ {NoSock} \subseteq dialled
    BY DEF Apart
  <2>4. QED
    BY <2>1, <2>2, <2>3
<1>4. ASSUME NEW n \in Nodes, NEW s \in Sock, WriterEnds(n, s) PROVE Grounded'
  BY <1>4 DEF WriterEnds
<1>5. CASE UNCHANGED glareVars
  BY <1>5 DEF glareVars
<1>6. QED
  BY <1>1, <1>2, <1>3, <1>4, <1>5 DEF GlareNext

\* A glare check finds s wired and open, or is that of s itself, or comes before s
\* has a result.
LEMMA GlareCheckHeading ==
  ASSUME GlareInv, Grounded, NEW n \in Nodes, NEW t \in Sock, GlareCheck(n, t), ~raced'[n],
         NEW s \in Sock, Designated(s), Converging(s)
  PROVE  Heading(n, s)'
<1> USE DEF GlareInv, GlareTypeOK, table
<1>1. \A u \in Sock : stage[n][u] \notin {"replace", "wire"}
  BY DEF GlareCheck, Wiring
<1>2. /\ stage[n][t] = "exchange" /\ t \in dialled /\ UNCHANGED <<sender, held>>
      /\ \A u \in Sock \ {t} : stage'[n][u] = stage[n][u]
  BY RoleIsEnd DEF GlareCheck, GoesTo, Grounded
<1>3. Heading(n, s) /\ s \notin closed[n]
  BY DEF Converging, Grounded
<1>4. CASE t = s
  <2>1. Canonical(n, s) \/ sender[n] = NoSock
    <3>1. CASE s \in LowSock
      BY <3>1 DEF Canonical, Dialer
    <3>2. CASE dialled = {s}
      BY <1>2, <1>4, <3>2, SMTT(30) DEF Apart, Grounded
    <3>3. QED
      BY <3>1, <3>2 DEF Designated
  <2>2. stage'[n][s] \in {"replace", "wire"}
    BY <1>4, <2>1 DEF GlareCheck, GoesTo, Alive
  <2>3. QED
    BY <1>1, <1>2, <1>3, <1>4, <2>2 DEF Heading
<1>5. CASE t # s
  <2>1. stage[n][s] # "exchange" => stage'[n][t] = "yield"
    <3>1. SUFFICES ASSUME stage[n][s] # "exchange" PROVE stage'[n][t] = "yield"
      OBVIOUS
    <3>2. stage[n][s] \in {"insert", "done"}
      BY <1>1, <1>3, <3>1 DEF Heading, Pcs
    <3>3. Alive(n)
      BY <1>3, <3>2, SockAssumption DEF Heading, Alive
    <3>4. ~Canonical(n, t)
      BY <1>2, <1>5 DEF Designated, Canonical, Dialer
    <3>5. QED
      BY <3>3, <3>4 DEF GlareCheck, GoesTo
  <2>2. QED
    BY <1>1, <1>2, <1>3, <1>5, <2>1 DEF Heading
<1>6. QED
  BY <1>4, <1>5

\* The other steps of a runner.
LEMMA RunnerHeading ==
  ASSUME GlareInv, NEW n \in Nodes, NEW t \in Sock, Runner(n, t), ~GlareCheck(n, t),
         NEW s \in Sock, Unfailed(s), Converging(s)
  PROVE  Heading(n, s)' /\ s \notin down'
<1> USE DEF GlareInv, GlareTypeOK, table, exchange, GoesTo
<1>1. Heading(n, s) /\ s \notin down
  BY DEF Converging
<1>2. sender[n] = s => stage[n][s] \in {"insert", "done"}
  BY DEF Apart
<1>3. CASE ExchangeFails(n, t)
  <2>1. t # s
    BY <1>3, RoleIsEnd DEF ExchangeFails, Unfailed
  <2>2. QED
    BY <1>1, <1>3, <2>1 DEF ExchangeFails, Heading
<1>4. CASE Yield(n, t)
  BY <1>1, <1>4 DEF Yield, StoreSession, Heading
<1>5. CASE Replace(n, t)
  BY <1>1, <1>2, <1>5 DEF Replace, Heading
<1>6. CASE Wire(n, t)
  BY <1>1, <1>6 DEF Wire, Heading
<1>7. CASE InsertSession(n, t)
  BY <1>1, <1>7, SockAssumption DEF InsertSession, StoreSession, Heading
<1>8. QED
  BY <1>3, <1>4, <1>5, <1>6, <1>7 DEF Runner

LEMMA AgreeStep ==
  ASSUME GlareInv, AgreeInv, [GlareNext]_glareVars
  PROVE  AgreeInv'
<1> USE DEF GlareInv, GlareTypeOK, exchange, table
<1>1. Grounded'
  BY GroundedStep DEF AgreeInv
<1>2. SUFFICES ASSUME \A n \in Nodes : ~raced'[n], NEW s \in Sock, Designated(s)', Unfailed(s)'
               PROVE  Converging(s)'
  BY <1>1 DEF AgreeInv
<1>3. \A n \in Nodes : ~raced[n]
  BY <1>2 DEF GlareNext, Dial, Exchange, Runner, ExchangeFails, GlareCheck, Yield, Replace, Wire,
     InsertSession, WriterEnds, glareVars
<1>4. Designated(s) /\ Unfailed(s) => Converging(s)
  BY <1>3 DEF AgreeInv
<1>5. ASSUME NEW x \in Sock, Dial(x) PROVE Converging(s)'
  <2>1. UNCHANGED <<outcome, stage, table, down>>
    BY <1>5 DEF Dial
  <2>2. CASE x = s
    <3>1. s \notin down /\ \A n \in Nodes : stage[n][s] = "exchange"
      BY <1>5, <2>2 DEF Dial, AgreeInv, Grounded
    <3>2. \A n \in Nodes : held[n] # s
      BY <3>1 DEF Apart
    <3>3. QED
      BY <2>1, <3>1, <3>2 DEF Converging, Heading
  <2>3. CASE x # s
    <3>1. Designated(s) /\ Unfailed(s)
      BY <1>2, <1>5, <2>1, <2>3 DEF Dial, Designated, Unfailed
    <3>2. QED
      BY <1>4, <2>1, <3>1 DEF Converging, Heading
  <2>4. QED
    BY <2>2, <2>3
<1>6. ASSUME NEW x \in Sock, Exchange(x) PROVE Converging(s)'
  <2>1. UNCHANGED <<dialled, stage, table, down>>
    BY <1>6 DEF Exchange
  <2>2. Designated(s) /\ Unfailed(s)
    BY <1>2, <1>6, <2>1, ExchangeStep DEF Designated, Unfailed
  <2>3. QED
    BY <1>4, <2>1, <2>2 DEF Converging, Heading
<1>7. ASSUME NEW n \in Nodes, NEW t \in Sock, Runner(n, t) PROVE Converging(s)'
  <2>1. UNCHANGED exchange
    BY <1>7 DEF Runner, ExchangeFails, GlareCheck, Yield, Replace, Wire, InsertSession
  <2>2. Designated(s) /\ Unfailed(s) /\ Converging(s)
    BY <1>2, <1>4, <2>1 DEF Designated, Unfailed
  <2>3. \A m \in Nodes \ {n} : Heading(m, s)'
    BY <1>7, <2>2, RunnerStep DEF Converging, Heading
  <2>4. Heading(n, s)' /\ s \notin down'
    <3>1. CASE GlareCheck(n, t)
      BY <1>2, <2>2, <3>1, GlareCheckHeading DEF AgreeInv, GlareCheck, Converging
    <3>2. CASE ~GlareCheck(n, t)
      BY <1>7, <2>2, <3>2, RunnerHeading
    <3>3. QED
      BY <3>1, <3>2
  <2>5. QED
    BY <2>3, <2>4 DEF Converging
<1>8. CASE UNCHANGED <<exchange, stage, table, down>>
  <2>1. Designated(s) /\ Unfailed(s)
    BY <1>2, <1>8 DEF Designated, Unfailed
  <2>2. QED
    BY <1>4, <1>8, <2>1 DEF Converging, Heading
<1>9. QED
  BY <1>5, <1>6, <1>7, <1>8 DEF GlareNext, WriterEnds, glareVars

(* Unless two runners of one node raced, both nodes settle on the designated  *)
(* socket and neither has closed it, whatever the order in which the          *)
(* exchanges ended.                                                           *)
THEOREM BothAgree == GlareSpec => []AgreeUnraced
<1>1. GlareInit => AgreeInv
  BY DEF GlareInit, AgreeInv, Grounded, Designated, Roles
<1>2. ASSUME GlareInv, AgreeInv
      PROVE  AgreeUnraced
  <2> SUFFICES ASSUME Settled, \A n \in Nodes : ~raced[n], NEW s \in dialled, Designated(s)
               PROVE  s \notin down /\ \A n \in Nodes : sender[n] = s
    BY DEF AgreeUnraced
  <2>1. s \in Sock
    BY <1>2 DEF GlareInv, GlareTypeOK
  <2>2. Unfailed(s)
    <3>1. \A e \in Roles : \E n \in Nodes : e = Role(n, s)
      BY DEF Roles, Nodes, Role, Dialer
    <3>2. QED
      BY <3>1 DEF Settled, Unfailed
  <2>3. QED
    BY <1>2, <2>1, <2>2 DEF AgreeInv, Converging, Heading, Settled
<1>3. QED
  BY <1>1, <1>2, AgreeStep, GlareInductive, PTL DEF GlareSpec
================================================================================
