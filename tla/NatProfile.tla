------------------------------ MODULE NatProfile ------------------------------
(* What a node knows of the NAT it is behind and makes of what a peer knows of  *)
(* its own (daemon/src/connectivity): the STUN battery of stun.rs, the profile  *)
(* on disk, the endpoint information that tokens and matchmake messages carry,  *)
(* and the ports that punch.rs tries.  Addresses are left out: a port stands    *)
(* for an endpoint.                                                             *)
EXTENDS Integers, FiniteSets, Sequences, SequencesExt

CONSTANTS
  Strides,     \* 5: the multiples of a stride that are tried
  Neighbours,  \* 10: the ports beside the reflected one that are tried
  WgPort,      \* the port WireGuard listens on
  OtherPort    \* the port the STUN socket falls back to

Port == {p \in Nat : p < 65536}
Usable == Port \ {0}

ASSUME PortAssumption ==
  /\ {WgPort, OtherPort} \subseteq Usable
  /\ {Strides, Neighbours} \subseteq Nat

Abs(x) == IF x < 0 THEN -x ELSE x
Stride == {s \in Int : Abs(s) < 65536}

(* A NAT that is "none" or a "cone" gives a socket one port; one that keeps     *)
(* ports gives it its own.  A "symmetric" one gives every destination the next. *)
NatShape == [kind : {"none", "cone", "symmetric"}, keeps : BOOLEAN,
             base : Port, stride : Stride]
Outside(nat, local) == IF nat.keeps THEN local ELSE nat.base + (local % 7)
NextPort(nat, used) == nat.base + nat.stride * used

None    == [type |-> "none", port |-> 0, stride |-> 0]
Unknown == [type |-> "unknown", port |-> 0, stride |-> 0]

\* stun_binding: the k-th answer for the STUN socket.  WireGuard holds its own
\* port, so the socket is bound to another one.
Reflected(nat, used, k) ==
  IF nat.kind = "symmetric" THEN NextPort(nat, used + k) ELSE Outside(nat, OtherPort)

\* The second server has not answered, or it has given another port.  "open" is
\* never found: the socket is bound to 0.0.0.0, which no server answers with.
Classified(nat, used, answers) ==
  LET here == Reflected(nat, used, 0)
      next == Reflected(nat, used, 1) IN
  IF answers = 1 \/ here = next THEN [type |-> "cone", port |-> here, stride |-> 0]
  ELSE [type |-> "symmetric", port |-> here, stride |-> next - here]

\* The outcomes of characterize_nat by the number of servers that answer.
Characterized(nat, used, answers) ==
  IF answers = 0 THEN Unknown ELSE Classified(nat, used, answers)

\* refresh_mapping: a failed detection leaves the profile as it was read.
Refreshed(read, found) ==
  IF found.type = "unknown" /\ read # None THEN read ELSE found
Saved(stored, read, found) ==
  IF found.type = "unknown" /\ read # None THEN stored ELSE found

\* What is told of a node: generate, encode_request and encode_exchange.
Info(profile) == [type |-> profile.type, port |-> profile.port,
                  stride |-> profile.stride, wg |-> WgPort]
\* What a matchmake message is read as: ports are cut to 16 bits, and a word that is
\* none of the three is an unknown NAT, whose node has told of no address.
NatType(word) == IF word \in {"open", "cone", "symmetric"} THEN word ELSE "unknown"
Received(info) ==
  [type |-> NatType(info.type), port |-> info.port % 65536,
   stride |-> info.stride, wg |-> info.wg % 65536]
\* A token is refused when a port does not fit.
Decodes(info) == {info.port, info.wg} \subseteq Port
Decoded(info) == [info EXCEPT !.type = NatType(@)]
Addressed(info) == info.type # "unknown"

\* should_we_initiate: a cone against a symmetric one takes its time.
Initiates(ours, theirs) == ours = "cone" /\ theirs = "symmetric"
\* build_punch_config_from_exchange.
PunchConfig(ours, info) == [peer |-> info, initiate |-> Initiates(ours, info.type)]

--------------------------------------------------------------------------------
(* build_candidates.                                                          *)

ToI16(x) == ((x + 32768) % 65536) - 32768
\* A multiple of the stride is cut to 16 bits, to be added with its sign or subtracted.
Up(base, by) == base + ToI16(by)
Down(base, by) == base - (Abs(by) % 65536)
At(place, port) == [place |-> place, port |-> port]

\* The ports that are listed, with their places: the reflected port, the port WireGuard
\* listens on, multiples of the stride to either side (of a negative one twice below),
\* neighbours.
Listed(info) ==
  LET base == info.port
      by(i) == info.stride * i
      last == 2 + 2 * Strides
  IN {At(1, base), At(2, info.wg)}
     \cup (IF info.stride = 0 THEN {}
           ELSE {At(2 * i + 1, Up(base, by(i))) : i \in 1 .. Strides}
                \cup {At(2 * i + 2, Down(base, by(i))) : i \in 1 .. Strides})
     \cup {At(last + 2 * i - 1, base + i) : i \in 1 .. Neighbours}
     \cup {At(last + 2 * i, base - i) : i \in 1 .. Neighbours}

\* Each port at its first place, and never 0 or one that does not fit.
Once(listed) ==
  {e \in listed : e.port \in Usable /\ \A f \in listed : f.port = e.port => e.place <= f.place}

\* Mutant: the port WireGuard listens on is left out.
CandidatesReflected(info) == Once({e \in Listed(info) : e.place # 2})

Candidates(info) == Once(Listed(info))

\* The endpoint that is tried after that many others: all in order, again and again.
Before(set, e) == Cardinality({f \in set : f.place < e.place})
Turn(set, at) == (CHOOSE e \in set : Before(set, e) = at % Cardinality(set)).port

================================================================================
