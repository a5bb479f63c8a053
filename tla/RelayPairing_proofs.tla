------------------------ MODULE RelayPairing_proofs ------------------------
(***************************************************************************)
(* Proofs about RelayPairing, for any number of connections, uuids and     *)
(* keys and any Window.  The inductive invariant IInv adds to the checked  *)
(* invariants what each phase of a task knows.                             *)
(***************************************************************************)
EXTENDS RelayPairing, TLAPS

Asking == {"looking", "parking", "waiting"}

\* A task past RecvRequest presented a uuid and, where hbbr has a key, that key.
HasRequest(c) ==
  /\ uuid[c] \in Uuid
  /\ ServerKey # NoKey => licence[c] = ServerKey

\* A connection presents a uuid once, and it is checked before it is acted on.
RequestInv ==
  \A c \in Conn :
    /\ phase[c] \in {"idle", "accepted"} => uuid[c] = NoUuid
    /\ phase[c] \in Asking \cup Joined => HasRequest(c)

\* A task has a partner exactly from Lookup on, and closed ones keep it.
PartnerPhase ==
  \A c \in Conn :
    /\ phase[c] \in Joined => partner[c] \in Conn
    /\ partner[c] # NoConn => phase[c] \in Joined \cup {"closed"}

\* The stream a task took was parked by a task that asked for the same uuid and
\* has nothing left to do but wake up.
PartnerWaited ==
  \A c \in Conn : partner[c] # NoConn =>
    /\ phase[partner[c]] \in {"waiting", "closed"}
    /\ uuid[partner[c]] = uuid[c]
    /\ HasRequest(partner[c])

\* Streams turn raw two at a time, when their relay starts.
RawInv ==
  /\ raw \cap Ws = {}
  /\ \A c \in raw :
       \/ partner[c] # NoConn
       \/ \E d \in Conn : partner[d] = c
  /\ \A c \in Conn : partner[c] # NoConn =>
       /\ c \in raw <=> partner[c] \in raw
       /\ phase[c] = "pairing" => c \notin raw

IInv ==
  /\ TypeOK /\ RequestInv /\ PartnerPhase /\ PartnerWaited
  /\ SleeperOwnsSlot /\ ExclusiveRelay /\ RawInv

USE ConnAssumption, UuidAssumption, KeyAssumption, UsageAssumption, WindowAssumption

LEMMA InitInv == Init => IInv
BY DEF Init, IInv, TypeOK, Phase, RequestInv, Asking, Joined, PartnerPhase,
       PartnerWaited, SleeperOwnsSlot, ExclusiveRelay, RawInv

LEMMA AcceptInv ==
  ASSUME IInv, NEW c \in Conn, Accept(c)
  PROVE  IInv'
<1> USE DEF IInv, Accept
<1>1. TypeOK'
  BY DEF TypeOK, Phase
<1>2. RequestInv'
  BY DEF TypeOK, RequestInv, HasRequest, Asking, Joined
<1>3. PartnerPhase'
  BY DEF TypeOK, PartnerPhase, Joined
<1>4. PartnerWaited'
  BY DEF TypeOK, PartnerPhase, PartnerWaited, HasRequest, Joined
<1>5. SleeperOwnsSlot'
  BY DEF TypeOK, SleeperOwnsSlot
<1>6. ExclusiveRelay'
  BY DEF TypeOK, ExclusiveRelay, Parked
<1>7. RawInv'
  BY DEF TypeOK, RawInv
<1> QED
  BY <1>1, <1>2, <1>3, <1>4, <1>5, <1>6, <1>7

LEMMA GiveUpInv ==
  ASSUME IInv, NEW c \in Conn, GiveUp(c)
  PROVE  IInv'
<1> USE DEF IInv, GiveUp
<1>1. TypeOK'
  BY DEF TypeOK, Phase
<1>2. RequestInv'
  BY DEF TypeOK, RequestInv, HasRequest, Asking, Joined
<1>3. PartnerPhase'
  BY DEF TypeOK, PartnerPhase, Joined
<1>4. PartnerWaited'
  BY DEF TypeOK, PartnerPhase, PartnerWaited, HasRequest, Joined
<1>5. SleeperOwnsSlot'
  BY DEF TypeOK, SleeperOwnsSlot
<1>6. ExclusiveRelay'
  BY DEF TypeOK, ExclusiveRelay, Parked
<1>7. RawInv'
  BY DEF TypeOK, RawInv
<1> QED
  BY <1>1, <1>2, <1>3, <1>4, <1>5, <1>6, <1>7

LEMMA RecvRequestInv ==
  ASSUME IInv, NEW c \in Conn, NEW u \in Uuid \cup {NoUuid}, NEW k \in Key \cup {NoKey},
         RecvRequest(c, u, k)
  PROVE  IInv'
<1> USE DEF IInv, RecvRequest
<1>1. TypeOK'
  BY DEF TypeOK, Phase
<1>2. RequestInv'
  BY DEF Admits, TypeOK, RequestInv, HasRequest, Asking, Joined
<1>3. PartnerPhase'
  BY DEF TypeOK, PartnerPhase, Joined
<1>4. PartnerWaited'
  BY DEF TypeOK, PartnerPhase, PartnerWaited, HasRequest, Joined
<1>5. SleeperOwnsSlot'
  BY DEF TypeOK, SleeperOwnsSlot
<1>6. ExclusiveRelay'
  BY DEF TypeOK, ExclusiveRelay, Parked
<1>7. RawInv'
  BY DEF TypeOK, RawInv
<1> QED
  BY <1>1, <1>2, <1>3, <1>4, <1>5, <1>6, <1>7

LEMMA LookupInv ==
  ASSUME IInv, NEW c \in Conn, Lookup(c)
  PROVE  IInv'
<1> USE DEF IInv, Lookup
<1>1. TypeOK'
  BY DEF TypeOK, Phase, RequestInv, HasRequest, Asking
<1>2. RequestInv'
  BY DEF TypeOK, RequestInv, HasRequest, Asking, Joined
<1>3. PartnerPhase'
  BY DEF TypeOK, PartnerPhase, Joined, RequestInv, HasRequest, Asking
<1>4. PartnerWaited'
  BY DEF TypeOK, PartnerPhase, PartnerWaited, HasRequest, Joined, SleeperOwnsSlot,
         RequestInv, Asking
<1>5. SleeperOwnsSlot'
  BY DEF TypeOK, SleeperOwnsSlot, RequestInv, HasRequest, Asking
<1>6. ExclusiveRelay'
  BY DEF TypeOK, ExclusiveRelay, Parked, RequestInv, HasRequest, Asking, SleeperOwnsSlot,
         PartnerPhase, PartnerWaited, Joined
<1>7. RawInv'
  BY DEF TypeOK, RawInv, RequestInv, HasRequest, Asking, SleeperOwnsSlot,
         PartnerPhase, PartnerWaited, ExclusiveRelay, Parked, Joined
<1> QED
  BY <1>1, <1>2, <1>3, <1>4, <1>5, <1>6, <1>7

LEMMA ParkInv ==
  ASSUME IInv, NEW c \in Conn, Park(c)
  PROVE  IInv'
<1> USE DEF IInv, Park
<1>1. TypeOK'
  <2>1. age' \in [Conn -> 0..Window]
    BY DEF TypeOK
  <2>2. peers' \in [Uuid -> Conn \cup {NoConn}]
    BY DEF TypeOK
  <2>3. phase' \in [Conn -> Phase]
    BY DEF TypeOK, Phase
  <2> QED
    BY <2>1, <2>2, <2>3 DEF TypeOK
<1>2. RequestInv'
  BY DEF TypeOK, RequestInv, HasRequest, Asking, Joined
<1>3. PartnerPhase'
  BY DEF TypeOK, PartnerPhase, Joined
<1>4. PartnerWaited'
  BY DEF TypeOK, PartnerPhase, PartnerWaited, HasRequest, Joined
<1>5. SleeperOwnsSlot'
  BY DEF TypeOK, SleeperOwnsSlot
<1>6. ExclusiveRelay'
  BY DEF TypeOK, ExclusiveRelay, Parked, PartnerPhase, PartnerWaited, Joined
<1>7. RawInv'
  BY DEF TypeOK, RawInv
<1> QED
  BY <1>1, <1>2, <1>3, <1>4, <1>5, <1>6, <1>7

LEMMA ExpireInv ==
  ASSUME IInv, NEW c \in Conn, Expire(c)
  PROVE  IInv'
<1> USE DEF IInv, Expire
<1>1. TypeOK'
  BY DEF TypeOK, Phase
<1>2. RequestInv'
  BY DEF TypeOK, RequestInv, HasRequest, Asking, Joined
<1>3. PartnerPhase'
  BY DEF TypeOK, PartnerPhase, Joined
<1>4. PartnerWaited'
  BY DEF TypeOK, PartnerPhase, PartnerWaited, HasRequest, Joined
<1>5. SleeperOwnsSlot'
  BY DEF TypeOK, SleeperOwnsSlot
<1>6. ExclusiveRelay'
  BY DEF TypeOK, ExclusiveRelay, Parked
<1>7. RawInv'
  BY DEF TypeOK, RawInv
<1> QED
  BY <1>1, <1>2, <1>3, <1>4, <1>5, <1>6, <1>7

LEMMA StartRelayInv ==
  ASSUME IInv, NEW c \in Conn, StartRelay(c)
  PROVE  IInv'
<1> USE DEF IInv, StartRelay
<1>1. TypeOK'
  BY DEF TypeOK, Phase, PartnerPhase, Joined
<1>2. RequestInv'
  BY DEF TypeOK, RequestInv, HasRequest, Asking, Joined
<1>3. PartnerPhase'
  BY DEF TypeOK, PartnerPhase, Joined
<1>4. PartnerWaited'
  BY DEF TypeOK, PartnerPhase, PartnerWaited, HasRequest, Joined
<1>5. SleeperOwnsSlot'
  BY DEF TypeOK, SleeperOwnsSlot
<1>6. ExclusiveRelay'
  BY DEF TypeOK, ExclusiveRelay, Parked
<1>7. RawInv'
  BY DEF TypeOK, RawInv, PartnerPhase, ExclusiveRelay, Joined
<1> QED
  BY <1>1, <1>2, <1>3, <1>4, <1>5, <1>6, <1>7

LEMMA UpdateUsageInv ==
  ASSUME IInv, NEW c \in Conn, UpdateUsage(c)
  PROVE  IInv'
<1> USE DEF IInv, UpdateUsage
<1>1. TypeOK'
  BY DEF TypeOK, Phase
<1>2. RequestInv'
  BY DEF TypeOK, RequestInv, HasRequest, Asking, Joined
<1>3. PartnerPhase'
  BY DEF TypeOK, PartnerPhase, Joined
<1>4. PartnerWaited'
  BY DEF TypeOK, PartnerPhase, PartnerWaited, HasRequest, Joined
<1>5. SleeperOwnsSlot'
  BY DEF TypeOK, SleeperOwnsSlot
<1>6. ExclusiveRelay'
  BY DEF TypeOK, ExclusiveRelay, Parked
<1>7. RawInv'
  BY DEF TypeOK, RawInv
<1> QED
  BY <1>1, <1>2, <1>3, <1>4, <1>5, <1>6, <1>7

LEMMA EndRelayInv ==
  ASSUME IInv, NEW c \in Conn, EndRelay(c)
  PROVE  IInv'
<1> USE DEF IInv, EndRelay
<1>1. TypeOK'
  BY DEF TypeOK, Phase
<1>2. RequestInv'
  BY DEF TypeOK, RequestInv, HasRequest, Asking, Joined
<1>3. PartnerPhase'
  BY DEF TypeOK, PartnerPhase, Joined
<1>4. PartnerWaited'
  BY DEF TypeOK, PartnerPhase, PartnerWaited, HasRequest, Joined
<1>5. SleeperOwnsSlot'
  BY DEF TypeOK, SleeperOwnsSlot
<1>6. ExclusiveRelay'
  BY DEF TypeOK, ExclusiveRelay, Parked
<1>7. RawInv'
  BY DEF TypeOK, RawInv
<1> QED
  BY <1>1, <1>2, <1>3, <1>4, <1>5, <1>6, <1>7

LEMMA CloseRelayInv ==
  ASSUME IInv, NEW c \in Conn, CloseRelay(c)
  PROVE  IInv'
<1> USE DEF IInv, CloseRelay
<1>1. TypeOK'
  BY DEF TypeOK, Phase
<1>2. RequestInv'
  BY DEF TypeOK, RequestInv, HasRequest, Asking, Joined
<1>3. PartnerPhase'
  BY DEF TypeOK, PartnerPhase, Joined
<1>4. PartnerWaited'
  BY DEF TypeOK, PartnerPhase, PartnerWaited, HasRequest, Joined
<1>5. SleeperOwnsSlot'
  BY DEF TypeOK, SleeperOwnsSlot
<1>6. ExclusiveRelay'
  BY DEF TypeOK, ExclusiveRelay, Parked
<1>7. RawInv'
  BY DEF TypeOK, RawInv
<1> QED
  BY <1>1, <1>2, <1>3, <1>4, <1>5, <1>6, <1>7

LEMMA TickInv ==
  ASSUME IInv, Tick
  PROVE  IInv'
<1> USE DEF IInv, Tick
<1>1. TypeOK'
  BY DEF TypeOK, Asleep
<1>2. RequestInv'
  BY DEF TypeOK, RequestInv, HasRequest, Asking, Joined
<1>3. PartnerPhase'
  BY DEF TypeOK, PartnerPhase, Joined
<1>4. PartnerWaited'
  BY DEF TypeOK, PartnerPhase, PartnerWaited, HasRequest, Joined
<1>5. SleeperOwnsSlot'
  BY DEF TypeOK, SleeperOwnsSlot
<1>6. ExclusiveRelay'
  BY DEF TypeOK, ExclusiveRelay, Parked
<1>7. RawInv'
  BY DEF TypeOK, RawInv
<1> QED
  BY <1>1, <1>2, <1>3, <1>4, <1>5, <1>6, <1>7

LEMMA NextInv == IInv /\ [Next]_vars => IInv'
<1> SUFFICES ASSUME IInv, [Next]_vars PROVE IInv'
  OBVIOUS
<1>1. CASE UNCHANGED vars
  BY <1>1 DEF vars, IInv, TypeOK, RequestInv, HasRequest, PartnerPhase, PartnerWaited,
              SleeperOwnsSlot, ExclusiveRelay, Parked, RawInv
<1>2. CASE Next
  BY <1>2, AcceptInv, GiveUpInv, RecvRequestInv, LookupInv, ParkInv, ExpireInv,
     StartRelayInv, UpdateUsageInv, EndRelayInv, CloseRelayInv, TickInv
  DEF Next, Advance
<1> QED
  BY <1>1, <1>2

\* IInv holds in every reachable state.
THEOREM Inductive == Spec => []IInv
BY InitInv, NextInv, PTL DEF Spec

-----------------------------------------------------------------------------
\* The variables of make_pair_'s tasks, PEERS and USAGE keep their types.
THEOREM TypeCorrect == Spec => []TypeOK
<1>1. IInv => TypeOK
  BY DEF IInv
<1> QED
  BY <1>1, Inductive, PTL

\* Nothing is parked in PEERS without a sleeping task that will clear its slot.
THEOREM SlotsAreOwned == Spec => []SleeperOwnsSlot
<1>1. IInv => SleeperOwnsSlot
  BY DEF IInv
<1> QED
  BY <1>1, Inductive, PTL

\* However lookups, inserts and wake-ups interleave, no stream is in two relays.
THEOREM RelaysAreExclusive == Spec => []ExclusiveRelay
<1>1. IInv => ExclusiveRelay
  BY DEF IInv
<1> QED
  BY <1>1, Inductive, PTL

\* Relays join streams with one uuid, the right key and the same framing.
THEOREM RelaysAreLegitimate == Spec => []RelayIsLegitimate
<1>1. IInv => RelayIsLegitimate
  BY DEF IInv, TypeOK, RequestInv, HasRequest, PartnerPhase, PartnerWaited, RawInv,
         RelayIsLegitimate, Joined
<1> QED
  BY <1>1, Inductive, PTL

\* USAGE never outlives the relays it reports, shared keys included.
THEOREM UsageIsLive == Spec => []UsageHasRelay
<1>1. Init => UsageHasRelay
  BY DEF Init, UsageHasRelay
<1>2. TypeOK /\ UsageHasRelay /\ [Next]_vars => UsageHasRelay'
  <2> SUFFICES ASSUME TypeOK, UsageHasRelay, [Next]_vars PROVE UsageHasRelay'
    OBVIOUS
  <2> USE DEF TypeOK, UsageHasRelay
  <2>1. CASE UNCHANGED vars
    BY <2>1 DEF vars
  <2>2. CASE Tick
    BY <2>2 DEF Tick
  <2>3. ASSUME NEW c \in Conn, Accept(c) \/ GiveUp(c) \/ Lookup(c) \/ Park(c) \/ Expire(c)
        PROVE  UsageHasRelay'
    BY <2>3 DEF Accept, GiveUp, Lookup, Park, Expire
  <2>4. ASSUME NEW c \in Conn, NEW u \in Uuid \cup {NoUuid}, NEW k \in Key \cup {NoKey},
               RecvRequest(c, u, k)
        PROVE  UsageHasRelay'
    BY <2>4 DEF RecvRequest
  <2>5. ASSUME NEW c \in Conn, StartRelay(c) \/ UpdateUsage(c) \/ EndRelay(c)
        PROVE  UsageHasRelay'
    BY <2>5 DEF StartRelay, UpdateUsage, EndRelay
  <2>6. ASSUME NEW c \in Conn, CloseRelay(c) PROVE UsageHasRelay'
    BY <2>6 DEF CloseRelay
  <2> QED
    BY <2>1, <2>2, <2>3, <2>4, <2>5, <2>6 DEF Next, Advance
<1> QED
  BY <1>1, <1>2, TypeCorrect, PTL DEF Spec

\* A running relay is listed in USAGE until it ends, for every assignment of
\* keys: only a connection that shares its key could remove the entry.
THEOREM RelaysAreListed == Spec => []RelayHasUsage
<1>1. Init => RelayHasUsage
  BY DEF Init, RelayHasUsage
<1>2. TypeOK /\ RelayHasUsage /\ [Next]_vars => RelayHasUsage'
  <2> SUFFICES ASSUME TypeOK, RelayHasUsage, [Next]_vars
               PROVE  RelayHasUsage'
    OBVIOUS
  <2> USE DEF TypeOK, RelayHasUsage
  <2>1. CASE UNCHANGED vars \/ Tick
    BY <2>1 DEF vars, Tick
  <2>2. ASSUME NEW c \in Conn, Accept(c) \/ GiveUp(c) \/ Lookup(c) \/ Park(c) \/ Expire(c)
        PROVE  RelayHasUsage'
    BY <2>2 DEF Accept, GiveUp, Lookup, Park, Expire
  <2>3. ASSUME NEW c \in Conn, NEW u \in Uuid \cup {NoUuid}, NEW k \in Key \cup {NoKey},
               RecvRequest(c, u, k)
        PROVE  RelayHasUsage'
    BY <2>3 DEF RecvRequest
  <2>4. ASSUME NEW c \in Conn, StartRelay(c) \/ UpdateUsage(c) \/ EndRelay(c)
        PROVE  RelayHasUsage'
    BY <2>4 DEF StartRelay, UpdateUsage, EndRelay
  <2>5. ASSUME NEW c \in Conn, CloseRelay(c) PROVE RelayHasUsage'
    <3>1. ASSUME NEW d \in Conn, phase'[d] = "relaying",
                 \A e \in Conn : UsageId[e] = UsageId[d] => e = d
          PROVE  UsageId[d] \in usage'
      <4>1. d # c /\ phase[d] = "relaying"
        BY <2>5, <3>1 DEF CloseRelay
      <4>2. UsageId[c] # UsageId[d]
        BY <3>1, <4>1
      <4> QED
        BY <2>5, <3>1, <4>1, <4>2 DEF CloseRelay
    <3> QED
      BY <3>1
  <2> QED
    BY <2>1, <2>2, <2>3, <2>4, <2>5 DEF Next, Advance
<1> QED
  BY <1>1, <1>2, TypeCorrect, PTL DEF Spec

-----------------------------------------------------------------------------
\* A parked stream that goes before its time goes because of a namesake: only
\* Lookup, Park and Expire of a task with the same uuid touch its slot.
LEMMA SlotStep ==
  ASSUME IInv, [Next]_vars, NEW c \in Conn, Parked(c), ~Parked(c)', age[c] < Window
  PROVE  \E d \in Conn \ {c} :
           /\ uuid[d] = uuid[c]
           /\ partner'[d] = c \/ phase[d] \in {"parking", "waiting"}
<1> USE DEF IInv, TypeOK, Parked
<1>1. PICK v \in Uuid : peers[v] = c
  OBVIOUS
<1>2. phase[c] = "waiting" /\ uuid[c] = v
  BY <1>1 DEF SleeperOwnsSlot
<1>3. peers' # peers
  BY <1>1
<1>4. PICK d \in Conn : Lookup(d) \/ Park(d) \/ Expire(d)
  BY <1>3 DEF Next, Advance, vars, Tick, Accept, GiveUp, RecvRequest, UpdateUsage,
              EndRelay, StartRelay, CloseRelay
<1>5. uuid[d] = v
  BY <1>1, <1>3, <1>4 DEF Lookup, Park, Expire
<1>6. CASE Lookup(d)
  BY <1>1, <1>2, <1>5, <1>6 DEF Lookup
<1>7. CASE Park(d)
  BY <1>2, <1>5, <1>7 DEF Park
<1>8. CASE Expire(d)
  BY <1>2, <1>5, <1>8 DEF Expire
<1> QED
  BY <1>4, <1>6, <1>7, <1>8

\* A stream is given its 30 s in PEERS unless a connection with its uuid takes it
\* or had itself found nobody.
THEOREM ParkedKeepsSlot == Spec => LosesSlotOnlyToNamesake
<1>1. IInv /\ [Next]_vars =>
        [\A c \in Conn : Parked(c) /\ ~Parked(c)' /\ age[c] < Window =>
           \E d \in Conn \ {c} :
             /\ uuid[d] = uuid[c]
             /\ partner'[d] = c \/ phase[d] \in {"parking", "waiting"}]_vars
  BY SlotStep
<1> QED
  BY <1>1, Inductive, PTL DEF Spec, LosesSlotOnlyToNamesake

-----------------------------------------------------------------------------
(***************************************************************************)
(* Refinement.  BarMate and Dropped are the mate and gone of Rendezvous.    *)
(***************************************************************************)
BarMate == [c \in Conn |-> Mate(c)]

\* Mate is the symmetric closure of partner.
LEMMA MateIs ==
  ASSUME IInv
  PROVE  /\ \A c \in Conn : Mate(c) \in Conn \cup {NoConn}
         /\ \A c \in Conn : partner[c] # NoConn => Mate(c) = partner[c]
         /\ \A c \in Conn : partner[c] # NoConn => Mate(partner[c]) = c
         /\ \A c \in Conn : partner[c] = NoConn /\ (\A d \in Conn : partner[d] # c) =>
              Mate(c) = NoConn
<1> USE DEF IInv, TypeOK, ExclusiveRelay
<1>1. ASSUME NEW c \in Conn, partner[c] # NoConn
      PROVE  Mate(c) = partner[c] /\ Mate(partner[c]) = c
  <2>1. Mate(c) = partner[c]
    BY <1>1 DEF Mate
  <2>2. partner[c] \in Conn /\ partner[partner[c]] = NoConn
    BY <1>1
  <2>3. \A d \in Conn : partner[d] = partner[c] <=> d = c
    BY <1>1
  <2>4. Mate(partner[c]) = CHOOSE d \in Conn : partner[d] = partner[c]
    BY <2>2, <2>3 DEF Mate
  <2>5. (CHOOSE d \in Conn : partner[d] = partner[c]) = c
    BY <2>3
  <2> QED
    BY <2>1, <2>4, <2>5
<1>2. ASSUME NEW c \in Conn, partner[c] = NoConn, \A d \in Conn : partner[d] # c
      PROVE  Mate(c) = NoConn
  BY <1>2 DEF Mate
<1>3. ASSUME NEW c \in Conn PROVE Mate(c) \in Conn \cup {NoConn}
  BY DEF Mate
<1> QED
  BY <1>1, <1>2, <1>3

\* A task that is not in a relay and has not parked is nobody's mate.
LEMMA Unmatched ==
  ASSUME IInv, NEW c \in Conn,
         phase[c] \in {"idle", "accepted", "looking", "parking"} \/ Parked(c)
  PROVE  partner[c] = NoConn /\ Mate(c) = NoConn
<1>1. partner[c] = NoConn
  BY DEF IInv, TypeOK, PartnerPhase, ExclusiveRelay, Joined
<1>2. \A d \in Conn : partner[d] # c
  BY DEF IInv, TypeOK, PartnerWaited, ExclusiveRelay
<1> QED
  BY <1>1, <1>2, MateIs

\* Mate depends on partner alone.
LEMMA SameMate ==
  ASSUME partner' = partner
  PROVE  BarMate' = BarMate /\ \A c \in Conn : Mate(c)' = Mate(c)
BY DEF BarMate, Mate

Stutters == UNCHANGED uuid /\ BarMate' = BarMate /\ Dropped' = Dropped

\* Steps that only move a task along do nothing to Rendezvous.
LEMMA QuietStep ==
  ASSUME IInv, NEW c \in Conn,
         Accept(c) \/ StartRelay(c) \/ UpdateUsage(c) \/ EndRelay(c) \/ Tick
  PROVE  Stutters
<1>1. partner' = partner /\ peers' = peers /\ uuid' = uuid
  BY DEF Accept, StartRelay, UpdateUsage, EndRelay, Tick
<1>2. \A d \in Conn : /\ phase'[d] = "closed" <=> phase[d] = "closed"
                      /\ phase'[d] = "waiting" <=> phase[d] = "waiting"
  BY DEF IInv, TypeOK, Accept, StartRelay, UpdateUsage, EndRelay, Tick
<1>3. \A d \in Conn : Mate(d) \in Conn \cup {NoConn}
  BY MateIs
<1>4. Dropped' = Dropped
  BY <1>1, <1>2, <1>3, SameMate DEF Dropped, Parked
<1> QED
  BY <1>1, <1>4, SameMate DEF Stutters

LEMMA GiveUpStep ==
  ASSUME IInv, NEW c \in Conn, GiveUp(c)
  PROVE  Promise!Leave(c)
<1>1. partner' = partner /\ peers' = peers /\ uuid' = uuid
  BY DEF GiveUp
<1>2. partner[c] = NoConn /\ Mate(c) = NoConn
  BY Unmatched DEF GiveUp
<1>3. \A d \in Conn : Mate(d) # c
  BY <1>2, MateIs, ConnAssumption DEF IInv, TypeOK, Mate
<1>4. phase' = [phase EXCEPT ![c] = "closed"] /\ phase[c] \in {"idle", "accepted"}
  BY DEF GiveUp
<1>5. Dropped' = Dropped \cup {c}
  <2>1. ASSUME NEW d \in Conn, d # c PROVE d \in Dropped' <=> d \in Dropped
    BY <1>1, <1>3, <1>4, <2>1, SameMate, MateIs DEF Dropped, Parked, IInv, TypeOK
  <2>2. c \in Dropped'
    BY <1>1, <1>2, <1>4, SameMate DEF Dropped, IInv, TypeOK
  <2> QED
    BY <2>1, <2>2 DEF Dropped
<1>6. c \notin Dropped
  BY <1>2, <1>4 DEF Dropped
<1> QED
  BY <1>1, <1>2, <1>5, <1>6, SameMate DEF Promise!Leave, Promise!Free, BarMate

LEMMA RecvRequestStep ==
  ASSUME IInv, NEW c \in Conn, NEW u \in Uuid \cup {NoUuid},
         NEW k \in Key \cup {NoKey}, RecvRequest(c, u, k)
  PROVE  Promise!Ask(c, u) \/ Promise!Refuse(c, u)
<1>1. /\ partner' = partner /\ peers' = peers
      /\ uuid' = [uuid EXCEPT ![c] = u]
      /\ phase[c] = "accepted"
  BY DEF RecvRequest
<1>2. partner[c] = NoConn /\ Mate(c) = NoConn
  BY <1>1, Unmatched
<1>3. \A d \in Conn : Mate(d) # c
  BY <1>2, MateIs, ConnAssumption DEF IInv, TypeOK, Mate
<1>4. c \notin Dropped /\ uuid[c] = NoUuid
  BY <1>1, <1>2 DEF Dropped, IInv, RequestInv
<1>5. ASSUME NEW d \in Conn, d # c PROVE d \in Dropped' <=> d \in Dropped
  <2>1. phase'[d] = phase[d]
    BY <1>5 DEF RecvRequest, IInv, TypeOK
  <2>2. Mate(d) # NoConn => phase'[Mate(d)] = phase[Mate(d)]
    BY <1>3, MateIs DEF RecvRequest, IInv, TypeOK
  <2> QED
    BY <1>1, <2>1, <2>2, SameMate DEF Dropped, Parked
<1>6. CASE Admits(u, k)
  <2>1. c \notin Dropped'
    BY <1>1, <1>2, <1>6, SameMate DEF Dropped, RecvRequest, IInv, TypeOK
  <2>2. Dropped' = Dropped
    BY <1>4, <1>5, <2>1 DEF Dropped
  <2> QED
    BY <1>1, <1>2, <1>4, <2>2, SameMate DEF Promise!Ask, Promise!Free, BarMate
<1>7. CASE ~Admits(u, k)
  <2>1. c \in Dropped'
    BY <1>1, <1>2, <1>7, SameMate DEF Dropped, RecvRequest, IInv, TypeOK
  <2>2. Dropped' = Dropped \cup {c}
    BY <1>5, <2>1 DEF Dropped
  <2> QED
    BY <1>1, <1>2, <1>4, <2>2, SameMate DEF Promise!Refuse, Promise!Free, BarMate
<1> QED
  BY <1>6, <1>7

\* Lookup links the task's stream with the parked one, or changes nothing.
LEMMA LookupStep ==
  ASSUME IInv, NEW c \in Conn, Lookup(c)
  PROVE  Stutters \/ \E d \in Conn : Promise!Link(c, d)
<1> USE DEF IInv
<1> DEFINE found == peers[uuid[c]]
<1>1. /\ phase[c] = "looking"
      /\ phase' = [phase EXCEPT ![c] = IF found # NoConn THEN "pairing" ELSE "parking"]
      /\ partner' = [partner EXCEPT ![c] = found]
      /\ peers' = [peers EXCEPT ![uuid[c]] = NoConn]
      /\ uuid' = uuid
  BY DEF Lookup
<1>2. uuid[c] \in Uuid
  BY <1>1 DEF RequestInv, HasRequest, Asking
<1>3. partner[c] = NoConn /\ Mate(c) = NoConn
  BY <1>1, Unmatched
<1>4. CASE found = NoConn
  <2>1. partner' = partner /\ peers' = peers
    BY <1>1, <1>2, <1>3, <1>4 DEF TypeOK
  <2>2. \A x \in Conn : /\ phase'[x] = "closed" <=> phase[x] = "closed"
                        /\ phase'[x] = "waiting" <=> phase[x] = "waiting"
    BY <1>1 DEF TypeOK
  <2>3. Dropped' = Dropped
    BY <1>1, <2>1, <2>2, SameMate, MateIs DEF Dropped, Parked
  <2> QED
    BY <1>1, <2>1, <2>3, SameMate DEF Stutters
<1>5. CASE found # NoConn
  <2>0. PICK d \in Conn : d = found
    BY <1>2, <1>5 DEF TypeOK
  <2>1. d \in Conn /\ d # c /\ phase[d] = "waiting" /\ uuid[d] = uuid[c] /\ Parked(d)
    BY <1>1, <2>0, <1>2, <1>5 DEF TypeOK, SleeperOwnsSlot, Parked
  <2>2. partner[d] = NoConn /\ Mate(d) = NoConn
    BY <2>1, Unmatched
  <2>3. partner'[c] = d /\ partner'[d] = NoConn
    BY <1>1, <2>0, <2>1, <2>2 DEF TypeOK
  <2>4. Mate(c)' = d /\ Mate(d)' = c
    <3>1. \A e \in Conn : partner'[e] = d <=> e = c
      BY <1>1, <2>0, <2>1, <2>3 DEF TypeOK, ExclusiveRelay
    <3>2. (CHOOSE e \in Conn : partner'[e] = d) = c
      BY <3>1
    <3> QED
      BY <3>1, <3>2, <2>3, ConnAssumption DEF Mate
  <2>5. ASSUME NEW x \in Conn \ {c, d} PROVE Mate(x)' = Mate(x) /\ Mate(x) \notin {c, d}
    <3>1. partner'[x] = partner[x] /\ partner[x] \notin {c, d}
      BY <1>1, <2>0, <1>3, <2>1, <2>2, MateIs, ConnAssumption
      DEF TypeOK, PartnerWaited, ExclusiveRelay
    <3>2. \A y \in Conn : partner'[y] = x <=> partner[y] = x
      BY <1>1, <2>0, <1>3, <2>1, ConnAssumption DEF TypeOK
    <3>3. Mate(x) \notin {c, d}
      BY <1>3, <2>1, <2>2, <3>1, MateIs, ConnAssumption DEF Mate, TypeOK
    <3>4. CASE \A y \in Conn : partner[y] # x
      BY <3>1, <3>2, <3>3, <3>4 DEF Mate
    <3>5. CASE \E y \in Conn : partner[y] = x
      <4>1. PICK y \in Conn : partner[y] = x
        BY <3>5
      <4>2. partner[x] = NoConn /\ \A e \in Conn : partner[e] = x <=> e = y
        BY <4>1, ConnAssumption DEF TypeOK, ExclusiveRelay
      <4>3. (CHOOSE e \in Conn : partner[e] = x) = y
        BY <4>2
      <4>4. (CHOOSE e \in Conn : partner'[e] = x) = y
        BY <3>2, <4>2
      <4>5. partner'[y] = x
        BY <3>2, <4>1
      <4>6. Mate(x) = y
        BY <4>1, <4>2, <4>3 DEF Mate
      <4>7. Mate(x)' = y
        BY <3>1, <4>2, <4>4, <4>5 DEF Mate
      <4> QED
        BY <3>3, <4>6, <4>7
    <3> QED
      BY <3>4, <3>5
  <2>6. BarMate' = [BarMate EXCEPT ![c] = d, ![d] = c]
    BY <2>1, <2>4, <2>5 DEF BarMate
  <2>7. c \notin Dropped /\ d \notin Dropped
    BY <1>1, <2>0, <1>3, <2>1, <2>2 DEF Dropped
  <2>8. c \notin Dropped' /\ d \notin Dropped'
    <3>1. phase'[c] # "closed"
      BY <1>1, <2>0, <1>5 DEF TypeOK
    <3>2. \A e \in {c, d} : ~(partner'[e] # NoConn /\ phase'[e] = "closed")
      BY <2>3, <3>1
    <3>3. Mate(c)' # NoConn /\ Mate(d)' # NoConn
      BY <2>4, ConnAssumption
    <3>4. {c, Mate(c)'} = {c, d} /\ {d, Mate(d)'} = {c, d}
      BY <2>4
    <3> QED
      BY <3>2, <3>3, <3>4 DEF Dropped
  <2>9. ASSUME NEW x \in Conn \ {c, d} PROVE x \in Dropped' <=> x \in Dropped
    <3>1. /\ phase'[x] = phase[x] /\ partner'[x] = partner[x]
          /\ Mate(x) # NoConn => /\ phase'[Mate(x)] = phase[Mate(x)]
                                 /\ partner'[Mate(x)] = partner[Mate(x)]
      BY <1>1, <2>0, <2>5, MateIs DEF TypeOK
    <3>2. Parked(x)' <=> Parked(x)
      BY <1>1, <2>0, <1>2 DEF TypeOK, Parked
    <3> QED
      BY <3>1, <3>2, <2>5 DEF Dropped
  <2>10. Dropped' = Dropped
    BY <2>7, <2>8, <2>9 DEF Dropped
  <2>11. Promise!Link(c, d)
    BY <1>1, <2>0, <1>2, <1>3, <2>1, <2>2, <2>6, <2>7, <2>10
    DEF Promise!Link, Promise!Free, BarMate
  <2> QED
    BY <2>1, <2>11
<1> QED
  BY <1>4, <1>5

\* A step that leaves partner alone and takes x, if any stream, out of PEERS.
LEMMA EvictStep ==
  ASSUME IInv, NEW x \in Conn, Parked(x), ~Parked(x)',
         UNCHANGED <<uuid, partner>>,
         \A d \in Conn :
           partner[d] # NoConn => (phase'[d] = "closed" <=> phase[d] = "closed"),
         phase'[x] \in {"waiting", "closed"},
         \A d \in Conn \ {x} :
           Mate(d) = NoConn =>
             (\/ phase'[d] = "closed"
              \/ phase'[d] = "waiting" /\ ~Parked(d)') <=>
             (\/ phase[d] = "closed"
              \/ phase[d] = "waiting" /\ ~Parked(d))
  PROVE  Promise!Leave(x)
<1>1. partner[x] = NoConn /\ Mate(x) = NoConn
  BY Unmatched
<1>2. phase[x] = "waiting"
  BY DEF IInv, TypeOK, SleeperOwnsSlot, Parked
<1>3. x \notin Dropped
  BY <1>1, <1>2 DEF Dropped
<1>4. x \in Dropped'
  BY <1>1, SameMate DEF Dropped
<1>5. ASSUME NEW d \in Conn \ {x} PROVE d \in Dropped' <=> d \in Dropped
  <2>1. CASE Mate(d) = NoConn
    BY <2>1, SameMate DEF Dropped
  <2>2. CASE Mate(d) # NoConn
    <3>1. \A e \in {d, Mate(d)} : e \in Conn /\ Mate(e) # NoConn
      BY <2>2, MateIs, ConnAssumption
    <3>2. \A e \in {d, Mate(d)} :
            partner[e] # NoConn => (phase'[e] = "closed" <=> phase[e] = "closed")
      BY <3>1
    <3> QED
      BY <2>2, <3>2, SameMate DEF Dropped
  <2> QED
    BY <2>1, <2>2
<1>6. Dropped' = Dropped \cup {x}
  BY <1>4, <1>5 DEF Dropped
<1> QED
  BY <1>1, <1>3, <1>6, SameMate DEF Promise!Leave, Promise!Free, BarMate

\* Park drops the stream it overwrites, if there is one.
LEMMA ParkStep ==
  ASSUME IInv, NEW c \in Conn, Park(c)
  PROVE  Stutters \/ \E x \in Conn : Promise!Leave(x)
<1> USE DEF IInv
<1>1. /\ phase[c] = "parking" /\ phase' = [phase EXCEPT ![c] = "waiting"]
      /\ peers' = [peers EXCEPT ![uuid[c]] = c]
      /\ partner' = partner /\ uuid' = uuid
  BY DEF Park
<1>2. uuid[c] \in Uuid
  BY <1>1 DEF RequestInv, HasRequest, Asking
<1>3. \A d \in Conn : phase'[d] = "closed" <=> phase[d] = "closed"
  BY <1>1 DEF TypeOK
<1>4. Parked(c)' /\ phase'[c] = "waiting" /\ phase[c] # "closed"
  BY <1>1, <1>2 DEF TypeOK, Parked
<1>5. CASE peers[uuid[c]] = NoConn
  <2>1. ASSUME NEW d \in Conn \ {c}
        PROVE  phase'[d] = phase[d] /\ (Parked(d)' <=> Parked(d))
    BY <1>1, <1>2, <1>5, ConnAssumption DEF TypeOK, Parked
  <2>2. Dropped' = Dropped
    BY <1>1, <1>3, <1>4, <2>1, SameMate, MateIs DEF Dropped
  <2> QED
    BY <1>1, <2>2, SameMate DEF Stutters
<1>6. CASE peers[uuid[c]] # NoConn
  <2>1. PICK x \in Conn : x = peers[uuid[c]]
    BY <1>2, <1>6 DEF TypeOK
  <2>2. phase[x] = "waiting" /\ uuid[x] = uuid[c] /\ Parked(x) /\ x # c
    BY <1>1, <1>2, <2>1, ConnAssumption DEF SleeperOwnsSlot, Parked
  <2>3. ~Parked(x)'
    BY <1>1, <1>2, <2>1, <2>2, ConnAssumption DEF TypeOK, SleeperOwnsSlot, Parked
  <2>4. ASSUME NEW d \in Conn \ {c, x}
        PROVE  phase'[d] = phase[d] /\ (Parked(d)' <=> Parked(d))
    BY <1>1, <1>2, <2>1 DEF TypeOK, Parked
  <2>5. phase'[x] = "waiting"
    BY <1>1, <2>2 DEF TypeOK
  <2>6. \A d \in Conn \ {x} :
          (phase'[d] = "closed" \/ (phase'[d] = "waiting" /\ ~Parked(d)'))
          <=> (phase[d] = "closed" \/ (phase[d] = "waiting" /\ ~Parked(d)))
    BY <1>1, <1>4, <2>4
  <2>7. Promise!Leave(x)
    BY <1>1, <1>3, <2>2, <2>3, <2>5, <2>6, EvictStep
  <2> QED
    BY <2>7
<1> QED
  BY <1>5, <1>6

\* Expire drops whatever stream is in the slot, its own or not.
LEMMA ExpireStep ==
  ASSUME IInv, NEW c \in Conn, Expire(c)
  PROVE  Stutters \/ \E x \in Conn : Promise!Leave(x)
<1> USE DEF IInv
<1>1. /\ phase[c] = "waiting" /\ phase' = [phase EXCEPT ![c] = "closed"]
      /\ peers' = [peers EXCEPT ![uuid[c]] = NoConn]
      /\ partner' = partner /\ uuid' = uuid
  BY DEF Expire
<1>2. uuid[c] \in Uuid
  BY <1>1 DEF RequestInv, HasRequest, Asking
<1>3. partner[c] = NoConn
  BY <1>1 DEF TypeOK, PartnerPhase, Joined
<1>4. \A d \in Conn : partner[d] # NoConn => (phase'[d] = "closed" <=> phase[d] = "closed")
  BY <1>1, <1>3 DEF TypeOK
<1>5. CASE peers[uuid[c]] = NoConn
  <2>1. peers' = peers
    BY <1>1, <1>2, <1>5 DEF TypeOK
  <2>2. ~Parked(c)
    BY <1>2, <1>5, ConnAssumption DEF TypeOK, SleeperOwnsSlot, Parked
  <2>3. ASSUME NEW d \in Conn PROVE d \in Dropped' <=> d \in Dropped
    <3>1. CASE Mate(d) = NoConn
      BY <1>1, <2>1, <2>2, <3>1, SameMate DEF Dropped, Parked, TypeOK
    <3>2. CASE Mate(d) # NoConn
      <4>1. \A e \in {d, Mate(d)} : e \in Conn
        BY <3>2, MateIs
      <4> QED
        BY <1>1, <1>4, <3>2, <4>1, SameMate DEF Dropped
    <3> QED
      BY <3>1, <3>2
  <2>4. Dropped' = Dropped
    BY <2>3 DEF Dropped
  <2> QED
    BY <1>1, <2>4, SameMate DEF Stutters
<1>6. CASE peers[uuid[c]] # NoConn
  <2>1. PICK x \in Conn : x = peers[uuid[c]]
    BY <1>2, <1>6 DEF TypeOK
  <2>2. phase[x] = "waiting" /\ uuid[x] = uuid[c] /\ Parked(x)
    BY <1>2, <2>1, ConnAssumption DEF SleeperOwnsSlot, Parked
  <2>3. ~Parked(x)'
    BY <1>1, <1>2, <2>1, <2>2, ConnAssumption DEF TypeOK, SleeperOwnsSlot, Parked
  <2>4. ASSUME NEW d \in Conn \ {x} PROVE Parked(d)' <=> Parked(d)
    BY <1>1, <1>2, <2>1, ConnAssumption DEF TypeOK, Parked
  <2>5. phase'[x] \in {"waiting", "closed"}
    BY <1>1, <2>2 DEF TypeOK
  <2>6. c # x => ~Parked(c)
    BY <1>2, <2>1, ConnAssumption DEF TypeOK, SleeperOwnsSlot, Parked
  <2>7. \A d \in Conn \ {x} :
          (phase'[d] = "closed" \/ (phase'[d] = "waiting" /\ ~Parked(d)'))
          <=> (phase[d] = "closed" \/ (phase[d] = "waiting" /\ ~Parked(d)))
    BY <1>1, <2>4, <2>6 DEF TypeOK
  <2>8. Promise!Leave(x)
    <3>1. UNCHANGED <<uuid, partner>>
      BY <1>1
    <3> QED
      BY <1>4, <2>2, <2>3, <2>5, <2>7, <3>1, EvictStep
  <2> QED
    BY <2>8
<1> QED
  BY <1>5, <1>6

\* Both streams of a relay are dropped at once.
LEMMA CloseRelayStep ==
  ASSUME IInv, NEW c \in Conn, CloseRelay(c)
  PROVE  \E d \in Conn : Promise!Part(c, d)
<1> USE DEF IInv
<1>1. /\ phase[c] = "ending" /\ phase' = [phase EXCEPT ![c] = "closed"]
      /\ UNCHANGED <<peers, partner, uuid>>
  BY DEF CloseRelay
<1>2. PICK d \in Conn : d = partner[c]
  BY <1>1 DEF PartnerPhase, Joined
<1>3. partner[c] # NoConn /\ partner[d] = NoConn /\ d # c
  BY <1>2, ConnAssumption DEF ExclusiveRelay
<1>4. Mate(c) = d /\ Mate(d) = c
  BY <1>2, <1>3, MateIs
<1>5. {c, d} \cap Dropped = {}
  BY <1>1, <1>3, <1>4, ConnAssumption DEF Dropped
<1>6. c \in Dropped' /\ d \in Dropped'
  BY <1>1, <1>3, <1>4, SameMate, ConnAssumption DEF Dropped, TypeOK
<1>7. ASSUME NEW x \in Conn \ {c, d} PROVE x \in Dropped' <=> x \in Dropped
  <2>1. \A e \in {x, Mate(x)} : e \in Conn => e # c
    <3>1. CASE partner[x] # NoConn
      BY <1>3, <3>1, MateIs DEF ExclusiveRelay
    <3>2. CASE partner[x] = NoConn /\ \E e \in Conn : partner[e] = x
      <4>1. PICK e \in Conn : partner[e] = x
        BY <3>2
      <4>2. Mate(x) = e
        BY <4>1, MateIs, ConnAssumption
      <4> QED
        BY <1>2, <4>1, <4>2
    <3>3. CASE partner[x] = NoConn /\ \A e \in Conn : partner[e] # x
      BY <3>3, MateIs, ConnAssumption
    <3> QED
      BY <3>1, <3>2, <3>3
  <2>2. \A e \in {x, Mate(x)} : e \in Conn => phase'[e] = phase[e]
    BY <1>1, <2>1 DEF TypeOK
  <2>3. Mate(x) \in Conn \cup {NoConn}
    BY MateIs
  <2> QED
    BY <1>1, <2>2, <2>3, SameMate DEF Dropped, Parked
<1>8. Dropped' = Dropped \cup {c, d}
  BY <1>6, <1>7 DEF Dropped
<1> QED
  BY <1>1, <1>4, <1>5, <1>8, SameMate DEF Promise!Part, BarMate

LEMMA RefineInit == Init => Promise!Init
<1> SUFFICES ASSUME Init PROVE Promise!Init
  OBVIOUS
<1>1. \A c \in Conn : Mate(c) = NoConn
  BY ConnAssumption DEF Init, Mate
<1>2. Dropped = {}
  BY <1>1 DEF Init, Dropped
<1> QED
  BY <1>1, <1>2 DEF Init, Promise!Init

LEMMA RefineNext ==
  IInv /\ [Next]_vars => [Promise!Next]_<<uuid, BarMate, Dropped>>
<1> SUFFICES ASSUME IInv, [Next]_vars PROVE Promise!Next \/ Stutters
  BY DEF Stutters
<1>1. CASE UNCHANGED vars
  <2>1. Dropped' = Dropped
    BY <1>1, SameMate DEF vars, Dropped, Parked
  <2> QED
    BY <1>1, <2>1, SameMate DEF vars, Stutters
<1>2. CASE Tick
  BY <1>2, QuietStep DEF Tick
<1>3. ASSUME NEW c \in Conn, Accept(c) \/ UpdateUsage(c) \/ EndRelay(c) \/ StartRelay(c)
      PROVE  Stutters
  BY <1>3, QuietStep
<1>4. ASSUME NEW c \in Conn, NEW u \in Uuid \cup {NoUuid}, NEW k \in Key \cup {NoKey},
             RecvRequest(c, u, k)
      PROVE  Promise!Next
  BY <1>4, RecvRequestStep DEF Promise!Next
<1>5. ASSUME NEW c \in Conn, GiveUp(c) PROVE Promise!Next
  BY <1>5, GiveUpStep DEF Promise!Next
<1>6. ASSUME NEW c \in Conn, Lookup(c) PROVE Promise!Next \/ Stutters
  BY <1>6, LookupStep DEF Promise!Next
<1>7. ASSUME NEW c \in Conn, Park(c) PROVE Promise!Next \/ Stutters
  BY <1>7, ParkStep DEF Promise!Next
<1>8. ASSUME NEW c \in Conn, Expire(c) PROVE Promise!Next \/ Stutters
  BY <1>8, ExpireStep DEF Promise!Next
<1>9. ASSUME NEW c \in Conn, CloseRelay(c) PROVE Promise!Next
  BY <1>9, CloseRelayStep DEF Promise!Next
<1> QED
  BY <1>1, <1>2, <1>3, <1>4, <1>5, <1>6, <1>7, <1>8, <1>9 DEF Next, Advance

\* hbbr implements Rendezvous: the tasks' races over PEERS never link a stream
\* twice, link different sessions, or revive a stream that was dropped.
THEOREM Refinement == Spec => KeepsPromise
BY RefineInit, RefineNext, Inductive, PTL DEF Spec, KeepsPromise, Promise!Spec, BarMate
=============================================================================
