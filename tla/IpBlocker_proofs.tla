------------------------- MODULE IpBlocker_proofs -------------------------
(***************************************************************************)
(* Proofs about the limits on registrations, for any addresses, ids,       *)
(* limits and durations.                                                   *)
(*                                                                         *)
(* IpBlocker: the inductive invariant adds to the types how the entry of   *)
(* an address relates to its history: neither counter is younger than what *)
(* it counts, every id let in as new during the day is noted, but for one, *)
(* and every request that passed the rate test is counted, but for one.    *)
(*                                                                         *)
(* RegistrationPace: the history variables are compared with what the code *)
(* keeps: the time in reg_pk is that of the last registration accepted,    *)
(* its count stands for the streak, and an entry of IP_CHANGES is as old   *)
(* as its first address.                                                   *)
(***************************************************************************)
EXTENDS IpBlocker, FiniteSetTheorems, TLAPS

USE LimitAssumption

\* The ages of the entry are at least those of what they count.
Timed(p) ==
  p \in listed =>
    /\ lastPass[p] <= blocker[p].hitAge
    /\ lastAdmit[p] <= blocker[p].idAge
    /\ \A i \in Id : introduced[p][i] >= blocker[p].idAge

Today(p) == {i \in Id : introduced[p][i] <= Day}

\* The new ids of the day are noted, but for the one that made the entry.
Noted(p) ==
  /\ p \notin listed => Today(p) = {}
  /\ p \in listed => \E x \in Id : Today(p) \subseteq blocker[p].ids \cup {x}

Sized(p) ==
  /\ IsFiniteSet(blocker[p].ids)
  /\ Cardinality(blocker[p].ids) <= IdLimit + 1

\* The requests that passed are counted in hits, but for the one that made the entry,
\* and none is younger than the counter.
Tallied(p) ==
  /\ IsFiniteSet(passed[p])
  /\ p \notin listed => passed[p] = {}
  /\ p \in listed =>
       /\ Cardinality(passed[p]) <= blocker[p].hits + 1
       /\ \A e \in passed[p] : e[2] >= blocker[p].hitAge

Kept(p) == Timed(p) /\ Noted(p) /\ Sized(p) /\ Tallied(p)

IInv == TypeOK /\ \A p \in Ip : Kept(p)

-----------------------------------------------------------------------------
LEMMA OlderType ==
  ASSUME NEW limit \in Nat, NEW n \in 0..Never(limit)
  PROVE  /\ Older(n, limit) \in 0..Never(limit)
         /\ Older(n, limit) <= limit => n <= limit
BY DEF Older, Never

\* Growing older keeps ages in order.
LEMMA OlderOrder ==
  ASSUME NEW limit \in Nat, NEW m \in 0..Never(limit), NEW n \in 0..Never(limit), m <= n
  PROVE  Older(m, limit) <= Older(n, limit)
BY DEF Older, Never

LEMMA FreshType == Fresh \in Entries
BY DEF Fresh, Entries

LEMMA CountedType ==
  ASSUME TypeOK, NEW p \in listed, Passes(p)
  PROVE  /\ Counted(blocker[p]) \in Entries
         /\ Counted(blocker[p]).ids = blocker[p].ids
         /\ Counted(blocker[p]).idAge = blocker[p].idAge
         /\ Counted(blocker[p]).hitAge = 0
<1>1. PICK b \in Entries : b = blocker[p]
  BY DEF TypeOK
<1>2. PICK n \in 0..(Burst + 1) : n = IF b.hitAge > Window THEN 1 ELSE b.hits + 1
  BY <1>1 DEF Passes, Entries
<1>3. [b EXCEPT !.hits = n, !.hitAge = 0] \in Entries
  <2>1. 0 \in 0..(Window + 1)
    OBVIOUS
  <2> QED
    BY <1>1, <1>2, <2>1 DEF Entries
<1>4. Counted(b) = [b EXCEPT !.hits = n, !.hitAge = 0]
  BY <1>2 DEF Counted
<1> QED
  BY <1>1, <1>3, <1>4 DEF Entries

\* There is a number left: a finite set does not hold one element more than it has.
LEMMA UnusedType ==
  ASSUME NEW p \in Ip, IsFiniteSet(passed[p])
  PROVE  Unused(p) \in Nat /\ <<Unused(p), 0>> \notin passed[p]
<1> DEFINE S == passed[p]
           N == 0..Cardinality(S)
<1>1. Cardinality(S) \in Nat
  BY FS_CardinalityType
<1>2. IsFiniteSet(N) /\ Cardinality(N) = Cardinality(S) + 1
  BY <1>1, FS_Interval
<1>3. \E n \in N : <<n, 0>> \notin S
  <2> SUFFICES ASSUME \A n \in N : <<n, 0>> \in S PROVE FALSE
    OBVIOUS
  <2> DEFINE f == [n \in N |-> <<n, 0>>]
  <2>1. f \in Injection(N, S)
    BY DEF Injection, IsInjective
  <2>2. Cardinality(N) <= Cardinality(S)
    <3> HIDE DEF f, N
    <3> QED
      BY <2>1, FS_Injection
  <2> QED
    BY <1>1, <1>2, <2>2
<1>4. Unused(p) \in N /\ <<Unused(p), 0>> \notin S
  BY <1>3 DEF Unused
<1> QED
  BY <1>1, <1>4

LEMMA PassType ==
  ASSUME TypeOK, NEW p \in Ip, IsFiniteSet(passed[p]), Pass(p)
  PROVE  /\ passed' \in [Ip -> SUBSET (Nat \X (0..Window))]
         /\ lastPass' \in [Ip -> 0..Never(Window)]
         /\ lastPass'[p] = 0
         /\ \A q \in Ip \ {p} : lastPass'[q] = lastPass[q] /\ passed'[q] = passed[q]
         /\ IsFiniteSet(passed'[p])
         /\ Cardinality(passed'[p]) = Cardinality(passed[p]) + 1
         /\ \A e \in passed'[p] : e[2] >= 0
<1>1. <<Unused(p), 0>> \in Nat \X (0..Window) /\ <<Unused(p), 0>> \notin passed[p]
  BY UnusedType
<1>2. passed'[p] = passed[p] \cup {<<Unused(p), 0>>}
  BY DEF Pass, TypeOK
<1>3. passed' \in [Ip -> SUBSET (Nat \X (0..Window))]
  BY <1>1 DEF Pass, TypeOK
<1>4. \A e \in passed'[p] : e[2] >= 0
  <2>1. passed'[p] \subseteq Nat \X (0..Window)
    BY <1>3
  <2> QED
    BY <2>1
<1>5. IsFiniteSet(passed'[p]) /\ Cardinality(passed'[p]) = Cardinality(passed[p]) + 1
  <2>1. PICK S, e : S = passed[p] /\ e = <<Unused(p), 0>>
    OBVIOUS
  <2>2. IsFiniteSet(S) /\ e \notin S /\ passed'[p] = S \cup {e}
    BY <1>1, <1>2, <2>1
  <2>3. IsFiniteSet(S \cup {e}) /\ Cardinality(S \cup {e}) = Cardinality(S) + 1
    BY <2>2, FS_AddElement
  <2> QED
    BY <2>1, <2>2, <2>3
<1> QED
  BY <1>3, <1>4, <1>5 DEF Pass, TypeOK, Never

\* Counting a request keeps the tally: after a minute without one there is none to
\* count.
LEMMA CountedTally ==
  ASSUME TypeOK, NEW p \in listed, Passes(p), Pass(p), Tallied(p),
         blocker'[p].hits = Counted(blocker[p]).hits, blocker'[p].hitAge = 0,
         p \in listed'
  PROVE  Tallied(p)'
<1>1. /\ IsFiniteSet(passed'[p]) /\ Cardinality(passed'[p]) = Cardinality(passed[p]) + 1
      /\ \A e \in passed'[p] : e[2] >= 0
  BY PassType DEF Tallied, TypeOK
<1>2. PICK b \in Entries : b = blocker[p]
  BY DEF TypeOK
<1>3. CASE b.hitAge > Window
  <2>1. passed[p] = {}
    <3>1. passed[p] \subseteq Nat \X (0..Window)
      BY DEF TypeOK
    <3> QED
      BY <1>2, <1>3, <3>1 DEF Tallied, Entries
  <2>2. Cardinality(passed[p]) = 0
    BY <2>1, FS_EmptySet
  <2>3. blocker'[p].hits = 1
    BY <1>2, <1>3 DEF Counted, Entries
  <2> QED
    BY <1>1, <2>2, <2>3 DEF Tallied
<1>4. CASE ~(b.hitAge > Window)
  <2>1. blocker'[p].hits = b.hits + 1
    BY <1>2, <1>4 DEF Counted, Entries
  <2>2. Cardinality(passed[p]) <= b.hits + 1 /\ Cardinality(passed[p]) \in Nat
    BY <1>2, FS_CardinalityType DEF Tallied
  <2>3. b.hits \in Nat
    BY <1>2 DEF Entries
  <2> QED
    BY <1>1, <2>1, <2>2, <2>3 DEF Tallied
<1> QED
  BY <1>3, <1>4

LEMMA LetInType ==
  ASSUME TypeOK, NEW p \in Ip, NEW i \in Id, NEW isNew \in BOOLEAN, LetIn(p, i, isNew)
  PROVE  /\ introduced' \in [Ip -> [Id -> 0..Never(Day)]]
         /\ lastAdmit' \in [Ip -> 0..Never(Day)]
         /\ lastAdmit'[p] = 0
         /\ introduced'[p][i] = IF isNew THEN 0 ELSE introduced[p][i]
         /\ \A j \in Id \ {i} : introduced'[p][j] = introduced[p][j]
         /\ \A q \in Ip \ {p} : introduced'[q] = introduced[q] /\ lastAdmit'[q] = lastAdmit[q]
<1>1. [introduced[p] EXCEPT ![i] = 0] \in [Id -> 0..Never(Day)]
  BY DEF TypeOK, Never
<1> QED
  BY <1>1 DEF LetIn, TypeOK, Never

\* What the other addresses keep.
LEMMA OthersKept ==
  ASSUME NEW q \in Ip, Kept(q), passed'[q] = passed[q],
         q \in listed <=> q \in listed', blocker'[q] = blocker[q],
         introduced'[q] = introduced[q], lastPass'[q] = lastPass[q],
         lastAdmit'[q] = lastAdmit[q]
  PROVE  Kept(q)'
BY DEF Kept, Timed, Noted, Sized, Today, Tallied

LEMMA InitInv == Init => IInv
<1> SUFFICES ASSUME Init PROVE IInv
  OBVIOUS
<1>1. TypeOK
  BY FreshType DEF Init, TypeOK, Never
<1>2. ASSUME NEW p \in Ip PROVE Kept(p)
  <2>1. p \notin listed /\ Today(p) = {} /\ blocker[p].ids = {} /\ passed[p] = {}
    BY DEF Init, Today, Fresh, Never
  <2> QED
    BY <2>1, FS_EmptySet DEF Kept, Timed, Noted, Sized, Tallied
<1> QED
  BY <1>1, <1>2 DEF IInv

LEMMA FirstInv ==
  ASSUME IInv, NEW p \in Ip, NEW i \in Id, First(p, i)
  PROVE  IInv'
<1>1. Pass(p) /\ LetIn(p, i, TRUE) /\ TypeOK /\ IsFiniteSet(passed[p])
  BY DEF First, LetIn, IInv, Kept, Tallied
<1>2. TypeOK'
  BY <1>1, PassType, LetInType, FreshType DEF First, TypeOK
<1>3. Kept(p)'
  <2>1. Today(p) = {} /\ blocker'[p] = Fresh
    BY DEF First, IInv, Kept, Noted, TypeOK
  <2>2. Today(p)' \subseteq {i}
    BY <1>1, <2>1, LetInType DEF Today
  <2>3. introduced'[p] \in [Id -> 0..Never(Day)]
    BY <1>2 DEF TypeOK
  <2>4. p \in listed' /\ Fresh.hitAge = 0 /\ Fresh.idAge = 0 /\ Fresh.ids = {}
    BY DEF First, Fresh
  <2>5. Timed(p)'
    <3>1. lastPass'[p] = 0 /\ lastAdmit'[p] = 0
      BY <1>1, PassType, LetInType
    <3>2. \A j \in Id : introduced'[p][j] >= 0
      BY <2>3 DEF Never
    <3> QED
      BY <2>1, <2>4, <3>1, <3>2 DEF Timed
  <2>6. Noted(p)'
    BY <2>2, <2>4 DEF Noted
  <2>7. Sized(p)'
    BY <2>1, <2>4, FS_EmptySet DEF Sized
  <2>8. Tallied(p)'
    <3>1. passed[p] = {} /\ Cardinality(passed[p]) = 0 /\ Fresh.hits = 0
      BY FS_EmptySet DEF First, IInv, Kept, Tallied, Fresh
    <3>2. /\ IsFiniteSet(passed'[p]) /\ Cardinality(passed'[p]) = 1
          /\ \A e \in passed'[p] : e[2] >= 0
      BY <1>1, <3>1, PassType
    <3> QED
      BY <2>1, <2>4, <3>1, <3>2 DEF Tallied
  <2> QED
    BY <2>5, <2>6, <2>7, <2>8 DEF Kept
<1>4. ASSUME NEW q \in Ip \ {p} PROVE Kept(q)'
  BY <1>1, PassType, LetInType, OthersKept DEF First, IInv, TypeOK
<1> QED
  BY <1>2, <1>3, <1>4 DEF IInv

LEMMA FullInv ==
  ASSUME IInv, NEW p \in Ip, NEW i \in Id, Full(p, i)
  PROVE  IInv'
<1> DEFINE b == Counted(blocker[p])
<1>1. /\ p \in listed /\ Passes(p) /\ Pass(p) /\ TypeOK
      /\ Timed(p) /\ Noted(p) /\ Sized(p) /\ Tallied(p) /\ IsFiniteSet(passed[p])
  BY DEF Full, LetIn, IInv, Kept, Tallied
<1>2. /\ b \in Entries /\ b.ids = blocker[p].ids /\ b.idAge = blocker[p].idAge
      /\ b.hitAge = 0 /\ b.hits = Counted(blocker[p]).hits
  BY <1>1, CountedType
<1>3. listed' = listed /\ blocker' = [blocker EXCEPT ![p] = b]
  BY DEF Full
<1> HIDE DEF b
<1>4. /\ introduced' = introduced
      /\ lastAdmit' = lastAdmit \/ LetIn(p, i, FALSE)
  BY DEF Full, LetIn
<1>5. /\ lastAdmit' \in [Ip -> 0..Never(Day)]
      /\ lastAdmit'[p] = lastAdmit[p] \/ lastAdmit'[p] = 0
      /\ \A q \in Ip \ {p} : lastAdmit'[q] = lastAdmit[q]
  BY <1>1, <1>4, LetInType DEF TypeOK
<1>6. TypeOK'
  BY <1>1, <1>2, <1>3, <1>4, <1>5, PassType DEF TypeOK
<1>7. blocker'[p] = b
  BY <1>1, <1>3 DEF TypeOK
<1>8. Timed(p)'
  <2>1. lastPass'[p] <= b.hitAge
    BY <1>1, <1>2, PassType
  <2>2. lastAdmit'[p] <= b.idAge
    BY <1>1, <1>2, <1>5 DEF Timed, Entries
  <2> QED
    BY <1>1, <1>2, <1>4, <1>7, <2>1, <2>2 DEF Timed
<1>9. Noted(p)' /\ Sized(p)'
  BY <1>1, <1>2, <1>3, <1>4, <1>7 DEF Noted, Sized, Today
<1>10. ASSUME NEW q \in Ip \ {p} PROVE Kept(q)'
  BY <1>1, <1>3, <1>4, <1>5, PassType, OthersKept DEF IInv, TypeOK
<1>11. Tallied(p)'
  BY <1>1, <1>2, <1>3, <1>7, CountedTally
<1> QED
  BY <1>6, <1>8, <1>9, <1>10, <1>11 DEF IInv, Kept

LEMMA AdmitInv ==
  ASSUME IInv, NEW p \in Ip, NEW i \in Id, Admit(p, i)
  PROVE  IInv'
<1> DEFINE old == blocker[p]
           isNew == i \notin old.ids
           kept == IF old.idAge > Day THEN {} ELSE old.ids
           ids == IF isNew THEN kept \cup {i} ELSE kept
           b == [Counted(old) EXCEPT !.ids = ids, !.idAge = 0]
<1>1. /\ p \in listed /\ Passes(p) /\ Pass(p) /\ LetIn(p, i, isNew) /\ TypeOK
      /\ Timed(p) /\ Noted(p) /\ Sized(p) /\ HasRoom(p)
      /\ Tallied(p) /\ IsFiniteSet(passed[p])
  BY DEF Admit, LetIn, IInv, Kept, Tallied
<1>2. old \in Entries
  BY <1>1 DEF TypeOK
<1>3. ids \subseteq Id
  BY <1>2 DEF Entries
<1>4. /\ b \in Entries /\ b.ids = ids /\ b.idAge = 0 /\ b.hitAge = 0
      /\ b.hits = Counted(old).hits
  <2>1. PICK c \in Entries : c = Counted(old) /\ c.hitAge = 0
    BY <1>1, CountedType
  <2>2. 0 \in 0..(Day + 1)
    OBVIOUS
  <2> HIDE DEF ids
  <2> QED
    BY <1>3, <2>1, <2>2 DEF Entries
<1>5. listed' = listed /\ blocker' = [blocker EXCEPT ![p] = b]
  BY DEF Admit
<1>6. Sized(p)'
  <2>1. IsFiniteSet(kept) /\ Cardinality(kept) <= IdLimit /\ Cardinality(kept) \in Nat
    BY <1>1, FS_EmptySet, FS_CardinalityType DEF Sized, HasRoom
  <2>2. IsFiniteSet(ids) /\ Cardinality(ids) <= IdLimit + 1
    <3> HIDE DEF kept
    <3>1. CASE isNew
      <4>1. /\ IsFiniteSet(kept \cup {i})
            /\ Cardinality(kept \cup {i}) \in {Cardinality(kept), Cardinality(kept) + 1}
        BY <2>1, FS_AddElement
      <4> QED
        BY <2>1, <3>1, <4>1
    <3>2. CASE ~isNew
      BY <2>1, <3>2
    <3> QED
      BY <3>1, <3>2
  <2> QED
    BY <1>1, <1>4, <1>5, <2>2 DEF Sized, TypeOK
<1>7. Today(p)' \subseteq Today(p) \cup {i} /\ (~isNew => Today(p)' \subseteq Today(p))
  BY <1>1, LetInType DEF Today
<1>8. old.idAge > Day => Today(p) = {}
  BY <1>1, <1>2 DEF Timed, Today, TypeOK, Entries, Never
<1>9. Noted(p)'
  <2>1. PICK x \in Id : Today(p) \subseteq old.ids \cup {x}
    BY <1>1 DEF Noted
  <2>2. Today(p)' \subseteq ids \cup {x}
    BY <1>7, <1>8, <2>1
  <2> QED
    BY <1>1, <1>4, <1>5, <2>2 DEF Noted, TypeOK
<1> HIDE DEF b, ids, isNew
<1>10. TypeOK'
  BY <1>1, <1>4, <1>5, PassType, LetInType DEF TypeOK, isNew
<1>11. Timed(p)'
  <2>1. lastPass'[p] = 0 /\ lastAdmit'[p] = 0
    BY <1>1, PassType, LetInType DEF isNew
  <2>2. \A j \in Id : introduced'[p][j] >= 0
    BY <1>10 DEF TypeOK, Never
  <2> QED
    BY <1>1, <1>4, <1>5, <2>1, <2>2 DEF Timed, TypeOK
<1>12. ASSUME NEW q \in Ip \ {p} PROVE Kept(q)'
  BY <1>1, <1>5, PassType, LetInType, OthersKept DEF IInv, TypeOK, isNew
<1>13. Tallied(p)'
  BY <1>1, <1>4, <1>5, CountedTally DEF TypeOK
<1> QED
  BY <1>6, <1>9, <1>10, <1>11, <1>12, <1>13 DEF IInv, Kept

\* The commands keep an entry or drop it whole, and with it nothing of the day.
LEMMA PruneKeeps ==
  ASSUME IInv, NEW P \in SUBSET Current, listed' = P, Forget(P), NEW q \in Ip,
         introduced'[q] = introduced[q], lastPass' = lastPass, lastAdmit' = lastAdmit,
         passed'[q] = passed[q],
         q \in Current => q \in P
  PROVE  Kept(q)'
<1>1. blocker'[q] = IF q \in P THEN blocker[q] ELSE Fresh
  BY DEF Forget
<1>2. CASE q \in P
  BY <1>1, <1>2 DEF IInv, Current, Kept, Timed, Noted, Sized, Today, Tallied
<1>3. CASE q \notin P
  <2>1. Today(q) = {}
    BY <1>3 DEF IInv, Kept, TypeOK, Current, Timed, Noted, Today, Entries, Never
  <2>2. passed[q] = {}
    <3>1. passed[q] \subseteq Nat \X (0..Window)
      BY DEF IInv, TypeOK
    <3>2. q \in listed => blocker[q].hitAge > Window /\ blocker[q].hitAge \in Nat
      BY <1>3 DEF IInv, TypeOK, Current, Entries
    <3> QED
      BY <3>1, <3>2 DEF IInv, Kept, Tallied
  <2> QED
    BY <1>1, <1>3, <2>1, <2>2, FS_EmptySet DEF Kept, Timed, Noted, Sized, Today, Fresh, Tallied
<1> QED
  BY <1>2, <1>3

LEMMA ForgetType ==
  ASSUME TypeOK, NEW P \in SUBSET Current, Forget(P)
  PROVE  blocker' \in [Ip -> Entries] /\ P \subseteq Ip
BY FreshType DEF Forget, TypeOK, Current

LEMMA PruneInv == ASSUME IInv, Prune PROVE IInv'
<1>1. TypeOK'
  BY ForgetType DEF Prune, IInv, TypeOK, history
<1>2. ASSUME NEW q \in Ip PROVE Kept(q)'
  BY PruneKeeps DEF Prune, history
<1> QED
  BY <1>1, <1>2 DEF IInv

LEMMA PardonInv == ASSUME IInv, NEW p \in Ip, Pardon(p) PROVE IInv'
<1>1. TypeOK'
  BY ForgetType DEF Pardon, IInv, TypeOK, Never
<1>2. ASSUME NEW q \in Ip \ {p} PROVE Kept(q)'
  BY PruneKeeps DEF Pardon, IInv, TypeOK
<1>3. Kept(p)'
  <2>1. p \notin listed' /\ blocker'[p].ids = {} /\ passed'[p] = {}
    BY DEF Pardon, Forget, Fresh, IInv, TypeOK
  <2>2. Today(p)' = {}
    BY DEF Pardon, IInv, TypeOK, Today, Never
  <2> QED
    BY <2>1, <2>2, FS_EmptySet DEF Kept, Timed, Noted, Sized, Tallied
<1> QED
  BY <1>1, <1>2, <1>3 DEF IInv

\* The requests of passed[p] a second later.
Aged(p) == {<<e[1], e[2] + 1>> : e \in {e \in passed[p] : e[2] < Window}}

LEMMA AgedType ==
  ASSUME NEW p \in Ip, passed[p] \subseteq Nat \X (0..Window)
  PROVE  Aged(p) \subseteq Nat \X (0..Window)
BY DEF Aged

\* Growing older makes no request more.
LEMMA AgedTally ==
  ASSUME NEW p \in Ip, passed[p] \subseteq Nat \X (0..Window), IsFiniteSet(passed[p])
  PROVE  IsFiniteSet(Aged(p)) /\ Cardinality(Aged(p)) <= Cardinality(passed[p])
<1> DEFINE f == [e \in Aged(p) |-> <<e[1], e[2] - 1>>]
<1>1. \A e \in Aged(p) : \E d \in passed[p] : d \in Nat \X (0..Window) /\ e = <<d[1], d[2] + 1>>
  BY DEF Aged
<1>2. \A e \in Aged(p) : e \in Nat \X Nat /\ <<e[1], e[2] - 1>> \in passed[p]
  BY <1>1
<1>3. f \in Injection(Aged(p), passed[p])
  <2>1. f \in [Aged(p) -> passed[p]]
    BY <1>2
  <2>2. ASSUME NEW d \in Aged(p), NEW e \in Aged(p), f[d] = f[e] PROVE d = e
    <3>1. d \in Nat \X Nat /\ e \in Nat \X Nat
      BY <1>2
    <3>2. <<d[1], d[2] - 1>> = <<e[1], e[2] - 1>>
      BY <2>2
    <3> QED
      BY <3>1, <3>2
  <2> QED
    BY <2>1, <2>2 DEF Injection, IsInjective
<1> HIDE DEF f
<1> QED
  BY <1>3, FS_Injection

LEMMA TickTally ==
  ASSUME NEW p \in Ip, Tallied(p), blocker[p] \in Entries,
         passed[p] \subseteq Nat \X (0..Window), passed'[p] = Aged(p), listed' = listed,
         blocker'[p].hits = blocker[p].hits,
         p \in listed => blocker'[p].hitAge = Older(blocker[p].hitAge, Window)
  PROVE  Tallied(p)'
<1>1. IsFiniteSet(passed[p])
  BY DEF Tallied
<1>2. /\ IsFiniteSet(Aged(p)) /\ Cardinality(Aged(p)) <= Cardinality(passed[p])
      /\ Cardinality(Aged(p)) \in Nat /\ Cardinality(passed[p]) \in Nat
  BY <1>1, AgedTally, FS_CardinalityType
<1>3. CASE p \notin listed
  BY <1>2, <1>3 DEF Tallied, Aged
<1>4. CASE p \in listed
  <2>1. blocker[p].hits \in Nat /\ blocker[p].hitAge \in 0..Never(Window)
    BY DEF Entries, Never
  <2>2. Cardinality(Aged(p)) <= blocker[p].hits + 1
    <3>1. Cardinality(passed[p]) <= blocker[p].hits + 1
      BY <1>4 DEF Tallied
    <3> QED
      BY <1>2, <2>1, <3>1
  <2>3. ASSUME NEW e \in Aged(p) PROVE e[2] >= Older(blocker[p].hitAge, Window)
    <3>1. PICK d \in passed[p] : d[2] < Window /\ e = <<d[1], d[2] + 1>>
      BY DEF Aged
    <3>2. d[2] >= blocker[p].hitAge /\ d[2] \in Nat /\ e[2] = d[2] + 1
      BY <1>4, <3>1 DEF Tallied
    <3> QED
      BY <2>1, <3>2 DEF Older, Never
  <2> QED
    BY <1>2, <1>4, <2>2, <2>3 DEF Tallied
<1> QED
  BY <1>3, <1>4

LEMMA TickInv == ASSUME IInv, Tick PROVE IInv'
<1> USE DEF Tick
<1>1. ASSUME NEW p \in Ip
      PROVE  /\ blocker'[p] \in Entries /\ blocker'[p].ids = blocker[p].ids
             /\ blocker'[p].hits = blocker[p].hits
             /\ p \in listed =>
                  /\ blocker'[p].hitAge = Older(blocker[p].hitAge, Window)
                  /\ blocker'[p].idAge = Older(blocker[p].idAge, Day)
  <2>1. PICK b \in Entries : b = blocker[p]
    BY DEF IInv, TypeOK
  <2>2. /\ b.hitAge \in 0..Never(Window) /\ b.idAge \in 0..Never(Day)
    BY DEF Entries, Never
  <2>3. PICK h \in 0..(Window + 1), d \in 0..(Day + 1) :
          h = Older(b.hitAge, Window) /\ d = Older(b.idAge, Day)
    BY <2>2, OlderType DEF Never
  <2>4. [b EXCEPT !.hitAge = h, !.idAge = d] \in Entries
    BY DEF Entries
  <2>5. p \in listed => blocker'[p] = [b EXCEPT !.hitAge = h, !.idAge = d]
    BY <2>1, <2>3
  <2>6. p \notin listed => blocker'[p] = b
    BY <2>1
  <2> QED
    BY <2>1, <2>3, <2>4, <2>5, <2>6 DEF Entries
<1>2. TypeOK'
  <2>1. passed' \in [Ip -> SUBSET (Nat \X (0..Window))]
    <3>1. passed' = [p \in Ip |-> Aged(p)]
      BY DEF Aged
    <3> HIDE DEF Tick
    <3>2. \A p \in Ip : passed[p] \subseteq Nat \X (0..Window)
      BY DEF IInv, TypeOK
    <3>3. \A p \in Ip : Aged(p) \subseteq Nat \X (0..Window)
      BY <3>2, AgedType
    <3> QED
      BY <3>1, <3>3
  <2>2. introduced' \in [Ip -> [Id -> 0..Never(Day)]]
    BY OlderType DEF IInv, TypeOK
  <2>3. lastPass' \in [Ip -> 0..Never(Window)] /\ lastAdmit' \in [Ip -> 0..Never(Day)]
    BY OlderType DEF IInv, TypeOK
  <2>4. blocker' \in [Ip -> Entries]
    BY <1>1
  <2> QED
    BY <2>1, <2>2, <2>3, <2>4 DEF IInv, TypeOK
<1>3. ASSUME NEW p \in Ip PROVE Kept(p)'
  <2>1. Timed(p)'
    <3> SUFFICES ASSUME p \in listed
                 PROVE  /\ lastPass'[p] <= blocker'[p].hitAge
                        /\ lastAdmit'[p] <= blocker'[p].idAge
                        /\ \A i \in Id : introduced'[p][i] >= blocker'[p].idAge
      BY DEF Timed
    <3>1. /\ blocker[p].hitAge \in 0..Never(Window) /\ blocker[p].idAge \in 0..Never(Day)
          /\ lastPass[p] \in 0..Never(Window) /\ lastAdmit[p] \in 0..Never(Day)
          /\ \A i \in Id : introduced[p][i] \in 0..Never(Day)
          /\ Timed(p)
      BY DEF IInv, Kept, TypeOK, Entries, Never
    <3>2. lastPass'[p] <= blocker'[p].hitAge /\ lastAdmit'[p] <= blocker'[p].idAge
      <4>1. /\ Older(lastPass[p], Window) <= Older(blocker[p].hitAge, Window)
            /\ Older(lastAdmit[p], Day) <= Older(blocker[p].idAge, Day)
        BY <3>1, OlderOrder DEF Timed
      <4>2. /\ lastPass'[p] = Older(lastPass[p], Window)
            /\ lastAdmit'[p] = Older(lastAdmit[p], Day)
        OBVIOUS
      <4>3. /\ blocker'[p].hitAge = Older(blocker[p].hitAge, Window)
            /\ blocker'[p].idAge = Older(blocker[p].idAge, Day)
        BY <1>1
      <4> HIDE DEF Tick
      <4> QED
        BY <4>1, <4>2, <4>3
    <3>3. ASSUME NEW i \in Id PROVE introduced'[p][i] >= blocker'[p].idAge
      <4>1. Older(blocker[p].idAge, Day) <= Older(introduced[p][i], Day)
        BY <3>1, OlderOrder DEF Timed, Never
      <4>2. /\ Older(blocker[p].idAge, Day) \in 0..Never(Day)
            /\ Older(introduced[p][i], Day) \in 0..Never(Day)
        BY <3>1, OlderType
      <4> QED
        BY <1>1, <4>1, <4>2 DEF Never
    <3> QED
      BY <3>2, <3>3
  <2>2. Today(p)' \subseteq Today(p)
    <3>1. ASSUME NEW i \in Id, introduced'[p][i] <= Day PROVE introduced[p][i] <= Day
      <4>1. PICK n \in 0..Never(Day) : n = introduced[p][i]
        BY DEF IInv, TypeOK
      <4>2. introduced'[p][i] = Older(n, Day)
        BY <4>1
      <4>3. Older(n, Day) <= Day => n <= Day
        BY OlderType
      <4> QED
        BY <3>1, <4>1, <4>2, <4>3
    <3> QED
      BY <3>1 DEF Today
  <2>3. Noted(p)' /\ Sized(p)'
    BY <1>1, <2>2 DEF IInv, Kept, Noted, Sized
  <2>4. Tallied(p)'
    BY <1>1, TickTally DEF IInv, Kept, TypeOK, Aged
  <2> QED
    BY <2>1, <2>3, <2>4 DEF Kept
<1> QED
  BY <1>2, <1>3 DEF IInv

LEMMA NextInv == IInv /\ [Next]_vars => IInv'
<1> SUFFICES ASSUME IInv, [Next]_vars PROVE IInv'
  OBVIOUS
<1>1. CASE UNCHANGED vars
  BY <1>1 DEF IInv, Kept, TypeOK, Timed, Noted, Sized, Today, Tallied, vars, code, history
<1>2. CASE \E p \in Ip : TooFast(p)
  BY <1>1, <1>2 DEF TooFast
<1> QED
  BY <1>1, <1>2, FirstInv, FullInv, AdmitInv, PruneInv, PardonInv, TickInv DEF Next

\* What the theorems rest on.
LEMMA Inductive == Spec => []IInv
BY InitInv, NextInv, PTL DEF Spec

-----------------------------------------------------------------------------
\* IP_BLOCKER's counters keep within their bounds, and the ages within theirs.
THEOREM TypeCorrect == Spec => []TypeOK
<1>1. IInv => TypeOK
  BY DEF IInv
<1> QED
  BY <1>1, Inductive, PTL

\* At most IdLimit + 2 new ids of an address are let in during a day.
THEOREM NewIdsBounded == Spec => []NewIdsAreBounded
<1>1. IInv => NewIdsAreBounded
  <2> SUFFICES ASSUME IInv, NEW p \in Ip PROVE Cardinality(Today(p)) <= IdLimit + 2
    BY DEF NewIdsAreBounded, Today
  <2>1. Noted(p) /\ Sized(p)
    BY DEF IInv, Kept
  <2>2. CASE Today(p) = {}
    BY <2>2, FS_EmptySet
  <2>3. CASE Today(p) # {}
    <3>1. PICK x \in Id : Today(p) \subseteq blocker[p].ids \cup {x}
      BY <2>1, <2>3 DEF Noted
    <3> DEFINE S == blocker[p].ids \cup {x}
    <3>2. IsFiniteSet(S) /\ Cardinality(S) <= IdLimit + 2 /\ Cardinality(S) \in Nat
      <4>1. /\ IsFiniteSet(S)
            /\ Cardinality(S) \in
                 {Cardinality(blocker[p].ids), Cardinality(blocker[p].ids) + 1}
        BY <2>1, FS_AddElement DEF Sized
      <4>2. Cardinality(blocker[p].ids) \in Nat
        BY <2>1, FS_CardinalityType DEF Sized
      <4> HIDE DEF S
      <4> QED
        BY <2>1, <4>1, <4>2 DEF Sized
    <3>3. Cardinality(Today(p)) <= Cardinality(S) /\ Cardinality(Today(p)) \in Nat
      BY <3>1, <3>2, FS_Subset, FS_CardinalityType
    <3> QED
      BY <3>2, <3>3
  <2> QED
    BY <2>2, <2>3
<1> QED
  BY <1>1, Inductive, PTL

\* At most Burst + 2 requests of an address pass the rate test in a window, whatever
\* is pruned meanwhile.
THEOREM BurstsAreBounded == Spec => []BurstIsBounded
<1>1. IInv => BurstIsBounded
  <2> SUFFICES ASSUME IInv, NEW p \in Ip PROVE Cardinality(passed[p]) <= Burst + 2
    BY DEF BurstIsBounded
  <2>1. Tallied(p) /\ blocker[p].hits \in 0..(Burst + 1)
    BY DEF IInv, Kept, TypeOK, Entries
  <2>2. Cardinality(passed[p]) \in Nat
    BY <2>1, FS_CardinalityType DEF Tallied
  <2>3. CASE p \in listed
    BY <2>1, <2>2, <2>3 DEF Tallied
  <2>4. CASE p \notin listed
    BY <2>1, <2>4, FS_EmptySet DEF Tallied
  <2> QED
    BY <2>3, <2>4
<1> QED
  BY <1>1, Inductive, PTL

\* A refusal is never older than what it is for: insisting does not prolong it.
THEOREM RefusalsExpire == Spec => []BlocksExpire
<1>1. IInv => BlocksExpire
  BY DEF IInv, Kept, TypeOK, Timed, Entries, Never, BlocksExpire, Admits, Passes, HasRoom
<1> QED
  BY <1>1, Inductive, PTL

-----------------------------------------------------------------------------
(* RegistrationPace.                                                       *)

CONSTANTS Addr, Task, Most, Pace, Duration, MaxStreak
VARIABLES at, reg, changes, changesAge, task, streak, quiet, moved

Reg == INSTANCE RegistrationPace WITH Ip <- Addr, Burst <- Most

Addressed == CHOOSE p \in Addr : TRUE

LEMMA IdleType == ASSUME Reg!PaceAssumption, Addr # {} PROVE Reg!Idle \in Reg!Tasks
<1>1. Addressed \in Addr
  BY DEF Addressed
<1> QED
  BY <1>1 DEF Reg!Idle, Reg!Tasks, Addressed, Reg!PaceAssumption

\* The registration a task holds in "write" was read below the limit.
BelowBurst == \A t \in Task : task[t].pc = "write" => task[t].count < Most

\* reg_pk's Instant is that of the last registration accepted.
SameClock == reg.age = quiet /\ (quiet > Pace => streak = 0)

\* Every address of an entry of IP_CHANGES was counted after the entry was begun,
\* and within Duration of its beginning.
Dated ==
  \A p \in changes :
    /\ moved[p] <= changesAge
    /\ changesAge < Reg!Long => changesAge <= moved[p] + Duration

PaceInv == Addr # {} /\ Reg!TypeOK /\ BelowBurst /\ SameClock /\ Dated

LEMMA PaceInit == ASSUME Reg!PaceAssumption, Reg!Init PROVE PaceInv
<1>1. Addr # {}
  BY DEF Reg!Init
<1>2. Reg!TypeOK
  BY <1>1, IdleType DEF Reg!PaceAssumption, Reg!Init, Reg!TypeOK, Reg!Long
<1> QED
  BY <1>1, <1>2 DEF Reg!PaceAssumption, Reg!Init, PaceInv, BelowBurst, SameClock, Dated, Reg!Idle

LEMMA CheckInv ==
  ASSUME Reg!PaceAssumption, PaceInv, NEW t \in Task, NEW p \in Addr, NEW ws \in BOOLEAN,
         Reg!Check(t, p, ws)
  PROVE  PaceInv'
<1>1. [pc |-> "read", from |-> p, ws |-> ws, changed |-> p # at, count |-> 0] \in Reg!Tasks
  BY DEF Reg!PaceAssumption, Reg!Tasks
<1>2. Reg!TypeOK'
  BY <1>1 DEF PaceInv, Reg!TypeOK, Reg!Check, Reg!history
<1> QED
  BY <1>2 DEF Reg!Check, Reg!history, PaceInv, Reg!TypeOK, BelowBurst, SameClock, Dated

\* A task that starts again, or goes on with what is not a write, is idle or typed.
LEMMA RefuseInv ==
  ASSUME Reg!PaceAssumption, PaceInv, NEW t \in Task, Reg!Refuse(t)
  PROVE  PaceInv'
<1>1. Reg!TypeOK'
  BY IdleType DEF PaceInv, Reg!TypeOK, Reg!Refuse, Reg!history
<1> QED
  BY <1>1 DEF Reg!Refuse, Reg!history, PaceInv, Reg!TypeOK, BelowBurst, SameClock, Dated, Reg!Idle

LEMMA ReadInv ==
  ASSUME Reg!PaceAssumption, PaceInv, NEW t \in Task, Reg!Read(t)
  PROVE  PaceInv'
<1>1. Reg!Count(reg) \in 0..Most /\ Reg!Count(reg) < Most
  BY DEF PaceInv, Reg!TypeOK, Reg!Read, Reg!Count, Reg!PaceAssumption
<1>2. Reg!TypeOK'
  BY <1>1 DEF PaceInv, Reg!TypeOK, Reg!Read, Reg!history, Reg!Tasks
<1> QED
  BY <1>1, <1>2 DEF Reg!Read, Reg!history, PaceInv, Reg!TypeOK, BelowBurst, SameClock, Dated

LEMMA WriteInv ==
  ASSUME Reg!PaceAssumption, PaceInv, NEW t \in Task, Reg!Write(t)
  PROVE  PaceInv'
<1>1. task[t].count + 1 \in 0..Most
  BY DEF PaceInv, Reg!TypeOK, Reg!Tasks, BelowBurst, Reg!Write, Reg!PaceAssumption
<1>2. Reg!TypeOK'
  BY <1>1 DEF PaceInv, Reg!TypeOK, Reg!Write, Reg!Tasks, Reg!PaceAssumption
<1> QED
  BY <1>2 DEF Reg!Write, PaceInv, Reg!TypeOK, BelowBurst, SameClock, Dated, Reg!PaceAssumption

\* The address counted now is no older than the entry, which is not older than
\* Duration.
LEMMA NoteInv ==
  ASSUME Reg!PaceAssumption, PaceInv, NEW t \in Task, Reg!Note(t)
  PROVE  PaceInv'
<1>1. task[t].from \in Addr
  BY DEF PaceInv, Reg!TypeOK, Reg!Tasks
<1>2. Reg!TypeOK'
  BY <1>1 DEF PaceInv, Reg!TypeOK, Reg!Note, Reg!Tasks, Reg!Long, Reg!PaceAssumption
<1>3. Dated'
  <2>1. CASE changes = {} \/ changesAge > Duration
    BY <1>1, <2>1 DEF Reg!Note, PaceInv, Reg!TypeOK, Dated, Reg!PaceAssumption, Reg!Long
  <2>2. CASE ~(changes = {} \/ changesAge > Duration)
    BY <1>1, <2>2 DEF Reg!Note, PaceInv, Reg!TypeOK, Dated, Reg!PaceAssumption, Reg!Long
  <2> QED
    BY <2>1, <2>2
<1> QED
  BY <1>2, <1>3 DEF Reg!Note, PaceInv, Reg!TypeOK, BelowBurst, SameClock

LEMMA ApplyInv ==
  ASSUME Reg!PaceAssumption, PaceInv, NEW t \in Task, Reg!Apply(t)
  PROVE  PaceInv'
<1>1. task[t].from \in Addr
  BY DEF PaceInv, Reg!TypeOK, Reg!Tasks
<1>2. Reg!TypeOK'
  BY <1>1, IdleType DEF PaceInv, Reg!TypeOK, Reg!Apply, Reg!history
<1> QED
  BY <1>2 DEF Reg!Apply, Reg!history, PaceInv, Reg!TypeOK, BelowBurst, SameClock, Dated, Reg!Idle

\* Both clocks of an entry and its addresses run together, up to Long.
LEMMA PaceTick == ASSUME Reg!PaceAssumption, PaceInv, Reg!Tick PROVE PaceInv'
<1> USE DEF Reg!PaceAssumption, Reg!Long
<1>1. Reg!TypeOK'
  BY DEF PaceInv, Reg!TypeOK, Reg!Tick, Reg!Older
<1>2. Dated'
  <2> SUFFICES ASSUME NEW p \in changes
               PROVE  /\ moved'[p] <= changesAge'
                      /\ changesAge' < Reg!Long => changesAge' <= moved'[p] + Duration
    BY DEF Reg!Tick, Dated
  <2>1. moved'[p] = Reg!Older(moved[p], Reg!Long) /\ changesAge' = Reg!Older(changesAge, Reg!Long)
    BY DEF Reg!Tick, PaceInv, Reg!TypeOK
  <2>2. moved[p] \in 0..Reg!Long /\ changesAge \in 0..Reg!Long
    BY DEF PaceInv, Reg!TypeOK
  <2> QED
    BY <2>1, <2>2 DEF PaceInv, Dated, Reg!Older
<1>3. SameClock'
  BY DEF Reg!Tick, PaceInv, Reg!TypeOK, SameClock, Reg!Older
<1> QED
  BY <1>1, <1>2, <1>3 DEF Reg!Tick, PaceInv, BelowBurst

LEMMA PaceNext == ASSUME Reg!PaceAssumption, PaceInv, [Reg!Next]_(Reg!vars) PROVE PaceInv'
<1>1. CASE UNCHANGED Reg!vars
  BY <1>1 DEF Reg!vars, Reg!code, Reg!history, PaceInv, Reg!TypeOK, BelowBurst, SameClock, Dated
<1>2. ASSUME NEW t \in Task, NEW p \in Addr, NEW ws \in BOOLEAN, Reg!Check(t, p, ws)
      PROVE  PaceInv'
  BY <1>2, CheckInv
<1>3. ASSUME NEW t \in Task, Reg!Refuse(t) \/ Reg!Read(t) \/ Reg!Write(t)
                              \/ Reg!Note(t) \/ Reg!Apply(t)
      PROVE  PaceInv'
  BY <1>3, RefuseInv, ReadInv, WriteInv, NoteInv, ApplyInv
<1>4. ASSUME NEW remove \in BOOLEAN, Reg!IpChanges(remove) PROVE PaceInv'
  BY <1>4 DEF Reg!IpChanges, Reg!history, PaceInv, Reg!TypeOK, BelowBurst, SameClock, Dated,
              Reg!Long, Reg!PaceAssumption
<1>5. CASE Reg!Tick
  BY <1>5, PaceTick
<1> QED
  BY <1>1, <1>2, <1>3, <1>4, <1>5 DEF Reg!Next

\* The invariant holds at every step of every run.
THEOREM PaceInductive == ASSUME Reg!PaceAssumption PROVE Reg!Spec => []PaceInv
<1>1. Reg!Init => PaceInv
  BY PaceInit
<1>2. PaceInv /\ [Reg!Next]_(Reg!vars) => PaceInv'
  BY PaceNext
<1> QED
  BY <1>1, <1>2, PTL DEF Reg!Spec

\* The variables keep their types.
THEOREM PaceTypes == ASSUME Reg!PaceAssumption PROVE Reg!Spec => []Reg!TypeOK
<1>1. PaceInv => Reg!TypeOK
  BY DEF PaceInv
<1> QED
  BY <1>1, PaceInductive, PTL

\* Whatever ip-changes reports happened within Duration, however the tasks' notes,
\* the administrator's command and time interleave.
THEOREM ReportsOfOnePeriod == ASSUME Reg!PaceAssumption PROVE Reg!Spec => []Reg!ReportIsOfOnePeriod
<1>1. PaceInv => Reg!ReportIsOfOnePeriod
  BY DEF PaceInv, Reg!TypeOK, Dated, Reg!ReportIsOfOnePeriod, Reg!Reported,
         Reg!Long, Reg!PaceAssumption
<1> QED
  BY <1>1, PaceInductive, PTL

\* A registration is refused only within Pace of one that was accepted, however
\* many tasks write reg_pk back late.
THEOREM RefusalsAreEarned ==
  ASSUME Reg!PaceAssumption PROVE Reg!Spec => [][Reg!RefusalsDoNotCount]_(Reg!vars)
<1>1. PaceInv => Reg!RefusalsDoNotCount
  BY DEF PaceInv, Reg!TypeOK, SameClock, Reg!RefusalsDoNotCount, Reg!Refuse, Reg!Count,
         Reg!PaceAssumption
<1> QED
  BY <1>1, PaceInductive, PTL

-----------------------------------------------------------------------------
\* The count in reg_pk, and the copy of it that the one task holds, are at least
\* the streak.  With two tasks a copy may be older than the count it replaces.
PaceCounted ==
  /\ streak <= Most
  /\ quiet <= Pace => streak <= reg.count
  /\ \A t \in Task : task[t].pc = "write" => streak <= task[t].count

LEMMA CountedStep ==
  ASSUME Reg!PaceAssumption, \A t, u \in Task : t = u, PaceInv, PaceCounted, [Reg!Next]_(Reg!vars)
  PROVE  PaceCounted'
<1> USE DEF Reg!PaceAssumption, PaceCounted
<1>1. CASE UNCHANGED Reg!vars
  BY <1>1 DEF Reg!vars, Reg!code, Reg!history
<1>2. ASSUME NEW t \in Task, NEW p \in Addr, NEW ws \in BOOLEAN, Reg!Check(t, p, ws)
      PROVE  PaceCounted'
  BY <1>2 DEF Reg!Check, Reg!history, PaceInv, Reg!TypeOK
<1>3. ASSUME NEW t \in Task, Reg!Refuse(t) \/ Reg!Note(t) \/ Reg!Apply(t) PROVE PaceCounted'
  <2>1. UNCHANGED <<reg, streak, quiet>>
    BY <1>3 DEF Reg!Refuse, Reg!Note, Reg!Apply, Reg!history
  <2>2. \A u \in Task : task'[u].pc = "write" => task'[u] = task[u]
    <3>1. CASE Reg!Refuse(t) \/ Reg!Apply(t)
      BY <3>1 DEF Reg!Refuse, Reg!Apply, PaceInv, Reg!TypeOK, Reg!Idle
    <3>2. CASE Reg!Note(t)
      <4>1. task' = [task EXCEPT ![t].pc = "apply"]
        BY <3>2 DEF Reg!Note
      <4> QED
        BY <4>1 DEF PaceInv, Reg!TypeOK, Reg!Tasks
    <3> QED
      BY <1>3, <3>1, <3>2
  <2> QED
    BY <2>1, <2>2
<1>4. ASSUME NEW t \in Task, Reg!Read(t) PROVE PaceCounted'
  <2>1. streak <= Reg!Count(reg)
    BY <1>4 DEF Reg!Count, PaceInv, Reg!TypeOK, SameClock
  <2> QED
    BY <1>4, <2>1 DEF Reg!Read, Reg!history, PaceInv, Reg!TypeOK
<1>5. ASSUME NEW t \in Task, Reg!Write(t) PROVE PaceCounted'
  <2>1. streak <= task[t].count /\ task[t].count < Most /\ task[t].count \in Nat
    BY <1>5 DEF Reg!Write, PaceInv, Reg!TypeOK, Reg!Tasks, BelowBurst
  <2>2. streak' <= task[t].count + 1
    BY <1>5, <2>1 DEF Reg!Write, PaceInv, Reg!TypeOK
  <2>3. \A u \in Task : task'[u].pc # "write"
    BY <1>5 DEF Reg!Write, PaceInv, Reg!TypeOK
  <2>4. streak' \in Nat
    BY <1>5 DEF Reg!Write, PaceInv, Reg!TypeOK
  <2> QED
    BY <1>5, <2>1, <2>2, <2>3, <2>4 DEF Reg!Write
<1>6. ASSUME NEW remove \in BOOLEAN, Reg!IpChanges(remove) PROVE PaceCounted'
  BY <1>6 DEF Reg!IpChanges, Reg!history
<1>7. CASE Reg!Tick
  <2>1. streak' <= streak /\ streak' \in Nat /\ task' = task /\ reg'.count = reg.count
    BY <1>7 DEF Reg!Tick, PaceInv, Reg!TypeOK
  <2>2. quiet' <= Pace => quiet <= Pace
    BY <1>7 DEF Reg!Tick, Reg!Older, PaceInv, Reg!TypeOK
  <2> QED
    BY <2>1, <2>2 DEF PaceInv, Reg!TypeOK, Reg!Tasks
<1> QED
  BY <1>1, <1>2, <1>3, <1>4, <1>5, <1>6, <1>7 DEF Reg!Next

\* Where registrations of an id do not overlap, a streak is no longer than the
\* code's limit, whatever the limit, the pace and the delays within a registration.
THEOREM StreaksAreBounded ==
  ASSUME Reg!PaceAssumption, \A t, u \in Task : t = u
  PROVE  Reg!Spec => []Reg!StreakIsBounded
<1>1. Reg!Init => PaceCounted
  BY PaceInit DEF Reg!Init, PaceCounted, Reg!Idle, Reg!PaceAssumption
<1>2. PaceInv /\ PaceCounted /\ [Reg!Next]_(Reg!vars) => PaceCounted'
  BY CountedStep
<1>3. PaceCounted => Reg!StreakIsBounded
  BY DEF PaceCounted, Reg!StreakIsBounded
<1> QED
  BY <1>1, <1>2, <1>3, PaceInductive, PTL DEF Reg!Spec

-----------------------------------------------------------------------------
\* The count that two tasks can still put in reg_pk: that of the copy a task holds, or of
\* reg_pk itself, which it may read.
Held(t) == IF task[t].pc = "write" THEN task[t].count ELSE reg.count

\* Twice the registrations that two tasks which both hold n can still have accepted.
Spare(n) == (Most - n) * (Most - n + 3)

\* The lower count is the one that brings the other back; what lies between them is lost.
Within(t, u) ==
  Held(t) <= Held(u) => 2 * streak + Spare(Held(t)) + 2 * Held(t) <= Spare(0) + 2 * Held(u)

Overrun(a, b) == quiet <= Pace => Within(a, b) /\ Within(b, a)

\* What two tasks have left after one more registration, with the lower count.
LEMMA SpareFalls ==
  ASSUME Reg!PaceAssumption, NEW n \in 0..Most, NEW k \in 0..Most, n < k
  PROVE  Spare(n) >= Spare(k) + 2 * (k - n) /\ Spare(n) \in Nat /\ Spare(k) \in Nat
<1>1. PICK x \in Nat : x = Most - n
  BY DEF Reg!PaceAssumption
<1>2. PICK y \in Nat : y = Most - k
  BY DEF Reg!PaceAssumption
<1>3. PICK d \in Nat : x = y + d
  BY <1>1, <1>2 DEF Reg!PaceAssumption
<1>4. x * (x + 3) = y * (y + 3) + d * (2 * y + d + 3)
  BY <1>3
<1>5. d * (2 * y + d + 3) >= d * 2
  <2>1. PICK e \in Nat : 2 * y + d + 3 = 2 + e
    BY <1>3
  <2>2. d * (2 + e) = d * 2 + d * e /\ d * e \in Nat
    OBVIOUS
  <2> QED
    BY <2>1, <2>2
<1>6. x * (x + 3) \in Nat /\ y * (y + 3) \in Nat
  OBVIOUS
<1>7. Spare(n) = x * (x + 3) /\ Spare(k) = y * (y + 3)
  BY <1>1, <1>2 DEF Spare
<1>8. d = k - n
  BY <1>1, <1>2, <1>3 DEF Reg!PaceAssumption
<1> QED
  BY <1>4, <1>5, <1>6, <1>7, <1>8

LEMMA SpareNext ==
  ASSUME Reg!PaceAssumption, NEW n \in 0..Most, n < Most
  PROVE  Spare(n) = Spare(n + 1) + 2 * (Most - n + 1)
<1>1. PICK y \in Nat : y = Most - (n + 1)
  BY DEF Reg!PaceAssumption
<1>2. Most - n = y + 1
  BY <1>1 DEF Reg!PaceAssumption
<1>3. (y + 1) * (y + 1 + 3) = y * (y + 3) + 2 * (y + 2)
  OBVIOUS
<1> QED
  BY <1>1, <1>2, <1>3 DEF Spare

LEMMA SpareTyped ==
  ASSUME Reg!PaceAssumption, NEW n \in 0..Most
  PROVE  Spare(n) \in Nat /\ Spare(n) >= 2 * (Most - n)
<1>1. PICK x \in Nat : x = Most - n
  BY DEF Reg!PaceAssumption
<1>2. x * (x + 3) = x * x + 3 * x /\ x * x \in Nat
  OBVIOUS
<1> QED
  BY <1>1, <1>2 DEF Spare

LEMMA HeldTyped ==
  ASSUME Reg!PaceAssumption, PaceInv, NEW t \in Task
  PROVE  Held(t) \in 0..Most
BY DEF PaceInv, Reg!TypeOK, Reg!Tasks, Held, Reg!PaceAssumption

\* A write takes one registration of those left, for a copy is below the limit.
LEMMA OverrunWrite ==
  ASSUME Reg!PaceAssumption, NEW a \in Task, NEW b \in Task, PaceInv, Overrun(a, b), Reg!Write(a)
  PROVE  Overrun(a, b)'
<1> DEFINE k == task[a].count
           y == Held(b)
<1>1. /\ k \in Nat /\ k < Most /\ Held(a) = k
      /\ y \in 0..Most /\ k + 1 \in 0..Most /\ k \in 0..Most
  <2>1. k \in Nat /\ k < Most /\ Held(a) = k
    BY DEF PaceInv, Reg!TypeOK, Reg!Tasks, BelowBurst, Reg!Write, Held, Reg!PaceAssumption
  <2> QED
    BY <2>1, HeldTyped DEF Reg!PaceAssumption
<1>2. /\ Held(a)' = k + 1
      /\ Held(b)' = y \/ (Held(b)' = k + 1 /\ (b = a \/ task[b].pc # "write"))
  <2>1. reg'.count = k + 1
    BY DEF Reg!Write
  <2>2. task'[a].pc # "write"
    BY DEF Reg!Write, PaceInv, Reg!TypeOK
  <2>3. b # a => task'[b] = task[b]
    BY DEF Reg!Write, PaceInv, Reg!TypeOK
  <2>4. Held(a)' = k + 1
    BY <2>1, <2>2 DEF Held
  <2>5. b # a /\ task[b].pc = "write" => Held(b)' = y
    BY <2>3 DEF Held
  <2>6. b # a /\ task[b].pc # "write" => Held(b)' = k + 1
    BY <2>1, <2>3 DEF Held
  <2> QED
    BY <2>4, <2>5, <2>6
<1>3. Held(b)' = y \/ (Held(b)' = k + 1 /\ (b = a \/ y = reg.count))
  BY <1>2 DEF Held
<1>4. streak \in Nat /\ streak' = (IF quiet > Pace THEN 1 ELSE streak + 1)
  BY DEF Reg!Write, PaceInv, Reg!TypeOK
<1>5. /\ Spare(k) = Spare(k + 1) + 2 * (Most - k + 1)
      /\ Spare(k) \in Nat /\ Spare(k + 1) \in Nat /\ Spare(y) \in Nat /\ Spare(0) \in Nat
      /\ Most - k \in Nat /\ Most - k >= 1 /\ 0 \in 0..Most
  BY <1>1, SpareNext, SpareTyped DEF Reg!PaceAssumption
<1>6. Spare(0) >= Spare(k + 1) + 2 * (k + 1)
  BY <1>1, <1>5, SpareFalls
<1>7. y > 0 => Spare(0) >= Spare(y) + 2 * y
  BY <1>1, <1>5, SpareFalls
<1>8. y < k + 1 => Spare(y) >= Spare(k + 1) + 2 * (k + 1 - y)
  BY <1>1, SpareFalls
<1>9. y \in Nat /\ y <= Most /\ Most \in Nat
  BY <1>1 DEF Reg!PaceAssumption
<1>10. /\ Spare(Held(a))' = Spare(k + 1)
       /\ Held(b)' = y => Spare(Held(b))' = Spare(y)
       /\ Held(b)' = k + 1 => Spare(Held(b))' = Spare(k + 1)
       /\ Spare(0)' = Spare(0)
  BY <1>2 DEF Spare
<1>11. CASE quiet > Pace
  <2>1. streak' = 1
    BY <1>4, <1>11
  <2>2. CASE Held(b)' = y
    BY <2>1, <2>2, <1>1, <1>2, <1>5, <1>6, <1>7, <1>9, <1>10 DEF Overrun, Within
  <2>3. CASE Held(b)' = k + 1
    BY <2>1, <2>3, <1>1, <1>2, <1>5, <1>6, <1>10 DEF Overrun, Within
  <2> QED
    BY <2>2, <2>3, <1>3
<1>12. CASE ~(quiet > Pace)
  <2>1. streak' = streak + 1
    BY <1>4, <1>12
  <2>2. quiet <= Pace
    BY <1>12 DEF PaceInv, Reg!TypeOK, Reg!PaceAssumption
  <2>3. /\ k <= y => 2 * streak + Spare(k) + 2 * k <= Spare(0) + 2 * y
        /\ y <= k => 2 * streak + Spare(y) + 2 * y <= Spare(0) + 2 * k
    BY <2>2, <1>1 DEF Overrun, Within
  <2>4. CASE Held(b)' = y
    BY <2>1, <2>3, <2>4, <1>1, <1>2, <1>4, <1>5, <1>9, <1>10 DEF Overrun, Within
  <2>5. CASE Held(b)' = k + 1
    <3>1. 2 * streak + 2 + Spare(k + 1) <= Spare(0)
      BY <2>3, <1>1, <1>4, <1>5, <1>8, <1>9
    <3> QED
      BY <3>1, <2>1, <2>5, <1>1, <1>2, <1>4, <1>5, <1>10 DEF Overrun, Within
  <2> QED
    BY <2>4, <2>5, <1>3
<1> QED
  BY <1>11, <1>12

\* Nothing else accepts a registration, and a copy is of what reg_pk holds.
LEMMA OverrunStep ==
  ASSUME Reg!PaceAssumption, NEW a \in Task, NEW b \in Task, Task = {a, b},
         PaceInv, Overrun(a, b), [Reg!Next]_(Reg!vars)
  PROVE  Overrun(a, b)'
<1>1. ASSUME streak' \in Nat, streak' <= streak, quiet' <= Pace => quiet <= Pace,
             quiet' <= Pace => \A t \in Task : Held(t)' = Held(t)
      PROVE  Overrun(a, b)'
  <2> SUFFICES ASSUME quiet' <= Pace PROVE Within(a, b)' /\ Within(b, a)'
    BY DEF Overrun
  <2>1. Held(a)' = Held(a) /\ Held(b)' = Held(b) /\ Within(a, b) /\ Within(b, a)
    BY <1>1 DEF Overrun
  <2>2. /\ Spare(Held(a))' = Spare(Held(a)) /\ Spare(Held(b))' = Spare(Held(b))
        /\ Spare(0)' = Spare(0)
    BY <2>1 DEF Spare
  <2>3. /\ Held(a) \in Nat /\ Held(b) \in Nat /\ streak \in Nat /\ 0 \in 0..Most
        /\ Spare(Held(a)) \in Nat /\ Spare(Held(b)) \in Nat /\ Spare(0) \in Nat
    BY HeldTyped, SpareTyped DEF PaceInv, Reg!TypeOK, Reg!PaceAssumption
  <2> QED
    BY <2>1, <2>2, <2>3, <1>1 DEF Within
<1>2. streak \in Nat /\ quiet \in Nat /\ reg.count \in Nat /\ Pace \in Nat
  BY DEF PaceInv, Reg!TypeOK, Reg!PaceAssumption
<1>3. CASE UNCHANGED Reg!vars
  BY <1>1, <1>3, <1>2 DEF Reg!vars, Reg!code, Reg!history, Held
<1>4. ASSUME NEW t \in Task, NEW p \in Addr, NEW ws \in BOOLEAN, Reg!Check(t, p, ws)
      PROVE  Overrun(a, b)'
  <2>1. \A u \in Task : Held(u)' = Held(u)
    BY <1>4 DEF Reg!Check, Held, PaceInv, Reg!TypeOK
  <2> QED
    BY <1>1, <1>4, <1>2, <2>1 DEF Reg!Check, Reg!history
<1>5. ASSUME NEW t \in Task, Reg!Refuse(t) \/ Reg!Note(t) \/ Reg!Apply(t) PROVE Overrun(a, b)'
  <2>1. UNCHANGED <<reg, streak, quiet>>
    BY <1>5 DEF Reg!Refuse, Reg!Note, Reg!Apply, Reg!history
  <2>2. \A u \in Task : u # t => task'[u] = task[u]
    BY <1>5 DEF Reg!Refuse, Reg!Note, Reg!Apply, PaceInv, Reg!TypeOK
  <2>3. task[t].pc # "write" /\ task'[t].pc # "write"
    <3>1. CASE Reg!Refuse(t) \/ Reg!Apply(t)
      BY <3>1 DEF Reg!Refuse, Reg!Apply, PaceInv, Reg!TypeOK, Reg!Idle
    <3>2. CASE Reg!Note(t)
      <4>1. task' = [task EXCEPT ![t].pc = "apply"] /\ task[t].pc = "note"
        BY <3>2 DEF Reg!Note
      <4> QED
        BY <4>1 DEF PaceInv, Reg!TypeOK, Reg!Tasks
    <3> QED
      BY <1>5, <3>1, <3>2
  <2>4. \A u \in Task : Held(u)' = Held(u)
    BY <2>1, <2>2, <2>3 DEF Held
  <2> QED
    BY <1>1, <1>2, <2>1, <2>4
<1>6. ASSUME NEW t \in Task, Reg!Read(t) PROVE Overrun(a, b)'
  <2>1. UNCHANGED <<reg, streak, quiet>> /\ task[t].pc = "read"
    BY <1>6 DEF Reg!Read, Reg!history
  <2>2. \A u \in Task : u # t => task'[u] = task[u]
    BY <1>6 DEF Reg!Read, PaceInv, Reg!TypeOK
  <2>3. task'[t].pc = "write" /\ task'[t].count = Reg!Count(reg)
    BY <1>6 DEF Reg!Read, PaceInv, Reg!TypeOK, Reg!Tasks
  <2>4. quiet <= Pace => Reg!Count(reg) = reg.count
    BY DEF Reg!Count, PaceInv, SameClock, Reg!TypeOK, Reg!PaceAssumption
  <2>5. quiet' <= Pace => \A u \in Task : Held(u)' = Held(u)
    BY <2>1, <2>2, <2>3, <2>4 DEF Held
  <2> QED
    BY <1>1, <1>2, <2>1, <2>5
<1>7. ASSUME NEW t \in Task, Reg!Write(t) PROVE Overrun(a, b)'
  <2>1. CASE t = a
    BY <1>7, <2>1, OverrunWrite
  <2>2. CASE t = b
    <3>1. Overrun(b, a)
      BY DEF Overrun
    <3>2. Overrun(b, a)'
      BY <1>7, <2>2, <3>1, OverrunWrite
    <3> QED
      BY <3>2 DEF Overrun
  <2> QED
    BY <2>1, <2>2
<1>8. ASSUME NEW remove \in BOOLEAN, Reg!IpChanges(remove) PROVE Overrun(a, b)'
  BY <1>1, <1>8, <1>2 DEF Reg!IpChanges, Reg!history, Held
<1>9. CASE Reg!Tick
  <2>1. streak' <= streak /\ streak' \in Nat /\ task' = task /\ reg'.count = reg.count
    BY <1>9 DEF Reg!Tick, PaceInv, Reg!TypeOK
  <2>2. quiet' <= Pace => quiet <= Pace
    BY <1>9 DEF Reg!Tick, Reg!Older, PaceInv, Reg!TypeOK, Reg!PaceAssumption
  <2> QED
    BY <1>1, <2>1, <2>2 DEF Held
<1> QED
  BY <1>3, <1>4, <1>5, <1>6, <1>7, <1>8, <1>9 DEF Reg!Next

\* Two tasks may both hold copies of reg_pk, and whoever writes back the older one gives the
\* id what the other used: registrations in one streak are then at most
\* Most * (Most + 3) / 2.
THEOREM OverrunsEnd ==
  ASSUME Reg!PaceAssumption, NEW a \in Task, NEW b \in Task, Task = {a, b}
  PROVE  Reg!Spec => [](2 * streak <= Most * (Most + 3))
<1>1. Reg!Init => Overrun(a, b)
  <2> SUFFICES ASSUME Reg!Init PROVE Overrun(a, b)
    OBVIOUS
  <2>1. quiet = Pace + 1
    BY DEF Reg!Init
  <2> QED
    BY <2>1 DEF Overrun, Reg!PaceAssumption
<1>2. PaceInv /\ Overrun(a, b) /\ [Reg!Next]_(Reg!vars) => Overrun(a, b)'
  BY OverrunStep
<1>3. PaceInv /\ Overrun(a, b) => 2 * streak <= Most * (Most + 3)
  <2> SUFFICES ASSUME PaceInv, Overrun(a, b) PROVE 2 * streak <= Most * (Most + 3)
    OBVIOUS
  <2>1. Spare(0) = Most * (Most + 3) /\ Spare(0) \in Nat
    BY SpareTyped DEF Spare, Reg!PaceAssumption
  <2>2. CASE quiet > Pace
    BY <2>1, <2>2 DEF PaceInv, SameClock
  <2>3. CASE ~(quiet > Pace)
    <3>1. Within(a, b) /\ Within(b, a)
      BY <2>3 DEF Overrun, PaceInv, Reg!TypeOK, Reg!PaceAssumption
    <3>2. /\ Held(a) \in 0..Most /\ Held(b) \in 0..Most /\ streak \in Nat
          /\ Spare(Held(a)) \in Nat /\ Spare(Held(a)) >= 2 * (Most - Held(a))
          /\ Spare(Held(b)) \in Nat /\ Spare(Held(b)) >= 2 * (Most - Held(b))
      BY HeldTyped, SpareTyped DEF PaceInv, Reg!TypeOK
    <3>3. 2 * streak <= Spare(0)
      BY <3>1, <3>2, <2>1 DEF Within, Reg!PaceAssumption
    <3> QED
      BY <3>3, <2>1
  <2> QED
    BY <2>2, <2>3
<1> QED
  BY <1>1, <1>2, <1>3, PaceInductive, PTL DEF Reg!Spec

\* Copies written back late win an id further registrations, but where two tasks handle them,
\* and with the code's limit of three, never more than three times that limit.
THEOREM OverrunsAreBounded ==
  ASSUME Reg!PaceAssumption, Most <= 3, NEW a \in Task, NEW b \in Task, Task = {a, b}
  PROVE  Reg!Spec => []Reg!OverrunIsBounded
<1>1. PaceInv /\ 2 * streak <= Most * (Most + 3) => Reg!OverrunIsBounded
  <2> SUFFICES ASSUME PaceInv, 2 * streak <= Most * (Most + 3) PROVE Reg!OverrunIsBounded
    OBVIOUS
  <2>1. Most \in {1, 2, 3}
    BY DEF Reg!PaceAssumption
  <2> QED
    BY <2>1 DEF Reg!OverrunIsBounded, PaceInv, Reg!TypeOK
<1> QED
  BY <1>1, PaceInductive, OverrunsEnd, PTL
=============================================================================
