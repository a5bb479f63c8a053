------------------------- MODULE FileTransfer_proofs -------------------------
(***************************************************************************)
(* Proofs about FileTransfer, for any jobs, files and blocks, any number   *)
(* of errors and lost connections.  The invariant follows each download by *)
(* itself: what its read job is at, what its write job and the folder on   *)
(* disk hold, and what is under way between them, by the phase it is in.   *)
(***************************************************************************)
EXTENDS FileTransfer, Integers, FiniteSets, FiniteSetTheorems, SequenceTheorems,
        WellFoundedInduction, TLAPS

LEMMA LeastNat ==
  ASSUME NEW S, S \subseteq Nat, S # {}
  PROVE  \E n \in S : \A m \in S : n <= m
<1>1. PICK n \in S : \A m \in S : <<m, n>> \notin OpToRel(<, Nat)
  BY NatLessThanWellFounded, WFMin
<1>2. \A m \in S : ~(m < n)
  BY <1>1 DEF OpToRel
<1> QED
  BY <1>2

-----------------------------------------------------------------------------
(* What is under way, by phase.                                            *)

\* The first n blocks of a file, and the n-th message about a file's blocks: the last one,
\* after every block, is empty.
Prefix(n) == [i \in 1..n |-> i]
Stored(n) == Prefix(IF n <= Blocks THEN n ELSE Blocks)
BlockOf(f, n) ==
  [k |-> "block", f |-> f, data |-> IF n <= Blocks THEN <<n>> ELSE <<>>]
DigestOf(f) == [k |-> "digest", f |-> f]
Ends(m) == m.k \in {"done", "error"}

\* What a folder d holds, and the user said of its files in a.
Allowed(d, a, f) == d[f].final = <<Before>> => a[f] = "over"
Met(d, a, f) == d[f].final = <<Whole>> \/ a[f] = "skip"

\* A file's content becomes another, as far as it was allowed.
Consents(d, e, a) == \A g \in 1..Files : e[g].final # d[g].final => Allowed(d, a, g)

\* Only the file f of a folder has a part, those before it are done with.
Kept(d, a, f) ==
  /\ \A g \in 1..Files : g < f => Met(d, a, g)
  /\ \A g \in 1..Files : g # f => d[g].part = <<>>
  /\ \A g \in 1..Files : d[g].digest <=> d[g].part # <<>>
  /\ \A g \in 1..Files : g = f /\ d[g].part # <<>> => Allowed(d, a, g)

\* The write job w is between two files, the next to come is f.
Between(w, d, a, f) ==
  /\ w.file <= f
  /\ w.file = f => ~w.open /\ (f <= Files => d[f].part = <<>>)
  /\ w.file < f => d[w.file].part \in {<<>>, <<Whole>>}
  /\ \A g \in 1..Files : g < f => Met(d, a, g) \/ (g = w.file /\ d[g].part # <<>>)

\* It found a part of f and will tell the host from where to go on.
Partly(w, d, f) == f <= Files /\ w.file = f /\ ~w.open /\ w.resume /\ d[f].part # <<>>

\* It has written n messages of f.
Amid(w, d, a, f, n) ==
  IF n = 0 THEN Between(w, d, a, f)
  ELSE w.file = f /\ w.open /\ d[f].part = <<Stored(n)>>

\* D is what is under way of the first n messages about f.
InFile(w, d, a, f, D, n) ==
  /\ f \in 1..Files
  /\ Len(D) <= n
  /\ \A i \in 1..Len(D) : D[i] = BlockOf(f, n - Len(D) + i)
  /\ Allowed(d, a, f)
  /\ Amid(w, d, a, f, n - Len(D))

\* D is what is under way when f is next.
Past(w, d, a, f, D) ==
  IF D = <<>> THEN Between(w, d, a, f) ELSE InFile(w, d, a, f - 1, D, Blocks + 1)
Leads(w, d, a, f, D) ==
  Past(w, d, a, f, D) \/ (D = <<>> /\ Partly(w, d, f))

\* The phases of a download, by the state of its read job r, its write job w, the folder d,
\* the answers a, the questions Q, and what is under way to the host (H) and back (D).
Sending(w, d, a, H, D) ==
  /\ H = <<[k |-> "send", f |-> w.file]>> /\ D = <<>>
  /\ Leads(w, d, a, w.file, <<>>)
  /\ w.strategy = "ask"

Rests(r) == ~r.confirmed /\ r.pos = 0
Waits(r) == Rests(r) /\ r.waiting /\ r.open /\ r.file <= Files
Obeys(w, a, f) ==
  w.strategy # "ask" => \A g \in 1..Files : g >= f => a[g] = w.strategy

Opening(r, w, d, a, H, D) ==
  /\ H = <<>> /\ Rests(r) /\ ~r.waiting /\ r.file <= Files + 1
  /\ Leads(w, d, a, r.file, D)
  /\ Obeys(w, a, r.file)

Announcing(r, w, d, a, H, D) ==
  /\ H = <<>> /\ Waits(r)
  /\ D # <<>> /\ D[Len(D)] = DigestOf(r.file)
  /\ Leads(w, d, a, r.file, SubSeq(D, 1, Len(D) - 1))
  /\ Obeys(w, a, r.file)

Asking(r, w, d, a, H, D, Q) ==
  /\ H = <<>> /\ D = <<>> /\ Waits(r)
  /\ Q \subseteq {r.file}
  /\ Q # {} => Between(w, d, a, r.file) /\ w.strategy = "ask"

Confirming(r, w, d, a, H, D) ==
  /\ Len(H) = 1 /\ D = <<>> /\ Waits(r)
  /\ H[1].k = "confirm" /\ H[1].f = r.file /\ H[1].offset \in 0..Blocks
  /\ IF H[1].skip THEN Between(w, d, a, r.file + 1)
     ELSE InFile(w, d, a, r.file, <<>>, H[1].offset)
  /\ Obeys(w, a, r.file)

Streaming(r, w, d, a, H, D) ==
  /\ H = <<>> /\ r.confirmed /\ r.open /\ r.pos <= Blocks
  /\ InFile(w, d, a, r.file, D, r.pos)
  /\ Obeys(w, a, r.file)

Ending(w, d, a, H, D) ==
  /\ H = <<>>
  /\ \E e \in 1..Len(D) :
       LET rest == SubSeq(D, 1, e - 1) IN
       /\ Ends(D[e])
       /\ D[e].k = "done" => Past(w, d, a, Files + 1, rest)
       /\ D[e].k = "error" =>
            rest = <<>> \/ \E g \in 1..Files, n \in 1..(Blocks + 1) : InFile(w, d, a, g, rest, n)

\* After init_data_stream a file that is next was the last.
AfterOpening(r, w, d, a, H, D, Q) ==
  \/ /\ Q = {}
     /\ \/ Opening(r, w, d, a, H, D) /\ r.file > Files
        \/ Announcing(r, w, d, a, H, D)
        \/ Confirming(r, w, d, a, H, D)
        \/ Streaming(r, w, d, a, H, D)
        \/ Ending(w, d, a, H, D)
  \/ Asking(r, w, d, a, H, D, Q)

Live(r, w, d, a, H, D, Q) ==
  \/ /\ Q = {}
     /\ \/ Sending(w, d, a, H, D)
        \/ Opening(r, w, d, a, H, D)
        \/ Announcing(r, w, d, a, H, D)
        \/ Confirming(r, w, d, a, H, D)
        \/ Streaming(r, w, d, a, H, D)
        \/ Ending(w, d, a, H, D)
  \/ Asking(r, w, d, a, H, D, Q)

AskedOf(j) == {f \in 1..Files : <<j, f>> \in asked}

Parts == {<<>>} \union {<<Prefix(n)>> : n \in 1..Blocks}
ReadJob ==
  [file : Nat \ {0}, open : BOOLEAN, pos : Nat, confirmed : BOOLEAN,
   waiting : BOOLEAN, skipped : BOOLEAN]
WriteJob ==
  [file : 1..(Files + 1), open : BOOLEAN, resume : BOOLEAN, strategy : {"ask", "over", "skip"}]
Folder ==
  [1..Files -> [final : {<<>>, <<Before>>, <<Whole>>}, part : Parts,
                digest : BOOLEAN]]
Asks ==
  [k : {"send"}, f : 1..(Files + 1)] \union [k : {"cancel"}]
    \union [k : {"confirm"}, f : Nat, skip : BOOLEAN, offset : Nat]
Tells ==
  [k : {"digest"}, f : Nat] \union [k : {"done", "error"}]
    \union [k : {"block"}, f : Nat, data : Seq(Nat)]

TransferTypes ==
  /\ queue \in Seq(Jobs)
  /\ readers \in [Jobs -> ReadJob]
  /\ writers \in [Jobs -> {<<>>} \union {<<w>> : w \in WriteJob}]
  /\ disk \in [Jobs -> Folder]
  /\ toHost \in [Jobs -> Seq(Asks)]
  /\ toClient \in [Jobs -> Seq(Tells)]
  /\ asked \subseteq Jobs \X (1..Files)
  /\ answered \in [Jobs -> [1..Files -> {"no", "over", "skip"}]]
  /\ status \in [Jobs -> {"none", "running", "done", "error", "cancelled", "saved"}]
  /\ saved \in [Jobs -> 1..(Files + 1)]
  /\ errors \in Nat /\ losses \in Nat

Absent(j) == \A i \in 1..Len(queue) : queue[i] # j

Unbegun(j) ==
  /\ toHost[j] = <<>> /\ toClient[j] = <<>> /\ AskedOf(j) = {}
  /\ Absent(j)
  /\ Kept(disk[j], answered[j], saved[j])
  /\ status[j] = "none" => saved[j] = 1 /\ \A f \in 1..Files : disk[j][f].part = <<>>

JobInv(j) ==
  /\ status[j] = "running" <=> Writing(j)
  /\ \A i \in 1..Len(toHost[j]) : toHost[j][i].k = "send" => i = 1 /\ Absent(j)
  /\ status[j] \in {"none", "saved"} => Unbegun(j)
  /\ Writing(j) =>
       /\ Kept(disk[j], answered[j], writers[j][1].file)
       /\ Live(readers[j], writers[j][1], disk[j], answered[j], toHost[j], toClient[j],
               AskedOf(j))

TransferInv == TransferTypes /\ \A j \in Jobs : JobInv(j)

\* What else holds if an error ends the job it is about.
EndInv(j) ==
  /\ Writing(j) =>
       \A e \in 1..Len(toClient[j]) :
         Ends(toClient[j][e]) => e = Len(toClient[j]) /\ Absent(j)
  /\ status[j] \in {"done", "error"} =>
       toHost[j] = <<>> /\ toClient[j] = <<>> /\ Absent(j) /\ AskedOf(j) = {}
  /\ status[j] = "done" => \A f \in 1..Files : Met(disk[j], answered[j], f)

CompleteInv ==
  /\ \A i, k \in 1..Len(queue) : i # k => queue[i] # queue[k]
  /\ \A j \in Jobs : EndInv(j)

LEMMA TransferConstants ==
  ASSUME TransferAssumption
  PROVE  Files \in Nat /\ Files >= 1 /\ Blocks \in Nat /\ Blocks >= 1
         /\ Delegated \in BOOLEAN /\ MaxErrors \in Nat
BY DEF TransferAssumption

\* The host's list without a job has no other jobs than before, and none twice.
LEMMA RemovedFirst ==
  ASSUME NEW S, NEW q \in Seq(S), NEW j
  PROVE  LET left == RemoveFirst(q, j) IN
         /\ left \in Seq(S)
         /\ \A i \in 1..Len(left) : \E k \in 1..Len(q) : left[i] = q[k]
         /\ (\A i, k \in 1..Len(q) : i # k => q[i] # q[k])
              => \A i, k \in 1..Len(left) : i # k => left[i] # left[k]
<1> DEFINE At == {i \in 1..Len(q) : q[i] = j}
<1>1. CASE At = {}
  BY <1>1 DEF RemoveFirst
<1>2. CASE At # {}
  <2>1. At \subseteq Nat
    OBVIOUS
  <2>2. \E n \in At : \A m \in At : n <= m
    BY <1>2, <2>1, LeastNat
  <2> DEFINE e == Min(At)
  <2>3. e \in At
    BY <2>2 DEF Min
  <2>4. RemoveFirst(q, j) = SubSeq(q, 1, e - 1) \o SubSeq(q, e + 1, Len(q))
    BY <1>2 DEF RemoveFirst, RemoveAt, SelectInSeq
  <2> HIDE DEF e
  <2>5. e \in 1..Len(q) /\ Len(q) \in Nat
    BY <2>3
  <2> HIDE DEF At
  <2> DEFINE a == SubSeq(q, 1, e - 1)
             b == SubSeq(q, e + 1, Len(q))
  <2>6. /\ a \in Seq(S) /\ Len(a) = e - 1
        /\ \A i \in 1..(e - 1) : a[i] = q[i]
    <3>1. \A i \in 1..(e - 1) : q[i] \in S
      BY <2>5, ElementOfSeq
    <3> QED
      BY <2>5, <3>1, SubSeqProperties
  <2>7. /\ b \in Seq(S) /\ Len(b) = Len(q) - e
        /\ \A i \in 1..(Len(q) - e) : b[i] = q[e + i]
    <3>1. \A i \in (e + 1)..Len(q) : q[i] \in S
      BY <2>5, ElementOfSeq
    <3>2. /\ b \in Seq(S) /\ Len(b) = IF e + 1 <= Len(q) THEN Len(q) - (e + 1) + 1 ELSE 0
          /\ \A i \in 1..(Len(q) - (e + 1) + 1) : b[i] = q[e + 1 + i - 1]
      BY <2>5, <3>1, SubSeqProperties
    <3> QED
      BY <2>5, <3>2
  <2> HIDE DEF a, b
  <2>8. /\ a \o b \in Seq(S) /\ Len(a \o b) = Len(q) - 1
        /\ \A i \in 1..(Len(q) - 1) : (a \o b)[i] = IF i < e THEN q[i] ELSE q[i + 1]
    <3>1. /\ a \o b \in Seq(S) /\ Len(a \o b) = Len(a) + Len(b)
          /\ \A i \in 1..(Len(a) + Len(b)) :
               (a \o b)[i] = IF i <= Len(a) THEN a[i] ELSE b[i - Len(a)]
      BY <2>6, <2>7, ConcatProperties
    <3>2. Len(a) + Len(b) = Len(q) - 1
      BY <2>5, <2>6, <2>7
    <3>3. ASSUME NEW i \in 1..(Len(q) - 1)
          PROVE  (a \o b)[i] = IF i < e THEN q[i] ELSE q[i + 1]
      <4>1. CASE i < e
        BY <2>5, <2>6, <3>1, <3>2, <4>1
      <4>2. CASE ~(i < e)
        <5>1. (a \o b)[i] = b[i - (e - 1)]
          BY <2>5, <2>6, <3>1, <3>2, <4>2
        <5>2. i - (e - 1) \in 1..(Len(q) - e) /\ e + (i - (e - 1)) = i + 1
          BY <2>5, <4>2
        <5> QED
          BY <2>7, <4>2, <5>1, <5>2
      <4> QED
        BY <4>1, <4>2
    <3> QED
      BY <3>1, <3>2, <3>3
  <2>9. RemoveFirst(q, j) = a \o b
    BY <2>4 DEF a, b
  <2> DEFINE left == a \o b
  <2>10. \A i \in 1..Len(left) : \E k \in 1..Len(q) : left[i] = q[k]
    BY <2>5, <2>8
  <2>11. (\A i, k \in 1..Len(q) : i # k => q[i] # q[k])
           => \A i, k \in 1..Len(left) : i # k => left[i] # left[k]
    BY <2>5, <2>8
  <2> QED
    BY <2>8, <2>9, <2>10, <2>11
<1> QED
  BY <1>1, <1>2

LEMMA OneInPlace ==
  \A s, x : [<<s>> EXCEPT ![1] = x] = <<x>>
OBVIOUS

LEMMA StoredIs ==
  ASSUME TransferAssumption
  PROVE  /\ Stored(1) = <<1>>
         /\ Stored(Blocks) = Whole /\ Stored(Blocks + 1) = Whole
         /\ \A n \in 1..(Blocks + 1) : <<Stored(n)>> \in Parts
         /\ \A n \in 0..(Blocks + 1) : Stored(n) \in Seq(Nat) /\ Len(Stored(n)) =
              IF n <= Blocks THEN n ELSE Blocks
<1>1. Blocks \in Nat /\ Blocks >= 1
  BY TransferConstants
<1>2. \A n \in Nat : Prefix(n) \in Seq(Nat) /\ Len(Prefix(n)) = n
                     /\ \A i \in 1..n : Prefix(n)[i] = i
  BY DEF Prefix
<1>3. Stored(1) = <<1>>
  <2>1. <<1>> \in Seq(Nat) /\ Len(<<1>>) = 1 /\ <<1>>[1] = 1
    OBVIOUS
  <2>2. Prefix(1) = <<1>>
    <3>1. Len(Prefix(1)) = Len(<<1>>) /\ \A i \in 1..Len(Prefix(1)) : Prefix(1)[i] = <<1>>[i]
      BY <1>2, <2>1
    <3> QED
      BY <1>2, <2>1, <3>1, SeqEqual
  <2> QED
    BY <1>1, <2>2 DEF Stored
<1>4. Stored(Blocks) = Whole /\ Stored(Blocks + 1) = Whole
  BY <1>1 DEF Stored, Prefix, Whole
<1>5. \A n \in 1..(Blocks + 1) : <<Stored(n)>> \in Parts
  BY <1>1 DEF Stored, Parts
<1> QED
  BY <1>1, <1>2, <1>3, <1>4, <1>5 DEF Stored

LEMMA StoredNext ==
  ASSUME TransferAssumption, NEW n \in 1..Blocks, NEW f
  PROVE  Stored(n) \o BlockOf(f, n + 1).data = Stored(n + 1)
<1>1. Blocks \in Nat /\ Blocks >= 1
  BY TransferConstants
<1>2. \A k \in Nat : Prefix(k) \in Seq(Nat) /\ Len(Prefix(k)) = k
                     /\ \A i \in 1..k : Prefix(k)[i] = i
  BY DEF Prefix
<1>3. CASE n + 1 <= Blocks
  <2>1. Prefix(n) \o <<n + 1>> = Prefix(n + 1)
    <3>1. <<n + 1>> \in Seq(Nat) /\ Len(<<n + 1>>) = 1 /\ <<n + 1>>[1] = n + 1
      OBVIOUS
    <3>2. n \in Nat /\ n + 1 \in Nat
      OBVIOUS
    <3> DEFINE s == Prefix(n) \o <<n + 1>>
    <3>3. /\ s \in Seq(Nat) /\ Len(s) = Len(Prefix(n)) + 1
          /\ \A i \in 1..(Len(Prefix(n)) + 1) :
               s[i] = IF i <= Len(Prefix(n)) THEN Prefix(n)[i] ELSE <<n + 1>>[i - Len(Prefix(n))]
      BY <1>2, <3>1, <3>2, ConcatProperties
    <3>4. Len(s) = n + 1 /\ \A i \in 1..(n + 1) : s[i] = i
      BY <1>2, <3>1, <3>2, <3>3
    <3> HIDE DEF s
    <3>5. Len(s) = Len(Prefix(n + 1)) /\ \A i \in 1..Len(s) : s[i] = Prefix(n + 1)[i]
      BY <1>2, <3>2, <3>4
    <3>6. s = Prefix(n + 1)
      BY <1>2, <3>2, <3>3, <3>5, SeqEqual
    <3> QED
      BY <3>6 DEF s
  <2> QED
    BY <1>1, <1>3, <2>1 DEF Stored, BlockOf
<1>4. CASE ~(n + 1 <= Blocks)
  <2>1. n = Blocks
    BY <1>1, <1>4
  <2>2. Prefix(n) \o <<>> = Prefix(n)
    BY <1>2, ConcatEmptySeq
  <2>3. Stored(n) = Prefix(n) /\ Stored(n + 1) = Prefix(n) /\ BlockOf(f, n + 1).data = <<>>
    BY <1>1, <2>1, Zenon, SMT DEF Stored, BlockOf
  <2> QED
    BY <2>2, <2>3
<1> QED
  BY <1>3, <1>4

\* The last message about a file has arrived: the next file is next.
LEMMA FileEnds ==
  ASSUME TransferAssumption, NEW w \in WriteJob, NEW d \in Folder, NEW a,
         NEW f \in 1..Files, Kept(d, a, w.file),
         InFile(w, d, a, f, <<>>, Blocks + 1)
  PROVE  Between(w, d, a, f + 1)
<1>1. w.file = f /\ d[f].part = <<Whole>>
  BY TransferConstants, StoredIs DEF InFile, Amid
<1>2. f \in Nat /\ Files \in Nat /\ d[f].part # <<>>
  BY <1>1, TransferConstants
<1>3. \A g \in 1..Files : g < f + 1 => Met(d, a, g) \/ (g = w.file /\ d[g].part # <<>>)
  <2> SUFFICES ASSUME NEW g \in 1..Files, g < f + 1
               PROVE  Met(d, a, g) \/ (g = w.file /\ d[g].part # <<>>)
    OBVIOUS
  <2>1. g = f \/ g < w.file
    BY <1>1, <1>2
  <2>2. g < w.file => Met(d, a, g)
    BY DEF Kept
  <2> QED
    BY <1>1, <1>2, <2>1, <2>2
<1> QED
  BY <1>1, <1>2, <1>3 DEF Between

\* A folder in which one file's part took its name.
LEMMA NamedKeeps ==
  ASSUME TransferAssumption, NEW d \in Folder, NEW h \in 1..(Files + 1),
         h <= Files => d[h].part \in {<<>>, <<Whole>>}
  PROVE  LET named == NamedIn(d, h) IN
         /\ named \in Folder
         /\ \A g \in 1..Files : g # h => named[g] = d[g]
         /\ h <= Files =>
              /\ named[h].part = <<>> /\ named[h].digest = FALSE
              /\ named[h].final = IF d[h].part = <<>> THEN d[h].final ELSE <<Whole>>
<1> DEFINE named == NamedIn(d, h)
<1>1. named = [g \in 1..Files |-> IF g = h THEN Named(d[g]) ELSE d[g]]
  BY DEF NamedIn
<1>2. h \in Nat /\ Files \in Nat
  BY TransferConstants
<1>3. \A g \in 1..Files : g # h => named[g] = d[g]
  BY <1>1
<1>4. ASSUME h <= Files
      PROVE  /\ named[h].part = <<>> /\ named[h].digest = FALSE
             /\ named[h].final = IF d[h].part = <<>> THEN d[h].final ELSE <<Whole>>
             /\ named[h] \in [final : {<<>>, <<Before>>, <<Whole>>},
                              part : Parts, digest : BOOLEAN]
  <2>1. h \in 1..Files
    BY <1>2, <1>4
  <2>2. named[h] = Named(d[h])
    BY <1>1, <2>1
  <2>3. named[h] = [final |-> IF d[h].part = <<>> THEN d[h].final ELSE d[h].part,
                    part |-> <<>>, digest |-> FALSE]
    BY <2>2 DEF Named
  <2>4. d[h].final \in {<<>>, <<Before>>, <<Whole>>}
    BY <2>1 DEF Folder
  <2>5. d[h].part \in {<<>>, <<Whole>>}
    BY <1>4
  <2>6. <<>> \in Parts
    BY DEF Parts
  <2> QED
    BY <2>3, <2>4, <2>5, <2>6
<1>5. named \in Folder
  <2>1. \A g \in 1..Files :
          named[g] \in [final : {<<>>, <<Before>>, <<Whole>>},
                        part : Parts, digest : BOOLEAN]
    <3> SUFFICES ASSUME NEW g \in 1..Files
                 PROVE  named[g] \in [final : {<<>>, <<Before>>, <<Whole>>},
                                      part : Parts, digest : BOOLEAN]
      OBVIOUS
    <3>1. CASE g = h
      BY <1>2, <1>4, <3>1
    <3>2. CASE g # h
      <4>1. named[g] = d[g]
        BY <1>3, <3>2
      <4> QED
        BY <4>1 DEF Folder
    <3> QED
      BY <3>1, <3>2
  <2> QED
    BY <1>1, <2>1 DEF Folder
<1> QED
  BY <1>3, <1>4, <1>5

\* A folder in which a file's part became another.
LEMMA PartedKeeps ==
  ASSUME TransferAssumption, NEW d \in Folder, NEW f \in 1..Files, NEW p \in Parts,
         NEW c \in Folder,
         \A g \in 1..Files \ {f} : c[g] = d[g],
         c[f].final = d[f].final, c[f].part = p, c[f].digest = (p # <<>>), NEW a, NEW h,
         \A g \in 1..Files : g < f => Met(d, a, g),
         \A g \in 1..Files : g # f => d[g].part = <<>> /\ ~d[g].digest,
         Allowed(d, a, f)
  PROVE  Kept(c, a, f) /\ Allowed(c, a, f)
<1>1. Allowed(c, a, f)
  BY DEF Allowed
<1>2. \A g \in 1..Files : g < f => Met(c, a, g)
  <2> SUFFICES ASSUME NEW g \in 1..Files, g < f
               PROVE  Met(c, a, g)
    OBVIOUS
  <2>1. c[g] = d[g]
    OBVIOUS
  <2>2. Met(d, a, g)
    OBVIOUS
  <2> QED
    BY <2>1, <2>2 DEF Met
<1>3. \A g \in 1..Files : g # f => c[g].part = <<>> /\ ~c[g].digest
  OBVIOUS
<1> QED
  BY <1>1, <1>2, <1>3 DEF Kept

\* A block arrives: the part of its file grows, or the part of the file before, whole, took
\* its name.
LEMMA BlockArrives ==
  ASSUME TransferAssumption, NEW w \in WriteJob, NEW d \in Folder, NEW a,
         Kept(d, a, w.file),
         NEW f \in 1..Files, NEW D \in Seq(Tells), D # <<>>, NEW n \in 0..(Blocks + 1),
         InFile(w, d, a, f, D, n)
  PROVE  LET m  == Head(D)
             w2 == [w EXCEPT !.file = f, !.open = TRUE]
             d2 == Written(d, w, m)
         IN  /\ m = BlockOf(f, n - Len(D) + 1)
             /\ d2 \in Folder
             /\ Kept(d2, a, f)
             /\ InFile(w2, d2, a, f, Tail(D), n)
             /\ Consents(d, d2, a)
<1> DEFINE t  == n - Len(D)
           m  == Head(D)
           w2 == [w EXCEPT !.file = f, !.open = TRUE]
           d2 == Written(d, w, m)
           c  == IF f # w.file \/ ~w.open THEN NamedIn(d, w.file) ELSE d
           p  == <<Stored(t + 1)>>
<1>1. /\ Len(D) \in Nat /\ Len(D) >= 1 /\ t \in Nat /\ t + 1 \in 1..(Blocks + 1)
      /\ Files \in Nat /\ Blocks \in Nat /\ Blocks >= 1 /\ f \in Nat
  BY TransferConstants, EmptySeq DEF InFile
<1>2. m = BlockOf(f, t + 1)
  <2>1. m = D[1] /\ 1 \in 1..Len(D)
    BY <1>1
  <2>2. D[1] = BlockOf(f, n - Len(D) + 1)
    BY <2>1 DEF InFile
  <2> QED
    BY <2>1, <2>2
<1>3. m.k = "block" /\ m.f = f /\ m.data = BlockOf(f, t + 1).data
  BY <1>2 DEF BlockOf
<1>4. w.file \in 1..(Files + 1)
  BY DEF WriteJob
<1>5. /\ c \in Folder
      /\ d2 \in Folder
      /\ \A g \in 1..Files \ {f} : d2[g] = c[g]
      /\ d2[f].final = c[f].final /\ d2[f].part = p /\ d2[f].digest = TRUE
      /\ \A g \in 1..Files : g < f => Met(c, a, g)
      /\ \A g \in 1..Files : g # f => c[g].part = <<>> /\ ~c[g].digest
      /\ Allowed(c, a, f)
      /\ \A g \in 1..Files : c[g].final # d[g].final => Allowed(d, a, g)
  <2>1. CASE t = 0
    <3>1. Between(w, d, a, f) /\ Allowed(d, a, f)
      BY <2>1 DEF InFile, Amid
    <3>2. f # w.file \/ ~w.open
      BY <3>1 DEF Between
    <3>3. w.file <= f /\ (w.file = f => d[f].part = <<>>)
          /\ (w.file < f => d[w.file].part \in {<<>>, <<Whole>>})
      BY <1>1, <3>1 DEF Between
    <3>4. w.file \in 1..Files /\ d[w.file].part \in {<<>>, <<Whole>>}
      BY <1>1, <1>4, <3>3
    <3>5. /\ c \in Folder
          /\ \A g \in 1..Files : g # w.file => c[g] = d[g]
          /\ c[w.file].part = <<>> /\ c[w.file].digest = FALSE
          /\ c[w.file].final = IF d[w.file].part = <<>> THEN d[w.file].final
                               ELSE <<Whole>>
      <4>1. c = NamedIn(d, w.file)
        BY <3>2
      <4>2. w.file <= Files
        BY <3>4
      <4> HIDE DEF c
      <4>3. LET named == NamedIn(d, w.file) IN
            /\ named \in Folder
            /\ \A g \in 1..Files : g # w.file => named[g] = d[g]
            /\ w.file <= Files =>
                 /\ named[w.file].part = <<>> /\ named[w.file].digest = FALSE
                 /\ named[w.file].final = IF d[w.file].part = <<>> THEN d[w.file].final
                                          ELSE <<Whole>>
        BY <1>4, <3>4, NamedKeeps
      <4> QED
        BY <1>4, <3>4, <4>1, <4>2, <4>3
    <3> HIDE DEF c
    <3>6. d2 = [c EXCEPT ![f].part = <<m.data>>, ![f].digest = TRUE]
      BY <1>3, <3>2 DEF Written, c
    <3>7. m.data = <<1>> /\ Stored(t + 1) = <<1>>
      <4>1. BlockOf(f, t + 1) = BlockOf(f, 1) /\ Stored(t + 1) = Stored(1)
        BY <1>1, <2>1
      <4>2. BlockOf(f, 1).data = <<1>>
        BY <1>1 DEF BlockOf
      <4> QED
        BY <1>3, <4>1, <4>2, StoredIs
    <3>8. p \in Parts
      BY <1>1, StoredIs
    <3>9. /\ d2 \in Folder /\ \A g \in 1..Files \ {f} : d2[g] = c[g]
          /\ d2[f].final = c[f].final /\ d2[f].part = p /\ d2[f].digest = TRUE
      <4> DEFINE Entry == [final : {<<>>, <<Before>>, <<Whole>>},
                           part : Parts, digest : BOOLEAN]
                 e     == [c[f] EXCEPT !.part = p, !.digest = TRUE]
      <4>1. c \in [1..Files -> Entry]
        BY <3>5 DEF Folder
      <4>2. e \in Entry /\ e.final = c[f].final /\ e.part = p /\ e.digest = TRUE
        <5>1. c[f] \in Entry
          BY <4>1
        <5> HIDE DEF p
        <5> QED
          BY <3>8, <5>1
      <4>3. d2 = [c EXCEPT ![f] = e]
        BY <3>6, <3>7, <4>1
      <4> HIDE DEF e, d2, p, Entry
      <4>4. d2 \in [1..Files -> Entry] /\ d2[f] = e /\ \A g \in 1..Files \ {f} : d2[g] = c[g]
        BY <4>1, <4>2, <4>3
      <4> QED
        BY <4>2, <4>4 DEF Folder, Entry
    <3>10. \A g \in 1..Files : g < f => Met(c, a, g)
      <4> SUFFICES ASSUME NEW g \in 1..Files, g < f
                   PROVE  Met(c, a, g)
        OBVIOUS
      <4>1. Met(d, a, g) \/ (g = w.file /\ d[g].part # <<>>)
        BY <3>1 DEF Between
      <4>2. CASE g # w.file
        BY <3>5, <4>1, <4>2 DEF Met
      <4>3. CASE g = w.file
        BY <3>5, <4>1, <4>3 DEF Met
      <4> QED
        BY <4>2, <4>3
    <3>11. \A g \in 1..Files : g # f => c[g].part = <<>> /\ ~c[g].digest
      BY <3>5 DEF Kept, Folder
    <3>12. c[f].final = d[f].final
      BY <1>1, <3>3, <3>5
    <3>13. Allowed(c, a, f)
      BY <3>1, <3>12 DEF Allowed
    <3>14. \A g \in 1..Files : c[g].final # d[g].final => Allowed(d, a, g)
      BY <3>4, <3>5 DEF Kept
    <3> QED
      BY <3>5, <3>9, <3>10, <3>11, <3>13, <3>14
  <2>2. CASE t # 0
    <3>1. w.file = f /\ w.open /\ d[f].part = <<Stored(t)>> /\ Allowed(d, a, f)
      BY <2>2 DEF InFile, Amid
    <3>2. c = d
      BY <3>1
    <3>3. d2 = [d EXCEPT ![f].part[1] = @ \o m.data]
      BY <1>3, <3>1 DEF Written
    <3>4. d[f].part[1] \o m.data = Stored(t + 1)
      <4>1. t \in 1..Blocks
        BY <1>1, <2>2
      <4>2. Stored(t) \o BlockOf(f, t + 1).data = Stored(t + 1)
        BY <4>1, StoredNext
      <4>3. d[f].part[1] = Stored(t)
        BY <3>1
      <4> QED
        BY <1>3, <4>2, <4>3
    <3>5. d2 = [d EXCEPT ![f].part = [d[f].part EXCEPT ![1] = Stored(t + 1)]]
      BY <3>3, <3>4
    <3>6. d2 = [d EXCEPT ![f].part = p]
      BY <3>1, <3>5, OneInPlace
    <3>7. p \in Parts
      BY <1>1, StoredIs
    <3>8. d[f].digest = TRUE
      <4>1. d[f].part # <<>>
        BY <3>1
      <4>2. d[f].digest
        BY <4>1 DEF Kept
      <4>3. d[f].digest \in BOOLEAN
        BY DEF Folder
      <4> QED
        BY <4>2, <4>3
    <3>9. /\ d2 \in Folder /\ \A g \in 1..Files \ {f} : d2[g] = d[g]
          /\ d2[f].final = d[f].final /\ d2[f].part = p /\ d2[f].digest = TRUE
      BY <3>6, <3>7, <3>8 DEF Folder
    <3>10. /\ \A g \in 1..Files : g < f => Met(d, a, g)
           /\ \A g \in 1..Files : g # f => d[g].part = <<>> /\ ~d[g].digest
      BY <3>1 DEF Kept, Folder
    <3> QED
      BY <3>1, <3>2, <3>9, <3>10
  <2> QED
    BY <2>1, <2>2
<1> HIDE DEF d2, c
<1>6. p # <<>> /\ p \in Parts
  BY <1>1, StoredIs
<1>7. Kept(d2, a, f) /\ Allowed(d2, a, f)
  BY <1>5, <1>6, PartedKeeps
<1>8. \A g \in 1..Files : d2[g].final # d[g].final => Allowed(d, a, g)
  BY <1>5
<1>9. InFile(w2, d2, a, f, Tail(D), n)
  <2>1. /\ Tail(D) \in Seq(Tells) /\ Len(Tail(D)) = Len(D) - 1
        /\ \A i \in 1..Len(Tail(D)) : Tail(D)[i] = D[i + 1]
    BY HeadTailProperties
  <2>2. Len(Tail(D)) <= n /\ n - Len(Tail(D)) = t + 1
    BY <1>1, <2>1
  <2>3. \A i \in 1..Len(Tail(D)) : Tail(D)[i] = BlockOf(f, n - Len(Tail(D)) + i)
    <3> SUFFICES ASSUME NEW i \in 1..Len(Tail(D))
                 PROVE  Tail(D)[i] = BlockOf(f, n - Len(Tail(D)) + i)
      OBVIOUS
    <3>1. Tail(D)[i] = D[i + 1] /\ i + 1 \in 1..Len(D)
      BY <1>1, <2>1
    <3>2. D[i + 1] = BlockOf(f, n - Len(D) + (i + 1))
      BY <3>1 DEF InFile
    <3>3. n - Len(D) + (i + 1) = n - Len(Tail(D)) + i
      BY <1>1, <2>1
    <3> QED
      BY <3>1, <3>2, <3>3
  <2>4. w2.file = f /\ w2.open
    BY DEF WriteJob
  <2>5. Amid(w2, d2, a, f, n - Len(Tail(D)))
    BY <1>1, <1>5, <2>2, <2>4 DEF Amid
  <2> QED
    BY <1>7, <2>2, <2>3, <2>5 DEF InFile
<1> QED
  BY <1>2, <1>5, <1>7, <1>8, <1>9 DEF d2, Consents

LEMMA AppendBlock ==
  ASSUME TransferAssumption, NEW w, NEW d, NEW a, NEW f, NEW D \in Seq(Tells),
         NEW n \in 0..Blocks, InFile(w, d, a, f, D, n)
  PROVE  InFile(w, d, a, f, D \o <<BlockOf(f, n + 1)>>, n + 1)
<1> DEFINE b == BlockOf(f, n + 1)
           E == D \o <<b>>
<1>1. Blocks \in Nat /\ Len(D) \in Nat /\ n \in Nat /\ n + 1 \in 1..(Blocks + 1)
  BY TransferConstants
<1>2. f \in 1..Files /\ Len(D) <= n
  BY DEF InFile
<1>3. b \in Tells
  BY <1>1, <1>2 DEF Tells, BlockOf
<1> HIDE DEF b
<1>4. <<b>> \in Seq(Tells) /\ Len(<<b>>) = 1 /\ <<b>>[1] = b
  BY <1>3
<1>5. /\ E \in Seq(Tells) /\ Len(E) = Len(D) + 1
      /\ \A i \in 1..(Len(D) + 1) : E[i] = IF i <= Len(D) THEN D[i] ELSE <<b>>[i - Len(D)]
  BY <1>4, ConcatProperties
<1>6. n + 1 - Len(E) = n - Len(D)
  BY <1>1, <1>5
<1>7. ASSUME NEW i \in 1..Len(E)
      PROVE  E[i] = BlockOf(f, n + 1 - Len(E) + i)
  <2>1. CASE i <= Len(D)
    <3>1. i \in 1..Len(D) /\ E[i] = D[i]
      BY <1>1, <1>5, <2>1
    <3>2. D[i] = BlockOf(f, n - Len(D) + i)
      BY <3>1 DEF InFile
    <3> QED
      BY <1>6, <3>1, <3>2
  <2>2. CASE ~(i <= Len(D))
    <3>1. i = Len(D) + 1
      BY <1>1, <1>5, <2>2
    <3>2. E[i] = b
      BY <1>1, <1>4, <1>5, <3>1
    <3>3. n + 1 - Len(E) + i = n + 1
      BY <1>1, <1>5, <3>1
    <3> QED
      BY <3>2, <3>3 DEF b
  <2> QED
    BY <2>1, <2>2
<1>8. Len(E) <= n + 1
  BY <1>1, <1>2, <1>5
<1>9. Allowed(d, a, f) /\ Amid(w, d, a, f, n - Len(D))
  BY DEF InFile
<1> HIDE DEF E
<1>10. InFile(w, d, a, f, E, n + 1)
  BY <1>2, <1>6, <1>7, <1>8, <1>9 DEF InFile
<1> QED
  BY <1>10 DEF E, b

\* The same of what leads to a file.
LEMMA PastBlock ==
  ASSUME TransferAssumption, NEW w \in WriteJob, NEW d \in Folder, NEW a,
         Kept(d, a, w.file),
         NEW f \in 1..(Files + 1), NEW D \in Seq(Tells), D # <<>>, Past(w, d, a, f, D)
  PROVE  LET m  == Head(D)
             w2 == [w EXCEPT !.file = m.f, !.open = TRUE]
             d2 == Written(d, w, m)
         IN  /\ m.k = "block" /\ m.f \in 1..Files
             /\ d2 \in Folder
             /\ Kept(d2, a, m.f)
             /\ Past(w2, d2, a, f, Tail(D))
             /\ Consents(d, d2, a)
<1> DEFINE m  == Head(D)
           w2 == [w EXCEPT !.file = m.f, !.open = TRUE]
           d2 == Written(d, w, m)
<1>1. Files \in Nat /\ Blocks \in Nat
  BY TransferConstants
<1>2. InFile(w, d, a, f - 1, D, Blocks + 1)
  BY DEF Past
<1>3. f - 1 \in 1..Files /\ Blocks + 1 \in 0..(Blocks + 1)
  BY <1>1, <1>2 DEF InFile
<1>4. PICK h \in 1..Files : h = f - 1
  BY <1>3
<1> DEFINE w3 == [w EXCEPT !.file = h, !.open = TRUE]
<1>5. InFile(w, d, a, h, D, Blocks + 1)
  BY <1>2, <1>4
<1>6. PICK n \in 0..(Blocks + 1) : n = Blocks + 1
  BY <1>3
<1>7. InFile(w, d, a, h, D, n)
  BY <1>5, <1>6
<1>8. m = BlockOf(h, n - Len(D) + 1)
  BY <1>7, BlockArrives
<1>9. d2 \in Folder /\ Kept(d2, a, h)
  BY <1>7, BlockArrives
<1>10. InFile(w3, d2, a, h, Tail(D), n)
  BY <1>7, BlockArrives
<1>11. Consents(d, d2, a)
  BY <1>7, BlockArrives
<1>12. m.k = "block" /\ m.f = h
  BY <1>8 DEF BlockOf
<1>13. w2 = w3
  BY <1>12
<1>14. w3 \in WriteJob /\ w3.file = h
  <2>1. h \in 1..(Files + 1)
    BY <1>1
  <2> QED
    BY <2>1 DEF WriteJob
<1> HIDE DEF m, d2, w2, w3
<1>15. Past(w3, d2, a, f, Tail(D))
  <2>1. CASE Tail(D) = <<>>
    <3>1. InFile(w3, d2, a, h, <<>>, Blocks + 1) /\ Kept(d2, a, w3.file)
      BY <1>6, <1>9, <1>10, <1>14, <2>1
    <3>2. Between(w3, d2, a, h + 1)
      BY <1>14, <1>9, <3>1, FileEnds
    <3>3. h + 1 = f
      BY <1>1, <1>4
    <3> QED
      BY <2>1, <3>2, <3>3 DEF Past
  <2>2. CASE Tail(D) # <<>>
    BY <1>4, <1>6, <1>10, <2>2 DEF Past
  <2> QED
    BY <2>1, <2>2
<1> QED
  BY <1>15, <1>9, <1>11, <1>12, <1>13 DEF m, d2, w2

\* Done arrives: every file is in its place.
LEMMA DoneArrives ==
  ASSUME TransferAssumption, NEW w \in WriteJob, NEW d \in Folder, NEW a,
         Kept(d, a, w.file), Between(w, d, a, Files + 1)
  PROVE  LET d2 == NamedIn(d, w.file) IN
         /\ d2 \in Folder
         /\ \A g \in 1..Files : Met(d2, a, g)
         /\ Consents(d, d2, a)
<1> DEFINE d2 == NamedIn(d, w.file)
<1>1. Files \in Nat /\ w.file \in 1..(Files + 1)
  BY TransferConstants DEF WriteJob
<1>2. w.file <= Files => d[w.file].part \in {<<>>, <<Whole>>}
  BY <1>1 DEF Between
<1>3. /\ d2 \in Folder
      /\ \A g \in 1..Files : g # w.file => d2[g] = d[g]
      /\ w.file <= Files =>
           /\ d2[w.file].part = <<>> /\ d2[w.file].digest = FALSE
           /\ d2[w.file].final = IF d[w.file].part = <<>> THEN d[w.file].final
                                 ELSE <<Whole>>
  BY <1>1, <1>2, NamedKeeps
<1> HIDE DEF d2
<1>4. ASSUME NEW g \in 1..Files
      PROVE  Met(d2, a, g)
  <2>1. Met(d, a, g) \/ (g = w.file /\ d[g].part # <<>>)
    BY <1>1 DEF Between
  <2>2. CASE g # w.file
    BY <1>3, <2>1, <2>2 DEF Met
  <2>3. CASE g = w.file
    <3>1. w.file <= Files
      BY <1>1, <2>3
    <3> QED
      BY <1>3, <2>1, <2>3, <3>1 DEF Met
  <2> QED
    BY <2>2, <2>3
<1>5. ASSUME NEW g \in 1..Files, d2[g].final # d[g].final
      PROVE  Allowed(d, a, g)
  <2>1. g = w.file
    BY <1>3, <1>5
  <2>2. d[g].part # <<>>
    BY <1>1, <1>3, <1>5, <2>1
  <2> QED
    BY <2>1, <2>2 DEF Kept
<1> QED
  BY <1>3, <1>4, <1>5 DEF d2, Consents

\* What is left of the beginning of a sequence when its first element is taken.
LEMMA SubTail ==
  ASSUME NEW S, NEW s \in Seq(S), s # <<>>, NEW e \in 2..Len(s)
  PROVE  LET D == SubSeq(s, 1, e - 1) IN
         /\ D \in Seq(S) /\ D # <<>> /\ Len(D) = e - 1
         /\ Head(D) = Head(s)
         /\ Tail(s) \in Seq(S) /\ Tail(s) # <<>> /\ Len(Tail(s)) = Len(s) - 1
         /\ Tail(s)[e - 1] = s[e] /\ e - 1 \in 1..Len(Tail(s))
         /\ SubSeq(Tail(s), 1, (e - 1) - 1) = Tail(D)
<1> DEFINE D == SubSeq(s, 1, e - 1)
           T == Tail(s)
<1>1. Len(s) \in Nat /\ e \in Nat /\ 1 \in Int /\ e - 1 \in Int /\ 1 <= e - 1
  OBVIOUS
<1>2. \A i \in 1..Len(s) : s[i] \in S
  BY ElementOfSeq
<1>3. /\ D \in Seq(S) /\ Len(D) = e - 1
      /\ \A i \in 1..(e - 1) : D[i] = s[i]
  <2>1. \A i \in 1..(e - 1) : s[i] \in S
    BY <1>1, <1>2
  <2>2. /\ D \in Seq(S)
        /\ Len(D) = IF 1 <= e - 1 THEN (e - 1) - 1 + 1 ELSE 0
        /\ \A i \in 1..((e - 1) - 1 + 1) : D[i] = s[1 + i - 1]
    BY <1>1, <2>1, SubSeqProperties
  <2> QED
    BY <1>1, <2>2
<1>4. /\ T \in Seq(S) /\ Len(T) = Len(s) - 1
      /\ \A i \in 1..Len(T) : T[i] = s[i + 1]
  BY HeadTailProperties
<1>5. Head(s) = s[1]
  OBVIOUS
<1> HIDE DEF D, T
<1>6. D # <<>> /\ T # <<>> /\ Head(D) = D[1] /\ 1 \in 1..(e - 1)
  BY <1>1, <1>3, <1>4, EmptySeq
<1>7. e - 1 \in 1..Len(T) /\ T[e - 1] = s[e]
  BY <1>1, <1>4
<1>8. SubSeq(T, 1, (e - 1) - 1) = Tail(D)
  <2> DEFINE u == SubSeq(T, 1, (e - 1) - 1)
  <2>1. /\ Tail(D) \in Seq(S) /\ Len(Tail(D)) = e - 2
        /\ \A i \in 1..(e - 2) : Tail(D)[i] = s[i + 1]
    <3>1. /\ Tail(D) \in Seq(S) /\ Len(Tail(D)) = Len(D) - 1
          /\ \A i \in 1..Len(Tail(D)) : Tail(D)[i] = D[i + 1]
      BY <1>3, <1>6, HeadTailProperties
    <3> QED
      BY <1>1, <1>3, <3>1
  <2>2. /\ u \in Seq(S) /\ Len(u) = e - 2
        /\ \A i \in 1..(e - 2) : u[i] = T[i]
    <3>1. \A i \in 1..((e - 1) - 1) : T[i] \in S
      BY <1>1, <1>4, ElementOfSeq
    <3>2. (e - 1) - 1 \in Int
      BY <1>1
    <3>3. /\ u \in Seq(S)
          /\ Len(u) = IF 1 <= (e - 1) - 1 THEN ((e - 1) - 1) - 1 + 1 ELSE 0
          /\ \A i \in 1..(((e - 1) - 1) - 1 + 1) : u[i] = T[1 + i - 1]
      BY <1>1, <3>1, <3>2, SubSeqProperties
    <3> QED
      BY <1>1, <3>3
  <2> HIDE DEF u
  <2>3. Len(u) = Len(Tail(D)) /\ \A i \in 1..Len(u) : u[i] = Tail(D)[i]
    BY <1>1, <1>4, <2>1, <2>2
  <2>4. u = Tail(D)
    BY <2>1, <2>2, <2>3, SeqEqual
  <2> QED
    BY <2>4 DEF u
<1>9. Head(D) = Head(s)
  BY <1>3, <1>5, <1>6
<1> QED
  BY <1>3, <1>4, <1>6, <1>7, <1>8, <1>9 DEF D, T

\* The beginning of a sequence is that of a longer one.
LEMMA SubConcat ==
  ASSUME NEW S, NEW s \in Seq(S), NEW t \in Seq(S), NEW e \in 1..Len(s)
  PROVE  /\ s \o t \in Seq(S)
         /\ e \in 1..Len(s \o t) /\ (s \o t)[e] = s[e]
         /\ SubSeq(s \o t, 1, e - 1) = SubSeq(s, 1, e - 1)
<1> DEFINE c == s \o t
<1>1. /\ c \in Seq(S) /\ Len(c) = Len(s) + Len(t)
      /\ \A i \in 1..(Len(s) + Len(t)) : c[i] = IF i <= Len(s) THEN s[i] ELSE t[i - Len(s)]
  BY ConcatProperties
<1>2. Len(s) \in Nat /\ Len(t) \in Nat
  OBVIOUS
<1> HIDE DEF c
<1>3. \A i \in 1..Len(s) : c[i] = s[i] /\ i \in 1..Len(c)
  BY <1>1, <1>2
<1>4. SubSeq(c, 1, e - 1) = SubSeq(s, 1, e - 1)
  <2> DEFINE u == SubSeq(c, 1, e - 1)
             v == SubSeq(s, 1, e - 1)
  <2>1. 1 \in Int /\ e - 1 \in Int /\ e \in Nat /\ e >= 1
    OBVIOUS
  <2>2. \A i \in 1..(e - 1) : s[i] \in S /\ c[i] \in S /\ c[i] = s[i]
    BY <1>1, <1>2, <1>3, ElementOfSeq
  <2>3. /\ u \in Seq(S)
        /\ Len(u) = IF 1 <= e - 1 THEN (e - 1) - 1 + 1 ELSE 0
        /\ \A i \in 1..((e - 1) - 1 + 1) : u[i] = c[1 + i - 1]
    BY <2>1, <2>2, SubSeqProperties
  <2>4. /\ v \in Seq(S)
        /\ Len(v) = IF 1 <= e - 1 THEN (e - 1) - 1 + 1 ELSE 0
        /\ \A i \in 1..((e - 1) - 1 + 1) : v[i] = s[1 + i - 1]
    BY <2>1, <2>2, SubSeqProperties
  <2> HIDE DEF u, v
  <2>5. Len(u) = Len(v) /\ \A i \in 1..Len(u) : u[i] = v[i]
    BY <2>1, <2>2, <2>3, <2>4
  <2>6. u = v
    BY <2>3, <2>4, <2>5, SeqEqual
  <2> QED
    BY <2>6 DEF u, v
<1> QED
  BY <1>1, <1>3, <1>4 DEF c

\* The kinds of messages.
LEMMA Kinds ==
  /\ \A f, n : BlockOf(f, n).k = "block" /\ BlockOf(f, n).f = f
  /\ \A f : DigestOf(f).k = "digest" /\ DigestOf(f).f = f
BY DEF BlockOf, DigestOf

LEMMA TwoOrMore ==
  \A n \in Nat : n >= 1 /\ n # 1 => n \in 2..n
OBVIOUS

LEMMA ObeysStill ==
  ASSUME NEW w, NEW a, NEW f, Obeys(w, a, f), NEW v, v.strategy = w.strategy
  PROVE  Obeys(v, a, f)
BY DEF Obeys

\* A write job and its folder, of which it may have a part of its file.
Keeps(w, d, a) == w \in WriteJob /\ d \in Folder /\ Kept(d, a, w.file)

\* A block arrives, in any phase.
LEMMA LiveBlock ==
  ASSUME TransferAssumption, NEW r \in ReadJob, NEW w \in WriteJob, NEW d \in Folder,
         NEW a, NEW H, NEW D \in Seq(Tells), D # <<>>, NEW Q,
         Kept(d, a, w.file), Live(r, w, d, a, H, D, Q),
         NEW m, m = Head(D), m.k = "block",
         NEW w2, w2 = [w EXCEPT !.file = m.f, !.open = TRUE],
         NEW d2, d2 = Written(d, w, m)
  PROVE  /\ Keeps(w2, d2, a)
         /\ Live(r, w2, d2, a, H, Tail(D), Q)
         /\ Consents(d, d2, a)
<1> DEFINE Goal == m.f \in 1..Files /\ d2 \in Folder /\ Kept(d2, a, m.f) /\ Consents(d, d2, a)
<1>1. Files \in Nat /\ Blocks \in Nat /\ Len(D) \in Nat /\ Len(D) >= 1 /\ m = D[1]
  BY TransferConstants, EmptySeq
<1>2. m.f \in 1..Files => w2 \in WriteJob /\ w2.file = m.f /\ w2.strategy = w.strategy
  <2> SUFFICES ASSUME NEW h \in 1..Files, h = m.f
               PROVE  w2 \in WriteJob /\ w2.file = h /\ w2.strategy = w.strategy
    OBVIOUS
  <2>1. h \in 1..(Files + 1) /\ w2 = [w EXCEPT !.file = h, !.open = TRUE]
    BY <1>1
  <2> QED
    BY <2>1 DEF WriteJob
<1>3. ASSUME NEW f \in 1..(Files + 1), NEW E \in Seq(Tells), E # <<>>, Head(E) = m,
             Past(w, d, a, f, E)
      PROVE  Goal /\ Past(w2, d2, a, f, Tail(E))
  <2>1. m.f \in 1..Files
    BY <1>3, PastBlock
  <2>2. d2 \in Folder
    BY <1>3, PastBlock
  <2>3. Kept(d2, a, m.f)
    BY <1>3, PastBlock
  <2>4. Past(w2, d2, a, f, Tail(E))
    BY <1>3, PastBlock
  <2>5. Consents(d, d2, a)
    BY <1>3, PastBlock
  <2> QED
    BY <2>1, <2>2, <2>3, <2>4, <2>5
<1>4. ASSUME NEW f \in 1..Files, NEW n \in 0..(Blocks + 1), NEW E \in Seq(Tells), E # <<>>,
             Head(E) = m, InFile(w, d, a, f, E, n)
      PROVE  Goal /\ InFile(w2, d2, a, f, Tail(E), n)
  <2>1. m = BlockOf(f, n - Len(E) + 1)
    BY <1>4, BlockArrives
  <2>2. m.f = f
    BY <2>1, Kinds
  <2> DEFINE x == Written(d, w, Head(E))
  <2>3. x \in Folder /\ Kept(x, a, f)
    BY <1>4, BlockArrives
  <2>4. InFile([w EXCEPT !.file = f, !.open = TRUE], x, a, f, Tail(E), n)
    BY <1>4, BlockArrives
  <2>5. Consents(d, x, a)
    BY <1>4, BlockArrives
  <2>6. x = d2
    BY <1>4
  <2> HIDE DEF x
  <2> QED
    BY <2>2, <2>3, <2>4, <2>5, <2>6
<1>5. CASE Q = {} /\ Opening(r, w, d, a, H, D)
  <2>1. PICK f \in 1..(Files + 1) : f = r.file
    BY <1>1, <1>5 DEF ReadJob, Opening
  <2>2. Past(w, d, a, f, D)
    BY <1>5, <2>1 DEF Opening, Leads
  <2>3. Goal /\ Past(w2, d2, a, f, Tail(D))
    BY <1>3, <2>2
  <2>4. Obeys(w2, a, f)
    BY <1>2, <1>5, <2>1, <2>3, ObeysStill DEF Opening
  <2>5. Opening(r, w2, d2, a, H, Tail(D))
    BY <1>5, <2>1, <2>3, <2>4 DEF Opening, Leads
  <2> QED
    BY <1>2, <1>5, <2>3, <2>5 DEF Live, Keeps
<1>6. CASE Q = {} /\ Announcing(r, w, d, a, H, D)
  <2>1. PICK f \in 1..(Files + 1) : f = r.file
    BY <1>1, <1>6 DEF ReadJob, Announcing, Waits
  <2>2. D[Len(D)] = DigestOf(f) /\ Leads(w, d, a, f, SubSeq(D, 1, Len(D) - 1))
    BY <1>6, <2>1 DEF Announcing
  <2>3. Len(D) # 1
    <3> SUFFICES ASSUME Len(D) = 1 PROVE FALSE
      OBVIOUS
    <3>1. m = DigestOf(f)
      BY <1>1, <2>2
    <3> QED
      BY <3>1, Kinds
  <2>4. PICK e \in 2..Len(D) : e = Len(D)
    <3>1. Len(D) \in 2..Len(D)
      BY <1>1, <2>3, TwoOrMore
    <3> QED
      BY <3>1
  <2> DEFINE E == SubSeq(D, 1, e - 1)
  <2>5. /\ E \in Seq(Tells) /\ E # <<>> /\ Head(E) = m
        /\ Tail(D) \in Seq(Tells) /\ Tail(D) # <<>> /\ Len(Tail(D)) = Len(D) - 1
        /\ Tail(D)[e - 1] = D[e]
        /\ SubSeq(Tail(D), 1, (e - 1) - 1) = Tail(E)
    BY SubTail
  <2>6. Leads(w, d, a, f, E)
    BY <2>2, <2>4
  <2> HIDE DEF E
  <2>7. Past(w, d, a, f, E)
    BY <2>5, <2>6 DEF Leads
  <2>8. Goal /\ Past(w2, d2, a, f, Tail(E))
    BY <1>3, <2>5, <2>7
  <2>9. Obeys(w2, a, f)
    BY <1>2, <1>6, <2>1, <2>8, ObeysStill DEF Announcing
  <2>10. /\ Tail(D)[Len(Tail(D))] = DigestOf(f)
         /\ Leads(w2, d2, a, f, SubSeq(Tail(D), 1, Len(Tail(D)) - 1))
    BY <2>2, <2>4, <2>5, <2>8 DEF Leads
  <2>11. Announcing(r, w2, d2, a, H, Tail(D))
    BY <1>6, <2>1, <2>5, <2>9, <2>10 DEF Announcing
  <2> QED
    BY <1>2, <1>6, <2>8, <2>11 DEF Live, Keeps
<1>7. CASE Q = {} /\ Streaming(r, w, d, a, H, D)
  <2>1. InFile(w, d, a, r.file, D, r.pos)
    BY <1>7 DEF Streaming
  <2>2. PICK f \in 1..Files : f = r.file
    BY <2>1 DEF InFile
  <2>3. PICK n \in 0..(Blocks + 1) : n = r.pos
    BY <1>1, <1>7 DEF ReadJob, Streaming
  <2>4. Goal /\ InFile(w2, d2, a, f, Tail(D), n)
    BY <1>4, <2>1, <2>2, <2>3
  <2>5. Obeys(w2, a, f)
    BY <1>2, <1>7, <2>2, <2>4, ObeysStill DEF Streaming
  <2>6. Streaming(r, w2, d2, a, H, Tail(D))
    BY <1>7, <2>2, <2>3, <2>4, <2>5 DEF Streaming
  <2> QED
    BY <1>2, <1>7, <2>4, <2>6 DEF Live, Keeps
<1>8. CASE Q = {} /\ Ending(w, d, a, H, D)
  <2>1. PICK e0 \in 1..Len(D) :
          LET rest == SubSeq(D, 1, e0 - 1) IN
          /\ Ends(D[e0])
          /\ D[e0].k = "done" => Past(w, d, a, Files + 1, rest)
          /\ D[e0].k = "error" =>
               rest = <<>> \/ \E g \in 1..Files, n \in 1..(Blocks + 1) :
                                InFile(w, d, a, g, rest, n)
    BY <1>8 DEF Ending
  <2>2. e0 # 1
    BY <1>1, <2>1 DEF Ends
  <2>3. PICK e \in 2..Len(D) : e = e0
    BY <1>1, <2>2
  <2> DEFINE E == SubSeq(D, 1, e - 1)
  <2>4. /\ E \in Seq(Tells) /\ E # <<>> /\ Head(E) = m
        /\ Tail(D) \in Seq(Tells) /\ Tail(D) # <<>> /\ Len(Tail(D)) = Len(D) - 1
        /\ Tail(D)[e - 1] = D[e] /\ e - 1 \in 1..Len(Tail(D))
        /\ SubSeq(Tail(D), 1, (e - 1) - 1) = Tail(E)
    BY SubTail
  <2>5. /\ Ends(D[e])
        /\ D[e].k = "done" => Past(w, d, a, Files + 1, E)
        /\ D[e].k = "error" => E = <<>> \/ \E g \in 1..Files, n \in 1..(Blocks + 1) :
                                            InFile(w, d, a, g, E, n)
    BY <2>1, <2>3
  <2> HIDE DEF E
  <2>6. CASE D[e].k = "done"
    <3>1. PICK f \in 1..(Files + 1) : f = Files + 1
      BY <1>1
    <3>2. Goal /\ Past(w2, d2, a, f, Tail(E))
      BY <1>3, <2>4, <2>5, <2>6, <3>1
    <3>3. Ending(w2, d2, a, H, Tail(D))
      <4> SUFFICES \E i \in 1..Len(Tail(D)) :
                     LET rest == SubSeq(Tail(D), 1, i - 1) IN
                     /\ Ends(Tail(D)[i])
                     /\ Tail(D)[i].k = "done" => Past(w2, d2, a, Files + 1, rest)
                     /\ Tail(D)[i].k = "error" =>
                          rest = <<>> \/ \E g \in 1..Files, n \in 1..(Blocks + 1) :
                                           InFile(w2, d2, a, g, rest, n)
        BY <1>8 DEF Ending
      <4> WITNESS e - 1 \in 1..Len(Tail(D))
      <4> QED
        BY <2>4, <2>5, <2>6, <3>1, <3>2
    <3> QED
      BY <1>2, <1>8, <3>2, <3>3 DEF Live, Keeps
  <2>7. CASE D[e].k = "error"
    <3>1. PICK g \in 1..Files, n \in 1..(Blocks + 1) : InFile(w, d, a, g, E, n)
      BY <2>4, <2>5, <2>7
    <3>2. n \in 0..(Blocks + 1)
      BY <1>1
    <3>3. Goal /\ InFile(w2, d2, a, g, Tail(E), n)
      BY <1>4, <2>4, <3>1, <3>2
    <3>4. Ending(w2, d2, a, H, Tail(D))
      <4> SUFFICES \E i \in 1..Len(Tail(D)) :
                     LET rest == SubSeq(Tail(D), 1, i - 1) IN
                     /\ Ends(Tail(D)[i])
                     /\ Tail(D)[i].k = "done" => Past(w2, d2, a, Files + 1, rest)
                     /\ Tail(D)[i].k = "error" =>
                          rest = <<>> \/ \E h \in 1..Files, k \in 1..(Blocks + 1) :
                                           InFile(w2, d2, a, h, rest, k)
        BY <1>8 DEF Ending
      <4> WITNESS e - 1 \in 1..Len(Tail(D))
      <4> QED
        BY <2>4, <2>5, <2>7, <3>3
    <3> QED
      BY <1>2, <1>8, <3>3, <3>4 DEF Live, Keeps
  <2> QED
    BY <2>5, <2>6, <2>7 DEF Ends
<1> QED
  BY <1>5, <1>6, <1>7, <1>8 DEF Live, Sending, Confirming, Asking

LEMMA HeadIsBlock ==
  ASSUME TransferAssumption, NEW w, NEW d, NEW a, NEW f, NEW E \in Seq(Tells),
         E # <<>>, NEW n, InFile(w, d, a, f, E, n)
  PROVE  Head(E).k = "block"
<1>1. 1 \in 1..Len(E) /\ Head(E) = E[1]
  BY EmptySeq
<1>2. E[1] = BlockOf(f, n - Len(E) + 1)
  BY <1>1 DEF InFile
<1> QED
  BY <1>1, <1>2, Kinds

LEMMA HeadOfPast ==
  ASSUME TransferAssumption, NEW w, NEW d, NEW a, NEW f, NEW E \in Seq(Tells),
         E # <<>>, Past(w, d, a, f, E) \/ Leads(w, d, a, f, E)
  PROVE  Head(E).k = "block"
<1>1. InFile(w, d, a, f - 1, E, Blocks + 1)
  BY DEF Past, Leads
<1> QED
  BY <1>1, HeadIsBlock

\* The beginning of a sequence and its first element.
LEMMA HeadOfSub ==
  ASSUME NEW S, NEW s \in Seq(S), NEW e \in 1..Len(s)
  PROVE  /\ s # <<>> /\ SubSeq(s, 1, e - 1) \in Seq(S)
         /\ e = 1 => SubSeq(s, 1, e - 1) = <<>> /\ Head(s) = s[e]
         /\ e # 1 => SubSeq(s, 1, e - 1) # <<>> /\ Head(SubSeq(s, 1, e - 1)) = Head(s)
<1>1. Len(s) \in Nat /\ s # <<>> /\ Head(s) = s[1]
  BY EmptySeq
<1>2. CASE e = 1
  <2>1. SubSeq(s, 1, 1 - 1) = <<>>
    BY SubSeqEmpty
  <2> QED
    BY <1>1, <1>2, <2>1, EmptySeq
<1>3. CASE e # 1
  <2>1. e \in 2..Len(s)
    BY <1>1, <1>3
  <2> QED
    BY <1>1, <1>3, <2>1, SubTail
<1> QED
  BY <1>2, <1>3

\* What the first message of a stream can be, by phase.
LEMMA LiveHead ==
  ASSUME TransferAssumption, NEW r, NEW w, NEW d, NEW a, NEW H, NEW D \in Seq(Tells),
         D # <<>>, NEW Q, Live(r, w, d, a, H, D, Q), Head(D).k # "block"
  PROVE  /\ H = <<>> /\ Q = {}
         /\ \/ /\ Announcing(r, w, d, a, H, D) /\ Len(D) = 1
               /\ Head(D) = DigestOf(r.file) /\ Leads(w, d, a, r.file, <<>>)
            \/ /\ Ends(Head(D))
               /\ Head(D).k = "done" => Between(w, d, a, Files + 1)
<1>1. Len(D) \in Nat /\ Len(D) \in 1..Len(D) /\ 1 \in 1..Len(D)
  BY EmptySeq
<1>2. CASE Q = {} /\ Announcing(r, w, d, a, H, D)
  <2> DEFINE E == SubSeq(D, 1, Len(D) - 1)
  <2>1. D[Len(D)] = DigestOf(r.file) /\ Leads(w, d, a, r.file, E) /\ H = <<>>
    BY <1>2 DEF Announcing
  <2>2. /\ E \in Seq(Tells)
        /\ Len(D) = 1 => E = <<>> /\ Head(D) = D[Len(D)]
        /\ Len(D) # 1 => E # <<>> /\ Head(E) = Head(D)
    BY <1>1, HeadOfSub
  <2> HIDE DEF E
  <2>3. Len(D) = 1
    BY <2>1, <2>2, HeadOfPast
  <2> QED
    BY <1>2, <2>1, <2>2, <2>3
<1>3. CASE Q = {} /\ Ending(w, d, a, H, D)
  <2>1. PICK e \in 1..Len(D) :
          LET rest == SubSeq(D, 1, e - 1) IN
          /\ Ends(D[e])
          /\ D[e].k = "done" => Past(w, d, a, Files + 1, rest)
          /\ D[e].k = "error" =>
               rest = <<>> \/ \E g \in 1..Files, n \in 1..(Blocks + 1) :
                                InFile(w, d, a, g, rest, n)
    BY <1>3 DEF Ending
  <2> DEFINE E == SubSeq(D, 1, e - 1)
  <2>2. /\ E \in Seq(Tells)
        /\ e = 1 => E = <<>> /\ Head(D) = D[e]
        /\ e # 1 => E # <<>> /\ Head(E) = Head(D)
    BY HeadOfSub
  <2>3. /\ Ends(D[e])
        /\ D[e].k = "done" => Past(w, d, a, Files + 1, E)
        /\ D[e].k = "error" =>
             E = <<>> \/ \E g \in 1..Files, n \in 1..(Blocks + 1) : InFile(w, d, a, g, E, n)
    BY <2>1
  <2> HIDE DEF E
  <2>4. e = 1
    BY <2>2, <2>3, HeadOfPast, HeadIsBlock DEF Ends
  <2>5. Ends(Head(D)) /\ (Head(D).k = "done" => Between(w, d, a, Files + 1))
    BY <2>2, <2>3, <2>4 DEF Past
  <2> QED
    BY <1>3, <2>5 DEF Ending
<1>4. ~Opening(r, w, d, a, H, D)
  BY HeadOfPast DEF Opening
<1>5. ~Streaming(r, w, d, a, H, D)
  BY HeadIsBlock DEF Streaming
<1> QED
  BY <1>2, <1>3, <1>4, <1>5 DEF Live, Sending, Confirming, Asking

-----------------------------------------------------------------------------
(* The host's tick.                                                        *)

\* What was under way stays so when something is sent after an end.
LEMMA EndingStays ==
  ASSUME NEW w, NEW d, NEW a, NEW H, NEW D \in Seq(Tells), NEW E \in Seq(Tells),
         Ending(w, d, a, H, D)
  PROVE  Ending(w, d, a, H, D \o E)
<1>1. PICK e \in 1..Len(D) :
        LET rest == SubSeq(D, 1, e - 1) IN
        /\ Ends(D[e])
        /\ D[e].k = "done" => Past(w, d, a, Files + 1, rest)
        /\ D[e].k = "error" =>
             rest = <<>> \/ \E g \in 1..Files, n \in 1..(Blocks + 1) :
                              InFile(w, d, a, g, rest, n)
  BY DEF Ending
<1>2. /\ e \in 1..Len(D \o E) /\ (D \o E)[e] = D[e]
      /\ SubSeq(D \o E, 1, e - 1) = SubSeq(D, 1, e - 1)
  BY SubConcat
<1> SUFFICES \E i \in 1..Len(D \o E) :
               LET rest == SubSeq(D \o E, 1, i - 1) IN
               /\ Ends((D \o E)[i])
               /\ (D \o E)[i].k = "done" => Past(w, d, a, Files + 1, rest)
               /\ (D \o E)[i].k = "error" =>
                    rest = <<>> \/ \E g \in 1..Files, n \in 1..(Blocks + 1) :
                                     InFile(w, d, a, g, rest, n)
  BY DEF Ending
<1> WITNESS e \in 1..Len(D \o E)
<1> QED
  BY <1>1, <1>2

\* What is sent after D.
LEMMA SentAfter ==
  ASSUME NEW S, NEW D \in Seq(S), NEW m \in S
  PROVE  LET c == D \o <<m>> IN
         /\ c \in Seq(S) /\ c # <<>> /\ Len(c) = Len(D) + 1
         /\ Len(c) \in 1..Len(c) /\ c[Len(c)] = m
         /\ \A i \in 1..Len(D) : c[i] = D[i]
         /\ SubSeq(c, 1, Len(c) - 1) = D
<1> DEFINE c == D \o <<m>>
<1>1. <<m>> \in Seq(S) /\ Len(<<m>>) = 1 /\ <<m>>[1] = m
  OBVIOUS
<1>2. /\ c \in Seq(S) /\ Len(c) = Len(D) + 1
      /\ \A i \in 1..(Len(D) + 1) : c[i] = IF i <= Len(D) THEN D[i] ELSE <<m>>[i - Len(D)]
  BY <1>1, ConcatProperties
<1>3. Len(D) \in Nat /\ Len(c) \in 1..Len(c) /\ c[Len(c)] = m /\ Len(c) - 1 = Len(D)
  BY <1>1, <1>2
<1>4. \A i \in 1..Len(D) : c[i] \in S /\ c[i] = D[i]
  BY <1>2, <1>3, ElementOfSeq
<1>5. SubSeq(c, 1, Len(D)) = D
  <2> DEFINE u == SubSeq(c, 1, Len(D))
  <2>1. 1 \in Int /\ Len(D) \in Int
    BY <1>3
  <2>2. /\ u \in Seq(S)
        /\ Len(u) = IF 1 <= Len(D) THEN Len(D) - 1 + 1 ELSE 0
        /\ \A i \in 1..(Len(D) - 1 + 1) : u[i] = c[1 + i - 1]
    BY <1>4, <2>1, SubSeqProperties
  <2> HIDE DEF u, c
  <2>3. Len(D) \in Nat
    BY <1>3
  <2>4. Len(u) = Len(D)
    BY <2>2, <2>3
  <2>5. ASSUME NEW i \in 1..Len(D)
        PROVE  u[i] = D[i]
    <3>1. i \in 1..(Len(D) - 1 + 1) /\ 1 + i - 1 = i
      BY <2>3
    <3> QED
      BY <1>4, <2>2, <3>1
  <2>6. u = D
    BY <2>2, <2>4, <2>5, SeqEqual
  <2> QED
    BY <2>6 DEF u
<1> HIDE DEF c
<1>6. c # <<>>
  BY <1>2, <1>3, EmptySeq
<1> QED
  BY <1>2, <1>3, <1>4, <1>5, <1>6 DEF c

\* An end is sent after D.
LEMMA EndSent ==
  ASSUME NEW w, NEW d, NEW a, NEW D \in Seq(Tells), NEW m \in Tells, Ends(m),
         m.k = "done" => Past(w, d, a, Files + 1, D),
         m.k = "error" => D = <<>> \/ \E g \in 1..Files, n \in 1..(Blocks + 1) :
                                        InFile(w, d, a, g, D, n)
  PROVE  Ending(w, d, a, <<>>, D \o <<m>>)
<1> DEFINE c == D \o <<m>>
           e == Len(c)
<1>1. e \in 1..Len(c) /\ c[e] = m /\ SubSeq(c, 1, e - 1) = D
  BY SentAfter
<1> HIDE DEF c, e
<1>2. Ending(w, d, a, <<>>, c)
  <2> SUFFICES \E i \in 1..Len(c) :
                 LET rest == SubSeq(c, 1, i - 1) IN
                 /\ Ends(c[i])
                 /\ c[i].k = "done" => Past(w, d, a, Files + 1, rest)
                 /\ c[i].k = "error" =>
                      rest = <<>> \/ \E g \in 1..Files, n \in 1..(Blocks + 1) :
                                       InFile(w, d, a, g, rest, n)
    BY DEF Ending
  <2> USE <1>1
  <2> WITNESS e \in 1..Len(c)
  <2> QED
    BY <1>1
<1> QED
  BY <1>2 DEF c

\* What init_data_stream makes of a read job, and sends.
LEMMA OpenTypes ==
  ASSUME TransferAssumption, NEW r \in ReadJob, NEW fails \in BOOLEAN,
         NEW o, o = Opened(r, fails)
  PROVE  /\ o.job \in ReadJob /\ o.out \in Seq(Tells)
         /\ o.out = <<>> \/ \E m \in Tells : o.out = <<m>> /\ (Ends(m) => fails)
<1>1. Files \in Nat /\ r.file \in Nat \ {0} /\ r.file + 1 \in Nat \ {0}
  BY TransferConstants DEF ReadJob
<1>2. [k |-> "error"] \in Tells
  BY DEF Tells
<1>3. DigestOf(r.file) \in Tells /\ ~Ends(DigestOf(r.file))
  BY <1>1 DEF Tells, DigestOf, Ends
<1> DEFINE now == IF r.open THEN r
                  ELSE [r EXCEPT !.open = TRUE, !.pos = 0,
                                 !.confirmed = FALSE, !.waiting = FALSE]
<1>4. now \in ReadJob /\ [now EXCEPT !.waiting = TRUE] \in ReadJob
  BY DEF ReadJob
<1>5. [r EXCEPT !.open = FALSE] \in ReadJob /\ NextFile(r) \in ReadJob
  BY <1>1 DEF ReadJob, NextFile
<1> HIDE DEF now
<1>6. CASE r.file > Files
  BY <1>5, <1>6 DEF Opened
<1>7. CASE ~(r.file > Files) /\ ~r.open /\ fails
  <2>1. o = [job |-> NextFile(r), out |-> <<[k |-> "error"]>>]
    BY <1>7 DEF Opened
  <2>2. PICK m \in Tells : m = [k |-> "error"]
    BY <1>2
  <2>3. o.job = NextFile(r) /\ o.out = <<m>>
    BY <2>1, <2>2
  <2>4. o.out \in Seq(Tells)
    BY <2>3
  <2> QED
    BY <1>5, <1>7, <2>3, <2>4
<1>8. CASE ~(r.file > Files) /\ ~(~r.open /\ fails) /\ (now.confirmed \/ now.waiting)
  <2>1. o = [job |-> now, out |-> <<>>]
    BY <1>8 DEF Opened, now
  <2> QED
    BY <1>4, <2>1
<1>9. CASE ~(r.file > Files) /\ ~(~r.open /\ fails) /\ ~(now.confirmed \/ now.waiting)
  <2>1. o = [job |-> [now EXCEPT !.waiting = TRUE], out |-> <<DigestOf(r.file)>>]
    BY <1>9 DEF Opened, now, DigestOf
  <2> QED
    BY <1>3, <1>4, <2>1
<1> QED
  BY <1>6, <1>7, <1>8, <1>9

\* init_data_stream keeps a download in one of its phases.
LEMMA OpenKeeps ==
  ASSUME TransferAssumption, NEW r \in ReadJob, NEW w \in WriteJob, NEW d \in Folder,
         NEW a, NEW H, NEW D \in Seq(Tells), NEW Q,
         Live(r, w, d, a, H, D, Q), ~Sending(w, d, a, H, D), NEW fails \in BOOLEAN,
         NEW o, o = Opened(r, fails)
  PROVE  AfterOpening(o.job, w, d, a, H, D \o o.out, Q)
<1>1. Files \in Nat /\ r.file \in Nat \ {0} /\ Blocks \in Nat
  BY TransferConstants DEF ReadJob
<1>2. D \o <<>> = D
  BY ConcatEmptySeq
<1>3. ASSUME r.waiting \/ r.confirmed, r.open, r.file <= Files
      PROVE  o.job = r /\ D \o o.out = D
  <2>1. o = [job |-> r, out |-> <<>>]
    BY <1>1, <1>3 DEF Opened
  <2> QED
    BY <1>2, <2>1
<1>4. CASE Announcing(r, w, d, a, H, D) \/ Confirming(r, w, d, a, H, D)
           \/ Asking(r, w, d, a, H, D, Q)
  <2>1. Waits(r)
    BY <1>4 DEF Announcing, Confirming, Asking
  <2>2. o.job = r /\ D \o o.out = D
    BY <1>3, <2>1 DEF Waits
  <2>3. Q = {} \/ Asking(r, w, d, a, H, D, Q)
    BY DEF Live
  <2> QED
    BY <1>4, <2>2, <2>3 DEF AfterOpening
<1>5. CASE Q = {} /\ Streaming(r, w, d, a, H, D)
  <2>1. r.confirmed /\ r.open /\ r.file \in 1..Files
    BY <1>5 DEF Streaming, InFile
  <2>2. o.job = r /\ D \o o.out = D
    BY <1>1, <1>3, <2>1
  <2> QED
    BY <1>5, <2>2 DEF AfterOpening
<1>6. CASE Q = {} /\ Ending(w, d, a, H, D)
  <2>1. o.out \in Seq(Tells)
    BY OpenTypes
  <2>2. Ending(w, d, a, H, D \o o.out)
    BY <1>6, <2>1, EndingStays
  <2> QED
    BY <1>6, <2>2 DEF AfterOpening
<1>7. CASE Q = {} /\ Opening(r, w, d, a, H, D)
  <2>1. H = <<>> /\ ~r.confirmed /\ r.pos = 0 /\ ~r.waiting /\ r.file <= Files + 1
        /\ Leads(w, d, a, r.file, D) /\ Obeys(w, a, r.file)
    BY <1>7 DEF Opening, Rests
  <2>2. CASE r.file > Files
    <3>1. o = [job |-> [r EXCEPT !.open = FALSE], out |-> <<>>]
      BY <2>2 DEF Opened
    <3>2. /\ o.job.file = r.file /\ o.job.confirmed = r.confirmed /\ o.job.pos = r.pos
          /\ o.job.waiting = r.waiting
      BY <3>1 DEF ReadJob
    <3>3. Opening(o.job, w, d, a, H, D)
      BY <2>1, <3>2 DEF Opening, Rests
    <3>4. D \o o.out = D
      BY <1>2, <3>1
    <3> QED
      BY <1>7, <2>2, <3>2, <3>3, <3>4 DEF AfterOpening
  <2>3. CASE ~(r.file > Files) /\ ~r.open /\ fails
    <3>1. o = [job |-> NextFile(r), out |-> <<[k |-> "error"]>>]
      BY <2>3 DEF Opened
    <3> DEFINE m == [k |-> "error"]
    <3>2. m \in Tells /\ Ends(m) /\ m.k # "done"
      BY DEF Tells, Ends
    <3>3. D = <<>> \/ \E g \in 1..Files, n \in 1..(Blocks + 1) : InFile(w, d, a, g, D, n)
      <4>1. CASE D # <<>>
        <5>1. InFile(w, d, a, r.file - 1, D, Blocks + 1)
          BY <2>1, <4>1 DEF Leads, Past
        <5>2. r.file - 1 \in 1..Files
          BY <5>1 DEF InFile
        <5>3. Blocks + 1 \in 1..(Blocks + 1)
          BY <1>1
        <5> QED
          BY <5>1, <5>2, <5>3
      <4> QED
        BY <4>1
    <3> HIDE DEF m
    <3>4. Ending(w, d, a, <<>>, D \o <<m>>)
      BY <3>2, <3>3, EndSent
    <3>5. D \o o.out = D \o <<m>>
      BY <3>1 DEF m
    <3> QED
      BY <1>7, <2>1, <3>4, <3>5 DEF AfterOpening
  <2>4. CASE ~(r.file > Files) /\ ~(~r.open /\ fails)
    <3> DEFINE m == DigestOf(r.file)
    <3>1. o.out = <<m>>
      BY <2>1, <2>4 DEF Opened, DigestOf, ReadJob
    <3>2. /\ o.job.file = r.file /\ o.job.confirmed = FALSE /\ o.job.pos = 0
          /\ o.job.waiting = TRUE /\ o.job.open = TRUE
      <4>1. CASE r.open
        <5>1. o.job = [r EXCEPT !.waiting = TRUE]
          BY <2>1, <2>4, <4>1 DEF Opened
        <5> QED
          BY <2>1, <4>1, <5>1 DEF ReadJob
      <4>2. CASE ~r.open
        <5>1. o.job = [[r EXCEPT !.open = TRUE, !.pos = 0, !.confirmed = FALSE,
                                 !.waiting = FALSE] EXCEPT !.waiting = TRUE]
          BY <2>1, <2>4, <4>2 DEF Opened, ReadJob
        <5> QED
          BY <5>1 DEF ReadJob
      <4> QED
        BY <4>1, <4>2
    <3>3. m \in Tells
      BY <1>1 DEF Tells, DigestOf
    <3> DEFINE c == D \o <<m>>
    <3>4. c # <<>> /\ c[Len(c)] = m /\ SubSeq(c, 1, Len(c) - 1) = D
      BY <3>3, SentAfter
    <3>5. D \o o.out = c
      BY <3>1
    <3> HIDE DEF c
    <3>6. Waits(o.job)
      BY <1>1, <2>4, <3>2 DEF Waits, Rests
    <3>7. Announcing(o.job, w, d, a, H, c)
      BY <2>1, <3>2, <3>4, <3>6 DEF Announcing
    <3> QED
      BY <1>7, <3>5, <3>7 DEF AfterOpening
  <2> QED
    BY <2>2, <2>3, <2>4
<1>8. Q = {} \/ Asking(r, w, d, a, H, D, Q)
  BY DEF Live
<1> QED
  BY <1>4, <1>5, <1>6, <1>7, <1>8 DEF Live

\* What read makes of a read job, and sends.
LEMMA ReadTypes ==
  ASSUME TransferAssumption, NEW r \in ReadJob, NEW fails \in BOOLEAN,
         NEW p, p = ReadOnce(r, fails)
  PROVE  /\ p.job \in ReadJob /\ p.out \in Seq(Tells)
         /\ p.out = <<>> \/ \E m \in Tells :
              p.out = <<m>> /\ (Ends(m) => p.ends \/ (fails /\ ~Delegated))
<1>1. r.file \in Nat \ {0} /\ r.file + 1 \in Nat \ {0} /\ r.pos \in Nat /\ r.pos + 1 \in Nat
  BY DEF ReadJob
<1>2. NextFile(r) \in ReadJob /\ [r EXCEPT !.pos = @ + 1] \in ReadJob
  BY <1>1 DEF ReadJob, NextFile
<1>3. CASE ~r.confirmed /\ r.waiting
  <2>1. p = [job |-> r, out |-> <<>>, ends |-> FALSE]
    BY <1>3 DEF ReadOnce
  <2> QED
    BY <2>1
<1>4. CASE ~r.confirmed /\ ~r.waiting
  <2> DEFINE m == [k |-> IF r.skipped /\ Files = 1 THEN "error" ELSE "done"]
  <2>1. p = [job |-> r, ends |-> TRUE, out |-> <<m>>]
    BY <1>4 DEF ReadOnce
  <2>2. m \in Tells
    BY DEF Tells
  <2> HIDE DEF m
  <2>3. p.job = r /\ p.out = <<m>> /\ p.ends
    BY <2>1
  <2> QED
    BY <2>2, <2>3
<1>5. CASE r.confirmed /\ fails
  <2> DEFINE m == [k |-> "error"]
  <2>1. p = [job |-> NextFile(r), out |-> <<m>>, ends |-> Delegated]
    BY <1>5 DEF ReadOnce
  <2>2. m \in Tells
    BY DEF Tells
  <2> HIDE DEF m
  <2>3. p.job = NextFile(r) /\ p.out = <<m>> /\ p.ends = Delegated
    BY <2>1
  <2>4. p.out \in Seq(Tells)
    BY <2>2, <2>3
  <2>5. Delegated \in BOOLEAN
    BY TransferConstants
  <2>6. p.ends \/ (fails /\ ~Delegated)
    BY <1>5, <2>3, <2>5
  <2> QED
    BY <1>2, <2>2, <2>3, <2>4, <2>6
<1>6. CASE r.confirmed /\ ~fails
  <2> DEFINE more == r.pos < Blocks
             m == [k |-> "block", f |-> r.file,
                   data |-> IF more THEN <<r.pos + 1>> ELSE <<>>]
             next == IF more THEN [r EXCEPT !.pos = @ + 1] ELSE NextFile(r)
  <2>1. p = [job |-> next, out |-> <<m>>, ends |-> FALSE]
    BY <1>6 DEF ReadOnce
  <2>2. m \in Tells /\ ~Ends(m)
    <3>1. <<r.pos + 1>> \in Seq(Nat) /\ <<>> \in Seq(Nat)
      BY <1>1
    <3>2. (IF more THEN <<r.pos + 1>> ELSE <<>>) \in Seq(Nat)
      BY <3>1
    <3> QED
      BY <1>1, <3>2 DEF Tells, Ends
  <2>3. next \in ReadJob
    BY <1>2
  <2> HIDE DEF m, next
  <2>4. p.job = next /\ p.out = <<m>>
    BY <2>1
  <2> QED
    BY <2>2, <2>3, <2>4
<1> QED
  BY <1>3, <1>4, <1>5, <1>6

\* read keeps an opened download in one of its phases.
LEMMA ReadKeeps ==
  ASSUME TransferAssumption, NEW r \in ReadJob, NEW w \in WriteJob, NEW d \in Folder,
         NEW a, NEW H, NEW D \in Seq(Tells), NEW Q,
         AfterOpening(r, w, d, a, H, D, Q), NEW fails \in BOOLEAN, fails => r.confirmed,
         NEW p, p = ReadOnce(r, fails)
  PROVE  Live(p.job, w, d, a, H, D \o p.out, Q)
<1>1. Files \in Nat /\ Files >= 1 /\ r.file \in Nat \ {0} /\ Blocks \in Nat /\ r.pos \in Nat
  BY TransferConstants DEF ReadJob
<1>2. D \o <<>> = D
  BY ConcatEmptySeq
<1>3. CASE Announcing(r, w, d, a, H, D) \/ Confirming(r, w, d, a, H, D)
           \/ Asking(r, w, d, a, H, D, Q)
  <2>1. ~r.confirmed /\ r.waiting
    BY <1>3 DEF Announcing, Confirming, Asking, Waits, Rests
  <2>2. p = [job |-> r, out |-> <<>>, ends |-> FALSE]
    BY <2>1 DEF ReadOnce
  <2>3. p.job = r /\ D \o p.out = D
    BY <1>2, <2>2
  <2>4. Q = {} \/ Asking(r, w, d, a, H, D, Q)
    BY DEF AfterOpening
  <2> QED
    BY <1>3, <2>3, <2>4 DEF Live
<1>4. CASE Q = {} /\ Ending(w, d, a, H, D)
  <2>1. p.out \in Seq(Tells)
    BY ReadTypes
  <2>2. Ending(w, d, a, H, D \o p.out)
    BY <1>4, <2>1, EndingStays
  <2> QED
    BY <1>4, <2>2 DEF Live
<1>5. CASE Q = {} /\ Opening(r, w, d, a, H, D) /\ r.file > Files
  <2>1. H = <<>> /\ ~r.confirmed /\ ~r.waiting /\ r.file = Files + 1
        /\ Leads(w, d, a, r.file, D)
    BY <1>1, <1>5 DEF Opening, Rests
  <2> DEFINE m == [k |-> IF r.skipped /\ Files = 1 THEN "error" ELSE "done"]
  <2>2. p = [job |-> r, ends |-> TRUE, out |-> <<m>>]
    BY <2>1 DEF ReadOnce
  <2>3. m \in Tells /\ Ends(m)
    BY DEF Tells, Ends
  <2> HIDE DEF m
  <2>4. Past(w, d, a, Files + 1, D)
    BY <1>1, <2>1 DEF Leads, Partly
  <2>5. D = <<>> \/ \E g \in 1..Files, n \in 1..(Blocks + 1) : InFile(w, d, a, g, D, n)
    <3>1. CASE D # <<>>
      <4>1. InFile(w, d, a, (Files + 1) - 1, D, Blocks + 1)
        BY <2>4, <3>1, Zenon DEF Past
      <4>2. PICK g \in 1..Files : g = (Files + 1) - 1
        BY <1>1
      <4>3. PICK n \in 1..(Blocks + 1) : n = Blocks + 1
        BY <1>1
      <4> QED
        BY <4>1, <4>2, <4>3
    <3> QED
      BY <3>1
  <2>6. Ending(w, d, a, <<>>, D \o <<m>>)
    BY <2>3, <2>4, <2>5, EndSent
  <2>7. D \o p.out = D \o <<m>>
    BY <2>2
  <2> QED
    BY <1>5, <2>1, <2>6, <2>7 DEF Live
<1>6. CASE Q = {} /\ Streaming(r, w, d, a, H, D)
  <2>1. H = <<>> /\ r.confirmed /\ r.open /\ r.pos <= Blocks /\ Obeys(w, a, r.file)
        /\ InFile(w, d, a, r.file, D, r.pos)
    BY <1>6 DEF Streaming
  <2>2. PICK f \in 1..Files : f = r.file
    BY <2>1 DEF InFile
  <2>3. PICK n \in 0..Blocks : n = r.pos
    BY <1>1, <2>1
  <2>4. InFile(w, d, a, f, D, n)
    BY <2>1, <2>2, <2>3
  <2>5. CASE fails
    <3> DEFINE m == [k |-> "error"]
    <3>1. p = [job |-> NextFile(r), out |-> <<m>>, ends |-> Delegated]
      BY <2>1, <2>5 DEF ReadOnce
    <3>2. m \in Tells /\ Ends(m) /\ m.k # "done"
      BY DEF Tells, Ends
    <3> HIDE DEF m
    <3>3. D = <<>> \/ \E g \in 1..Files, i \in 1..(Blocks + 1) : InFile(w, d, a, g, D, i)
      <4>1. CASE D # <<>>
        <5>1. Len(D) \in Nat /\ Len(D) >= 1 /\ Len(D) <= n
          BY <2>4, <4>1, EmptySeq DEF InFile
        <5>2. n \in 1..(Blocks + 1)
          BY <1>1, <5>1
        <5> QED
          BY <2>4, <5>2
      <4> QED
        BY <4>1
    <3>4. Ending(w, d, a, <<>>, D \o <<m>>)
      BY <3>2, <3>3, EndSent
    <3>5. D \o p.out = D \o <<m>>
      BY <3>1
    <3> QED
      BY <1>6, <2>1, <3>4, <3>5 DEF Live
  <2>6. CASE ~fails
    <3> DEFINE m == BlockOf(f, n + 1)
               c == D \o <<m>>
    <3>1. p.out = <<m>>
      BY <1>1, <2>1, <2>2, <2>3, <2>6 DEF ReadOnce, BlockOf
    <3>2. InFile(w, d, a, f, c, n + 1)
      BY <2>4, AppendBlock
    <3>3. D \o p.out = c
      BY <3>1
    <3>4. c # <<>>
      <4>1. m \in Tells
        <5>1. n + 1 \in Nat /\ f \in Nat
          BY <1>1
        <5> QED
          BY <5>1 DEF Tells, BlockOf
      <4> QED
        BY <4>1, SentAfter
    <3> HIDE DEF c
    <3>5. CASE n < Blocks
      <4>1. p.job = [r EXCEPT !.pos = n + 1]
        BY <2>1, <2>3, <2>6, <3>5 DEF ReadOnce
      <4>2. /\ p.job.file = f /\ p.job.pos = n + 1
            /\ p.job.open = r.open /\ p.job.confirmed = r.confirmed
        BY <2>2, <4>1 DEF ReadJob
      <4>3. n + 1 <= Blocks
        BY <1>1, <3>5
      <4>4. Streaming(p.job, w, d, a, H, c)
        BY <2>1, <2>2, <3>2, <4>2, <4>3 DEF Streaming
      <4> QED
        BY <1>6, <3>3, <4>4 DEF Live
    <3>6. CASE ~(n < Blocks)
      <4>1. p.job = NextFile(r)
        BY <2>1, <2>3, <2>6, <3>6 DEF ReadOnce
      <4>2. /\ p.job.file = f + 1 /\ p.job.pos = 0
            /\ p.job.confirmed = FALSE /\ p.job.waiting = FALSE
        BY <2>2, <4>1 DEF ReadJob, NextFile
      <4>3. n = Blocks /\ f + 1 <= Files + 1 /\ f + 1 - 1 = f
        BY <1>1, <3>6
      <4>4. Past(w, d, a, f + 1, c)
        BY <3>2, <3>4, <4>3 DEF Past
      <4>5. Obeys(w, a, f + 1)
        <5>1. Obeys(w, a, f)
          BY <2>1, <2>2
        <5> QED
          BY <5>1 DEF Obeys
      <4>6. Opening(p.job, w, d, a, H, c)
        BY <2>1, <4>2, <4>3, <4>4, <4>5 DEF Opening, Rests, Leads
      <4> QED
        BY <1>6, <3>3, <4>6 DEF Live
    <3> QED
      BY <3>5, <3>6
  <2> QED
    BY <2>5, <2>6
<1> QED
  BY <1>3, <1>4, <1>5, <1>6 DEF AfterOpening

-----------------------------------------------------------------------------
(* Steps of downloads: what a step may do to a job it does not concern.     *)

\* Nothing of job k changes, but that it may leave the host's list.
Same(k) ==
  /\ readers'[k] = readers[k] /\ writers'[k] = writers[k] /\ disk'[k] = disk[k]
  /\ toHost'[k] = toHost[k] /\ toClient'[k] = toClient[k] /\ AskedOf(k)' = AskedOf(k)
  /\ answered'[k] = answered[k] /\ status'[k] = status[k] /\ saved'[k] = saved[k]
  /\ Absent(k) => Absent(k)'

LEMMA JobStays ==
  ASSUME NEW k \in Jobs, JobInv(k), Same(k)
  PROVE  JobInv(k)'
BY DEF JobInv, Same, Unbegun, Writing

\* The lists a step makes of the host's list.
LEMMA QueueTail ==
  ASSUME queue \in Seq(Jobs), queue # <<>>
  PROVE  /\ Head(queue) \in Jobs /\ ~Absent(Head(queue))
         /\ Tail(queue) \in Seq(Jobs)
         /\ \A k : Absent(k) => \A i \in 1..Len(Tail(queue)) : Tail(queue)[i] # k
         /\ (\A i, n \in 1..Len(queue) : i # n => queue[i] # queue[n])
              => /\ \A i, n \in 1..Len(Tail(queue)) : i # n => Tail(queue)[i] # Tail(queue)[n]
                 /\ \A i \in 1..Len(Tail(queue)) : Tail(queue)[i] # Head(queue)
<1>1. /\ Head(queue) = queue[1] /\ Len(queue) \in Nat /\ 1 \in 1..Len(queue)
      /\ queue[1] \in Jobs
  BY EmptySeq, ElementOfSeq
<1>2. /\ Tail(queue) \in Seq(Jobs) /\ Len(Tail(queue)) = Len(queue) - 1
      /\ \A i \in 1..Len(Tail(queue)) : Tail(queue)[i] = queue[i + 1]
  BY HeadTailProperties
<1> DEFINE T == Tail(queue)
<1> HIDE DEF T
<1>3. \A i \in 1..Len(T) : i + 1 \in 1..Len(queue) /\ T[i] = queue[i + 1]
  BY <1>1, <1>2 DEF T
<1>4. \A k : Absent(k) => \A i \in 1..Len(T) : T[i] # k
  BY <1>3 DEF Absent
<1>5. ASSUME \A i, n \in 1..Len(queue) : i # n => queue[i] # queue[n]
      PROVE  /\ \A i, n \in 1..Len(T) : i # n => T[i] # T[n]
             /\ \A i \in 1..Len(T) : T[i] # Head(queue)
  BY <1>1, <1>3, <1>5
<1> QED
  BY <1>1, <1>2, <1>4, <1>5 DEF Absent, T

\* A tick on a job of the host's list: it is opened, and the first is read too.
Opens(j, f) ==
  LET o == Opened(readers[j], f) IN
  /\ readers'[j] = o.job
  /\ toClient'[j] = toClient[j] \o o.out
Reads(j, f, g) ==
  LET o == Opened(readers[j], f)
      p == ReadOnce(o.job, g)
  IN  /\ g => o.job.confirmed
      /\ readers'[j] = p.job
      /\ toClient'[j] = (toClient[j] \o o.out) \o p.out
Passes(j) == readers'[j] = readers[j] /\ toClient'[j] = toClient[j]
Ticks(j) ==
  \/ Passes(j)
  \/ ~Absent(j) /\ \E f \in BOOLEAN : Opens(j, f)
  \/ ~Absent(j) /\ \E f, g \in BOOLEAN : Reads(j, f, g)

TickTypes(j) == readers'[j] \in ReadJob /\ toClient'[j] \in Seq(Tells)

LEMMA TicksTypes ==
  ASSUME TransferAssumption, TransferTypes, NEW j \in Jobs, Ticks(j)
  PROVE  TickTypes(j)
<1>1. readers[j] \in ReadJob /\ toClient[j] \in Seq(Tells)
  BY DEF TransferTypes
<1>2. ASSUME NEW f \in BOOLEAN
      PROVE  LET o == Opened(readers[j], f) IN
             o.job \in ReadJob /\ o.out \in Seq(Tells)
  BY <1>1, OpenTypes
<1>3. \A s \in Seq(Tells) : toClient[j] \o s \in Seq(Tells)
  BY <1>1, ConcatProperties
<1>4. ASSUME NEW f \in BOOLEAN, Opens(j, f)
      PROVE  TickTypes(j)
  BY <1>2, <1>3, <1>4 DEF Opens, TickTypes
<1>5. ASSUME NEW f \in BOOLEAN, NEW g \in BOOLEAN, Reads(j, f, g)
      PROVE  TickTypes(j)
  <2> DEFINE o == Opened(readers[j], f)
             p == ReadOnce(o.job, g)
  <2>1. o.job \in ReadJob /\ toClient[j] \o o.out \in Seq(Tells)
    BY <1>2, <1>3
  <2>2. readers'[j] = p.job /\ toClient'[j] = (toClient[j] \o o.out) \o p.out
    BY <1>5 DEF Reads
  <2> HIDE DEF o
  <2>3. p.job \in ReadJob /\ p.out \in Seq(Tells)
    BY <2>1, ReadTypes
  <2> HIDE DEF p
  <2>4. (toClient[j] \o o.out) \o p.out \in Seq(Tells)
    BY <2>1, <2>3, ConcatProperties
  <2> QED
    BY <2>2, <2>3, <2>4 DEF TickTypes
<1> QED
  BY <1>1, <1>4, <1>5 DEF Ticks, Passes, TickTypes

LEMMA OpenedIsLive ==
  ASSUME NEW r, NEW w, NEW d, NEW a, NEW H, NEW D, NEW Q, AfterOpening(r, w, d, a, H, D, Q)
  PROVE  Live(r, w, d, a, H, D, Q)
BY DEF AfterOpening, Live

LEMMA TicksKeep ==
  ASSUME TransferAssumption, TransferTypes, NEW j \in Jobs, JobInv(j), Ticks(j),
         writers'[j] = writers[j], disk'[j] = disk[j], toHost'[j] = toHost[j],
         AskedOf(j)' = AskedOf(j), answered'[j] = answered[j], status'[j] = status[j],
         saved'[j] = saved[j], Absent(j) => Absent(j)'
  PROVE  JobInv(j)'
<1>1. CASE Passes(j)
  BY <1>1, JobStays DEF Same, Passes
<1>2. CASE ~Absent(j) /\ ~Writing(j)
  BY <1>2 DEF JobInv, Unbegun, Writing
<1>3. CASE ~Absent(j) /\ Writing(j)
           /\ ((\E f \in BOOLEAN : Opens(j, f)) \/ (\E f, g \in BOOLEAN : Reads(j, f, g)))
  <2> DEFINE r == readers[j]
             d == disk[j]
             a == answered[j]
             H == toHost[j]
             D == toClient[j]
             Q == AskedOf(j)
  <2>1. PICK w \in WriteJob : writers[j] = <<w>>
    BY <1>3 DEF TransferTypes, Writing
  <2>2. r \in ReadJob /\ d \in Folder /\ D \in Seq(Tells)
    BY DEF TransferTypes
  <2>3. Kept(d, a, w.file) /\ Live(r, w, d, a, H, D, Q)
    BY <1>3, <2>1 DEF JobInv
  <2>4. ~Sending(w, d, a, H, D)
    <3> SUFFICES ASSUME H = <<[k |-> "send", f |-> w.file]>> PROVE FALSE
      BY DEF Sending
    <3>1. 1 \in 1..Len(H) /\ H[1].k = "send"
      OBVIOUS
    <3> QED
      BY <1>3, <3>1 DEF JobInv
  <2>5. ASSUME NEW r2, NEW D2, readers'[j] = r2, toClient'[j] = D2,
               Live(r2, w, d, a, H, D2, Q)
        PROVE  JobInv(j)'
    <3>1. writers'[j] = <<w>> /\ <<w>>[1] = w /\ <<w>> # <<>>
      BY <2>1
    <3>2. Kept(disk'[j], answered'[j], writers'[j][1].file)
      BY <2>3, <3>1
    <3>3. Live(readers'[j], writers'[j][1], disk'[j], answered'[j], toHost'[j], toClient'[j],
               AskedOf(j)')
      BY <2>5, <3>1
    <3> HIDE DEF r, d, a, H, D, Q
    <3> QED
      BY <1>3, <3>1, <3>2, <3>3 DEF JobInv, Writing, Unbegun
  <2> HIDE DEF r, d, a, H, D, Q
  <2>6. ASSUME NEW f \in BOOLEAN, NEW o, o = Opened(r, f)
        PROVE  /\ o.job \in ReadJob /\ D \o o.out \in Seq(Tells)
               /\ AfterOpening(o.job, w, d, a, H, D \o o.out, Q)
    <3>1. o.job \in ReadJob /\ o.out \in Seq(Tells)
      BY <2>2, <2>6, OpenTypes
    <3>2. D \o o.out \in Seq(Tells)
      BY <2>2, <3>1, ConcatProperties
    <3>3. AfterOpening(o.job, w, d, a, H, D \o o.out, Q)
      BY <2>2, <2>3, <2>4, <2>6, OpenKeeps
    <3> QED
      BY <3>1, <3>2, <3>3
  <2>7. ASSUME NEW f \in BOOLEAN, Opens(j, f)
        PROVE  JobInv(j)'
    <3> DEFINE o == Opened(r, f)
    <3>1. readers'[j] = o.job /\ toClient'[j] = D \o o.out
      BY <2>7 DEF Opens, r, D
    <3>2. AfterOpening(o.job, w, d, a, H, D \o o.out, Q)
      BY <2>6
    <3> HIDE DEF o
    <3>3. Live(o.job, w, d, a, H, D \o o.out, Q)
      BY <3>2, OpenedIsLive
    <3> QED
      BY <2>5, <3>1, <3>3
  <2>8. ASSUME NEW f \in BOOLEAN, NEW g \in BOOLEAN, Reads(j, f, g)
        PROVE  JobInv(j)'
    <3> DEFINE o == Opened(r, f)
               p == ReadOnce(o.job, g)
    <3>1. /\ readers'[j] = p.job /\ toClient'[j] = (D \o o.out) \o p.out
          /\ g => o.job.confirmed
      BY <2>8 DEF Reads, r, D
    <3>2. /\ o.job \in ReadJob /\ D \o o.out \in Seq(Tells)
          /\ AfterOpening(o.job, w, d, a, H, D \o o.out, Q)
      BY <2>6
    <3> HIDE DEF o
    <3>3. PICK E \in Seq(Tells) : E = D \o o.out
      BY <3>2
    <3>4. AfterOpening(o.job, w, d, a, H, E, Q)
      BY <3>2, <3>3
    <3>5. Live(p.job, w, d, a, H, E \o p.out, Q)
      BY <2>2, <3>1, <3>2, <3>4, ReadKeeps
    <3> HIDE DEF p
    <3> QED
      BY <2>5, <3>1, <3>3, <3>5
  <2> QED
    BY <1>3, <2>7, <2>8
<1> QED
  BY <1>1, <1>2, <1>3 DEF Ticks

\* What a tick does to each job, o and r being whether it fails to open or to read.
Shortens(j, f, r) ==
  queue' = IF ReadOnce(Opened(readers[j], f).job, r).ends
           THEN Tail(queue) ELSE queue
TickOf(j, o, r) ==
  \/ j # Head(queue) /\ Passes(j)
  \/ /\ j # Head(queue) /\ ~Absent(j)
     /\ \E f \in BOOLEAN : (f => o /\ ~Delegated) /\ Opens(j, f)
  \/ /\ j = Head(queue)
     /\ \E f \in BOOLEAN :
          (f => o /\ ~Delegated) /\ Reads(j, f, r) /\ Shortens(j, f, r)
  \/ j = Head(queue) /\ o /\ Delegated /\ Opens(j, TRUE) /\ queue' = Tail(queue)

TickSteps(o, r) ==
  /\ \A j \in Jobs : TickOf(j, o, r)
  /\ queue # <<>> /\ queue' \in {queue, Tail(queue)}
  /\ DOMAIN readers' = Jobs /\ readers' = [j \in Jobs |-> readers'[j]]
  /\ DOMAIN toClient' = Jobs /\ toClient' = [j \in Jobs |-> toClient'[j]]
  /\ MaxErrors = 0 => ~o /\ ~r
  /\ errors' \in Nat
  /\ UNCHANGED <<writers, disk, toHost, asked, answered, status, saved, losses>>

LEMMA FailingIs ==
  ASSUME TransferAssumption, TransferTypes, NEW o \in BOOLEAN, NEW r \in BOOLEAN,
         Failing(o, r)
  PROVE  errors' \in Nat /\ (MaxErrors = 0 => ~o /\ ~r)
<1>1. errors \in Nat /\ MaxErrors \in Nat
  BY TransferConstants DEF TransferTypes
<1>2. /\ errors + (IF o THEN 1 ELSE 0) + (IF r THEN 1 ELSE 0) <= MaxErrors
      /\ errors' = errors + (IF o THEN 1 ELSE 0) + (IF r THEN 1 ELSE 0)
  BY DEF Failing
<1>3. CASE o
  BY <1>1, <1>2, <1>3
<1>4. CASE ~o
  <2>1. CASE r
    BY <1>1, <1>2, <1>4, <2>1
  <2>2. CASE ~r
    BY <1>1, <1>2, <1>4, <2>2
  <2> QED
    BY <2>1, <2>2
<1> QED
  BY <1>3, <1>4

LEMMA ConnectionTickIs ==
  ASSUME ConnectionTick
  PROVE  \E bad \in Jobs, o, r \in BOOLEAN :
        LET opened == OpenedJobs(bad, o)
            first  == Head(queue)
            read   == ReadOnce(opened[first].job, r)
        IN  /\ Failing(o, r)
            /\ o => bad \in ToSet(queue) /\ ~readers[bad].open
                       /\ readers[bad].file <= Files
            /\ r => opened[first].job.confirmed
            /\ readers' = [j \in Jobs |-> IF j = first THEN read.job ELSE opened[j].job]
            /\ toClient' = [j \in Jobs |-> toClient[j] \o opened[j].out
                                          \o (IF j = first THEN read.out ELSE <<>>)]
            /\ queue' = IF read.ends THEN Tail(queue) ELSE queue
BY DEF ConnectionTick

LEMMA ConnectionTickParts ==
  ASSUME TransferAssumption, TransferTypes, ConnectionTick
  PROVE  \E o, r \in BOOLEAN : TickSteps(o, r)
<1>1. /\ queue # <<>> /\ ~Delegated
      /\ UNCHANGED <<writers, disk, toHost, asked, answered, status, saved, losses>>
  BY DEF ConnectionTick, user
<1>2. PICK bad \in Jobs, o \in BOOLEAN, r \in BOOLEAN :
        LET opened == OpenedJobs(bad, o)
            first  == Head(queue)
            read   == ReadOnce(opened[first].job, r)
        IN  /\ Failing(o, r)
            /\ o => bad \in ToSet(queue) /\ ~readers[bad].open
                       /\ readers[bad].file <= Files
            /\ r => opened[first].job.confirmed
            /\ readers' = [j \in Jobs |-> IF j = first THEN read.job ELSE opened[j].job]
            /\ toClient' = [j \in Jobs |-> toClient[j] \o opened[j].out
                                          \o (IF j = first THEN read.out ELSE <<>>)]
            /\ queue' = IF read.ends THEN Tail(queue) ELSE queue
  BY ConnectionTickIs
<1> DEFINE first == Head(queue)
           Op(j) == IF j \in ToSet(queue)
                    THEN Opened(readers[j], o /\ bad = j)
                    ELSE [job |-> readers[j], out |-> <<>>]
<1>3. first \in Jobs /\ ~Absent(first)
  BY <1>1, QueueTail DEF TransferTypes
<1>4. \A j : j \in ToSet(queue) <=> ~Absent(j)
  BY DEF ToSet, Absent, TransferTypes
<1> DEFINE read == ReadOnce(Op(first).job, r)
<1>5. /\ Failing(o, r)
      /\ r => Op(first).job.confirmed
      /\ readers' = [j \in Jobs |-> IF j = first THEN read.job ELSE Op(j).job]
      /\ toClient' = [j \in Jobs |-> toClient[j] \o Op(j).out
                                     \o (IF j = first THEN read.out ELSE <<>>)]
      /\ queue' = IF read.ends THEN Tail(queue) ELSE queue
  <2>1. OpenedJobs(bad, o) = [j \in Jobs |-> Op(j)]
    BY DEF OpenedJobs
  <2> HIDE DEF Op
  <2> QED
    BY <1>2, <1>3, <2>1
<1>6. ASSUME NEW j \in Jobs
      PROVE  TickOf(j, o, r)
  <2>1. toClient[j] \in Seq(Tells) /\ readers[j] \in ReadJob
    BY DEF TransferTypes
  <2>2. PICK f \in BOOLEAN : f = (o /\ bad = j)
    OBVIOUS
  <2>3. CASE j = first
    <3>1. Op(j) = Opened(readers[j], f)
      BY <1>3, <1>4, <2>2, <2>3
    <3> HIDE DEF Op
    <3>2. Reads(j, f, r)
      BY <1>5, <2>3, <3>1 DEF Reads
    <3>3. Shortens(j, f, r)
      BY <1>5, <2>3, <3>1 DEF Shortens
    <3> QED
      BY <1>1, <2>2, <2>3, <3>2, <3>3 DEF TickOf
  <2>4. CASE j # first /\ ~Absent(j)
    <3>1. Op(j) = Opened(readers[j], f)
      BY <1>4, <2>2, <2>4
    <3> HIDE DEF Op
    <3> DEFINE x == Opened(readers[j], f)
    <3>2. readers'[j] = x.job /\ toClient'[j] = (toClient[j] \o x.out) \o <<>>
      BY <1>5, <2>4, <3>1
    <3>3. x.out \in Seq(Tells)
      BY <2>1, OpenTypes
    <3> HIDE DEF x
    <3>4. toClient'[j] = toClient[j] \o x.out
      <4>1. toClient[j] \o x.out \in Seq(Tells)
        BY <2>1, <3>3, ConcatProperties
      <4> QED
        BY <3>2, <4>1, ConcatEmptySeq
    <3>5. Opens(j, f)
      BY <3>2, <3>4 DEF Opens, x
    <3> QED
      BY <1>1, <2>2, <2>4, <3>5 DEF TickOf
  <2>5. CASE j # first /\ Absent(j)
    <3>1. Op(j).job = readers[j] /\ Op(j).out = <<>>
      BY <1>4, <2>5
    <3> HIDE DEF Op
    <3>2. readers'[j] = readers[j] /\ toClient'[j] = (toClient[j] \o <<>>) \o <<>>
      BY <1>5, <2>5, <3>1
    <3>3. toClient'[j] = toClient[j]
      BY <2>1, <3>2, ConcatEmptySeq
    <3> QED
      BY <2>5, <3>2, <3>3 DEF TickOf, Passes
  <2> QED
    BY <2>3, <2>4, <2>5
<1> HIDE DEF Op, read
<1>7. errors' \in Nat /\ (MaxErrors = 0 => ~o /\ ~r)
  BY <1>5, FailingIs
<1>8. queue' \in {queue, Tail(queue)}
  BY <1>5
<1>9. /\ DOMAIN readers' = Jobs /\ readers' = [j \in Jobs |-> readers'[j]]
      /\ DOMAIN toClient' = Jobs /\ toClient' = [j \in Jobs |-> toClient'[j]]
  BY <1>5
<1> QED
  BY <1>1, <1>6, <1>7, <1>8, <1>9 DEF TickSteps

LEMMA ManagerTickParts ==
  ASSUME TransferAssumption, TransferTypes, ManagerTick
  PROVE  \E o, r \in BOOLEAN : TickSteps(o, r)
<1>1. /\ queue # <<>> /\ Delegated
      /\ UNCHANGED <<writers, disk, toHost, asked, answered, status, saved, losses>>
  BY DEF ManagerTick, user
<1> DEFINE first == Head(queue)
           Read(o, r) == IF o THEN [job |-> Opened(readers[first], o).job,
                                    out |-> <<>>, ends |-> TRUE]
                         ELSE ReadOnce(Opened(readers[first], o).job, r)
<1>2. PICK o \in BOOLEAN, r \in BOOLEAN :
        LET opened == Opened(readers[first], o)
            read   == Read(o, r)
        IN  /\ Failing(o, r)
            /\ r => ~o /\ opened.job.confirmed
            /\ readers' = [readers EXCEPT ![first] = read.job]
            /\ toClient' = [toClient EXCEPT ![first] = @ \o opened.out \o read.out]
            /\ queue' = IF read.ends THEN Tail(queue) ELSE queue
  BY DEF ManagerTick
<1>3. first \in Jobs /\ ~Absent(first) /\ toClient \in [Jobs -> Seq(Tells)]
      /\ readers \in [Jobs -> ReadJob]
  BY <1>1, QueueTail DEF TransferTypes
<1> DEFINE x == Opened(readers[first], o)
<1>4. /\ Failing(o, r)
      /\ r => ~o /\ x.job.confirmed
      /\ readers' = [readers EXCEPT ![first] = Read(o, r).job]
      /\ toClient' = [toClient EXCEPT ![first] = (@ \o x.out) \o Read(o, r).out]
      /\ queue' = IF Read(o, r).ends THEN Tail(queue) ELSE queue
  <2> HIDE DEF Read
  <2> QED
    BY <1>2
<1>5. TickOf(first, o, r)
  <2>1. CASE o
    <3>1. Read(o, r) = [job |-> x.job, out |-> <<>>, ends |-> TRUE]
      BY <2>1
    <3>2. x.out \in Seq(Tells)
      BY <1>3, OpenTypes
    <3> HIDE DEF x, Read, first
    <3>3. /\ readers'[first] = x.job /\ toClient'[first] = (toClient[first] \o x.out) \o <<>>
          /\ queue' = Tail(queue)
      BY <1>3, <1>4, <3>1
    <3>4. toClient'[first] = toClient[first] \o x.out
      <4>1. toClient[first] \o x.out \in Seq(Tells)
        BY <1>3, <3>2, ConcatProperties
      <4> QED
        BY <3>3, <4>1, ConcatEmptySeq
    <3>5. o = TRUE
      BY <2>1
    <3>6. Opens(first, TRUE)
      BY <3>3, <3>4, <3>5 DEF Opens, x
    <3>7. first = Head(queue)
      BY DEF first
    <3> QED
      BY <1>1, <2>1, <3>3, <3>6, <3>7 DEF TickOf
  <2>2. CASE ~o
    <3>1. Read(o, r) = ReadOnce(x.job, r)
      BY <2>2
    <3> HIDE DEF Read, first
    <3>2. Reads(first, o, r)
      BY <1>3, <1>4, <3>1 DEF Reads
    <3>3. Shortens(first, o, r)
      BY <1>4, <3>1 DEF Shortens
    <3>4. first = Head(queue)
      BY DEF first
    <3> QED
      BY <2>2, <3>2, <3>3, <3>4 DEF TickOf
  <2> QED
    BY <2>1, <2>2
<1> HIDE DEF Read, x
<1>6. ASSUME NEW j \in Jobs, j # first
      PROVE  TickOf(j, o, r)
  <2>1. Passes(j)
    BY <1>3, <1>4, <1>6 DEF Passes
  <2> QED
    BY <1>6, <2>1 DEF TickOf
<1>7. errors' \in Nat /\ (MaxErrors = 0 => ~o /\ ~r)
  BY <1>4, FailingIs
<1>8. queue' \in {queue, Tail(queue)}
  BY <1>4
<1>9. /\ DOMAIN readers' = Jobs /\ readers' = [j \in Jobs |-> readers'[j]]
      /\ DOMAIN toClient' = Jobs /\ toClient' = [j \in Jobs |-> toClient'[j]]
  BY <1>3, <1>4
<1>10. \A j \in Jobs : TickOf(j, o, r)
  BY <1>5, <1>6
<1> QED
  BY <1>1, <1>7, <1>8, <1>9, <1>10 DEF TickSteps

\* A tick keeps the invariant.
LEMMA TickStep ==
  ASSUME TransferAssumption, TransferInv,
         NEW o \in BOOLEAN, NEW r \in BOOLEAN, TickSteps(o, r)
  PROVE  TransferInv'
<1>1. TransferTypes /\ \A j \in Jobs : JobInv(j)
  BY DEF TransferInv
<1>2. \A j \in Jobs : Ticks(j)
  <2>1. ~Absent(Head(queue))
    BY <1>1, QueueTail DEF TickSteps, TransferTypes
  <2> QED
    BY <2>1 DEF TickSteps, TickOf, Ticks
<1>3. queue' \in Seq(Jobs) /\ \A j : Absent(j) => Absent(j)'
  <2>1. CASE queue' = queue
    BY <1>1, <2>1 DEF TransferTypes, Absent
  <2>2. CASE queue' = Tail(queue)
    BY <1>1, <2>2, QueueTail DEF TickSteps, TransferTypes, Absent
  <2> QED
    BY <2>1, <2>2 DEF TickSteps
<1>4. \A j \in Jobs : readers'[j] \in ReadJob /\ toClient'[j] \in Seq(Tells)
  BY <1>1, <1>2, TicksTypes DEF TickTypes
<1>5. readers' \in [Jobs -> ReadJob] /\ toClient' \in [Jobs -> Seq(Tells)]
  BY <1>4 DEF TickSteps
<1>6. /\ UNCHANGED <<writers, disk, toHost, asked, answered, status, saved, losses>>
      /\ errors' \in Nat
  BY DEF TickSteps
<1>7. TransferTypes'
  BY <1>1, <1>3, <1>5, <1>6 DEF TransferTypes
<1>8. ASSUME NEW j \in Jobs
      PROVE  JobInv(j)'
  <2>1. AskedOf(j)' = AskedOf(j)
    BY <1>6 DEF AskedOf
  <2> QED
    BY <1>1, <1>2, <1>3, <1>6, <2>1, TicksKeep
<1> QED
  BY <1>7, <1>8 DEF TransferInv

-----------------------------------------------------------------------------
(* The client's answers.                                                   *)

\* The client answers that the file is skipped.
LEMMA SkipConfirmed ==
  ASSUME TransferAssumption, NEW w \in WriteJob, NEW d \in Folder, NEW a,
         NEW f \in 1..Files, Kept(d, a, w.file), Between(w, d, a, f), a[f] = "skip",
         NEW c, c.f = f, c.skip,
         NEW v, v = WriterConfirmed(w, c)
  PROVE  /\ v \in WriteJob /\ (Obeys(w, a, f) => Obeys(v, a, f))
         /\ Kept(d, a, v.file) /\ Between(v, d, a, f + 1)
<1>1. Files \in Nat /\ f \in Nat /\ f + 1 \in 1..(Files + 1)
  BY TransferConstants
<1>2. Met(d, a, f)
  BY DEF Met
<1>3. CASE f = w.file
  <2>1. v = [w EXCEPT !.file = @ + 1, !.open = FALSE]
    BY <1>3 DEF WriterConfirmed
  <2>2. v.file = f + 1 /\ v.open = FALSE /\ v.strategy = w.strategy /\ v \in WriteJob
    BY <1>1, <1>3, <2>1 DEF WriteJob
  <2>3. \A g \in 1..Files : d[g].part = <<>>
    BY <1>1, <1>3 DEF Kept, Between
  <2>4. \A g \in 1..Files : g < f + 1 => Met(d, a, g)
    <3>1. \A g \in 1..Files : g < f => Met(d, a, g)
      BY <1>3 DEF Kept
    <3> QED
      BY <1>1, <1>2, <3>1
  <2>5. \A g \in 1..Files : d[g].digest <=> d[g].part # <<>>
    BY DEF Kept
  <2>6. Kept(d, a, f + 1)
    BY <2>3, <2>4, <2>5 DEF Kept
  <2>7. Between(v, d, a, f + 1)
    <3>1. f + 1 <= Files => d[f + 1].part = <<>>
      BY <1>1, <2>3
    <3> QED
      BY <1>1, <2>2, <2>4, <3>1 DEF Between
  <2> QED
    BY <2>2, <2>6, <2>7, ObeysStill
<1>4. CASE f # w.file
  <2>1. v = w
    BY <1>4 DEF WriterConfirmed
  <2>2. w.file \in Nat /\ w.file < f
    BY <1>1, <1>4 DEF Between, WriteJob
  <2>3. d[w.file].part \in {<<>>, <<Whole>>}
    BY <2>2 DEF Between
  <2>4. ASSUME NEW g \in 1..Files, g < f + 1
        PROVE  Met(d, a, g) \/ (g = w.file /\ d[g].part # <<>>)
    <3>1. g = f \/ g < f
      BY <1>1, <2>4
    <3> QED
      BY <1>2, <3>1 DEF Between
  <2>5. w.file < f + 1 /\ w.file <= f + 1 /\ w.file # f + 1
    BY <1>1, <2>2
  <2>6. Between(w, d, a, f + 1)
    BY <2>3, <2>4, <2>5 DEF Between
  <2> QED
    BY <2>1, <2>6
<1> QED
  BY <1>3, <1>4

\* The client answers that the file is sent from its beginning.
LEMMA OverConfirmed ==
  ASSUME TransferAssumption, NEW w \in WriteJob, NEW d, NEW a,
         NEW f \in 1..Files, Between(w, d, a, f), Allowed(d, a, f),
         NEW c, ~c.skip, c.offset = 0,
         NEW v, v = WriterConfirmed(w, c)
  PROVE  v = w /\ InFile(w, d, a, f, <<>>, 0)
<1>1. v = w
  <2>1. CASE c.f # w.file
    BY <2>1 DEF WriterConfirmed
  <2>2. CASE c.f = w.file
    <3>1. v = [w EXCEPT !.open = (c.offset > 0) \/ @]
      BY <2>2 DEF WriterConfirmed
    <3>2. ((c.offset > 0) \/ w.open) = w.open
      <4>1. w.open \in BOOLEAN
        BY DEF WriteJob
      <4> QED
        BY <4>1
    <3> QED
      BY <3>1, <3>2 DEF WriteJob
  <2> QED
    BY <2>1, <2>2
<1>2. InFile(w, d, a, f, <<>>, 0)
  <2>1. Amid(w, d, a, f, 0)
    BY DEF Amid
  <2> QED
    BY <2>1 DEF InFile
<1> QED
  BY <1>1, <1>2

\* The parts of a folder: which file may have one, and how long it is.
LEMMA PartIs ==
  ASSUME TransferAssumption, NEW d \in Folder, NEW f \in 1..Files,
         d[f].part # <<>>
  PROVE  \E n \in 1..Blocks : d[f].part = <<Stored(n)>> /\ Len(d[f].part[1]) = n
<1>1. Blocks \in Nat /\ Blocks >= 1
  BY TransferConstants
<1>2. d[f].part \in Parts
  BY DEF Folder
<1>3. PICK n \in 1..Blocks : d[f].part = <<Prefix(n)>>
  BY <1>2 DEF Parts
<1>4. Prefix(n) = Stored(n)
  BY <1>1 DEF Stored
<1>5. Len(Stored(n)) = n
  BY <1>1, StoredIs
<1> QED
  BY <1>3, <1>4, <1>5

\* A digest arrives for which a part is found: the client asks for what is missing.
LEMMA ResumeConfirmed ==
  ASSUME TransferAssumption, NEW w \in WriteJob, NEW d \in Folder, NEW a,
         NEW f \in 1..Files, Kept(d, a, w.file), Leads(w, d, a, f, <<>>),
         d[f].part # <<>>,
         NEW c, c = Confirm(f, FALSE, Len(d[f].part[1])),
         NEW v, v = WriterConfirmed(w, c)
  PROVE  /\ v \in WriteJob /\ (Obeys(w, a, f) => Obeys(v, a, f)) /\ Kept(d, a, v.file)
         /\ c.offset \in 1..Blocks
         /\ InFile(v, d, a, f, <<>>, c.offset)
<1>1. Files \in Nat /\ f \in Nat /\ Blocks \in Nat
  BY TransferConstants
<1>2. ~Between(w, d, a, f)
  <2> SUFFICES ASSUME Between(w, d, a, f) PROVE FALSE
    OBVIOUS
  <2>1. w.file # f
    BY <1>1 DEF Between
  <2> QED
    BY <2>1 DEF Kept
<1>3. w.file = f
  BY <1>2 DEF Leads, Past, Partly
<1>4. PICK n \in 1..Blocks : d[f].part = <<Stored(n)>> /\ Len(d[f].part[1]) = n
  BY PartIs
<1>5. c.f = f /\ c.skip = FALSE /\ c.offset = n
  BY <1>4 DEF Confirm
<1>6. v = [w EXCEPT !.open = (c.offset > 0) \/ @]
  BY <1>3, <1>5 DEF WriterConfirmed
<1>7. ((c.offset > 0) \/ w.open) = TRUE
  <2>1. n > 0 /\ n # 0 /\ n \in Nat
    BY <1>1
  <2>2. c.offset > 0
    BY <1>5, <2>1
  <2> QED
    BY <2>2
<1>8. v = [w EXCEPT !.open = TRUE]
  BY <1>6, <1>7
<1>9. v \in WriteJob /\ v.strategy = w.strategy /\ v.file = f /\ v.open
  BY <1>3, <1>8 DEF WriteJob
<1>10. Allowed(d, a, f)
  BY <1>3 DEF Kept
<1>11. Amid(v, d, a, f, n)
  <2>1. n # 0
    BY <1>1
  <2> QED
    BY <1>4, <1>9, <2>1 DEF Amid
<1>12. InFile(v, d, a, f, <<>>, n)
  <2>1. Len(<<>>) = 0 /\ n - 0 = n /\ 0 <= n
    BY <1>1
  <2>2. Amid(v, d, a, f, n - Len(<<>>))
    BY <1>11, <2>1
  <2>3. \A i \in 1..Len(<<>>) : <<>>[i] = BlockOf(f, n - Len(<<>>) + i)
    BY <2>1
  <2> QED
    BY <1>10, <2>1, <2>2, <2>3 DEF InFile
<1>13. Obeys(w, a, f) => Obeys(v, a, f)
  BY <1>9, ObeysStill
<1>14. Kept(d, a, v.file)
  BY <1>3, <1>9
<1> QED
  BY <1>5, <1>9, <1>12, <1>13, <1>14

-----------------------------------------------------------------------------
(* A step of one job.                                                      *)

LEMMA OthersStay ==
  ASSUME \A k \in Jobs : JobInv(k), NEW j \in Jobs, \A k \in Jobs \ {j} : Same(k), JobInv(j)'
  PROVE  \A k \in Jobs : JobInv(k)'
<1> SUFFICES ASSUME NEW k \in Jobs PROVE JobInv(k)'
  OBVIOUS
<1>1. CASE k = j
  BY <1>1
<1>2. CASE k # j
  BY <1>2, JobStays
<1> QED
  BY <1>1, <1>2

LEMMA AskKinds ==
  ASSUME NEW m \in Asks
  PROVE  /\ m.k \in {"send", "cancel", "confirm"}
         /\ m.k = "send" => m.f \in 1..(Files + 1)
         /\ m.k = "confirm" => m.f \in Nat /\ m.skip \in BOOLEAN /\ m.offset \in Nat
BY DEF Asks

\* A request or a confirmation reaches the host, in any phase.
LEMMA SendArrives ==
  ASSUME TransferAssumption, NEW w \in WriteJob, NEW d, NEW a, NEW H, NEW D,
         Sending(w, d, a, H, D), NEW r, r = NewReader(w.file)
  PROVE  /\ H[1].k = "send" /\ H[1].f = w.file /\ Tail(H) = <<>>
         /\ Opening(r, w, d, a, <<>>, D)
<1>1. H = <<[k |-> "send", f |-> w.file]>> /\ D = <<>>
      /\ Leads(w, d, a, w.file, <<>>) /\ w.strategy = "ask"
  BY DEF Sending
<1>2. H[1].k = "send" /\ H[1].f = w.file /\ Tail(H) = <<>>
  BY <1>1
<1>3. r.file = w.file /\ r.confirmed = FALSE /\ r.pos = 0 /\ r.waiting = FALSE
  BY DEF NewReader
<1>4. w.file <= Files + 1
  BY TransferConstants DEF WriteJob
<1> QED
  BY <1>1, <1>2, <1>3, <1>4 DEF Opening, Rests, Obeys

LEMMA OneIsSome == ASSUME NEW H, Len(H) = 1 PROVE H # <<>>
OBVIOUS

LEMMA ConfirmArrives ==
  ASSUME TransferAssumption, NEW r \in ReadJob, NEW w \in WriteJob, NEW d, NEW a,
         NEW H \in Seq(Asks), NEW D, Confirming(r, w, d, a, H, D)
  PROVE  /\ H # <<>> /\ Head(H) = H[1] /\ H[1].k = "confirm"
         /\ Live(Confirmed(r, H[1]), w, d, a, <<>>, D, {})
         /\ Live(r, w, d, a, <<>>, D, {})
<1>1. /\ Len(H) = 1 /\ D = <<>> /\ Waits(r)
      /\ H[1].k = "confirm" /\ H[1].f = r.file /\ H[1].offset \in 0..Blocks
      /\ IF H[1].skip THEN Between(w, d, a, r.file + 1)
         ELSE InFile(w, d, a, r.file, <<>>, H[1].offset)
      /\ Obeys(w, a, r.file)
  BY DEF Confirming
<1>2. ~r.confirmed /\ r.pos = 0 /\ r.waiting /\ r.open /\ r.file <= Files /\ r.file \in Nat
      /\ Files \in Nat /\ Blocks \in Nat
  BY <1>1, TransferConstants DEF Waits, Rests, ReadJob
<1>3. Live(r, w, d, a, <<>>, D, {})
  BY <1>1 DEF Live, Asking
<1>4. H # <<>> /\ Head(H) = H[1]
  <2>1. H # <<>>
    <3>1. Len(H) = 1
      BY <1>1
    <3> QED
      BY <3>1, OneIsSome
  <2> QED
    BY <2>1
<1> DEFINE v == Confirmed(r, H[1])
<1>5. CASE H[1].skip
  <2>1. v = [NextFile(r) EXCEPT !.skipped = TRUE]
    BY <1>1, <1>5 DEF Confirmed
  <2>2. v.file = r.file + 1 /\ v.pos = 0 /\ v.confirmed = FALSE /\ v.waiting = FALSE
    BY <2>1 DEF NextFile, ReadJob
  <2> HIDE DEF v
  <2>3. r.file + 1 <= Files + 1
    BY <1>2
  <2>4. Obeys(w, a, r.file + 1)
    BY <1>1, <1>2 DEF Obeys
  <2>5. Opening(v, w, d, a, <<>>, D)
    BY <1>1, <1>5, <2>2, <2>3, <2>4 DEF Opening, Rests, Leads, Past
  <2>6. Live(v, w, d, a, <<>>, D, {})
    BY <2>5 DEF Live
  <2> QED
    BY <1>1, <1>3, <1>4, <2>6 DEF v
<1>6. CASE ~H[1].skip
  <2>1. v = [r EXCEPT !.confirmed = TRUE, !.skipped = FALSE,
                      !.pos = IF H[1].offset > 0 THEN H[1].offset ELSE @]
    BY <1>1, <1>6 DEF Confirmed
  <2>2. (IF H[1].offset > 0 THEN H[1].offset ELSE r.pos) = H[1].offset
    BY <1>1, <1>2
  <2>3. v = [r EXCEPT !.confirmed = TRUE, !.skipped = FALSE, !.pos = H[1].offset]
    BY <2>1, <2>2
  <2>4. v.file = r.file /\ v.pos = H[1].offset /\ v.confirmed = TRUE /\ v.open = r.open
    BY <2>3 DEF ReadJob
  <2> HIDE DEF v
  <2>5. v.pos <= Blocks
    BY <1>1, <1>2, <2>4
  <2>6. Streaming(v, w, d, a, <<>>, D)
    BY <1>1, <1>2, <1>6, <2>4, <2>5 DEF Streaming
  <2>7. Live(v, w, d, a, <<>>, D, {})
    BY <2>6 DEF Live
  <2> QED
    BY <1>1, <1>3, <1>4, <2>7 DEF v
<1> QED
  BY <1>5, <1>6

LEMMA ConfirmedTypes ==
  ASSUME TransferAssumption, NEW r \in ReadJob, NEW m \in Asks, m.k = "confirm"
  PROVE  Confirmed(r, m) \in ReadJob
<1>1. m.offset \in Nat /\ r.file + 1 \in Nat \ {0}
  BY AskKinds DEF ReadJob
<1>2. CASE m.skip
  BY <1>1, <1>2 DEF Confirmed, NextFile, ReadJob
<1>3. CASE ~m.skip
  BY <1>1, <1>3 DEF Confirmed, ReadJob
<1> QED
  BY <1>2, <1>3

\* What HostReceives does, by the kind of the message.
LEMMA HostReceivesIs ==
  ASSUME TransferAssumption, TransferTypes, NEW j \in Jobs, HostReceives(j),
         NEW m, m = Head(toHost[j])
  PROVE  /\ m \in Asks /\ toHost[j] # <<>>
         /\ toHost' = [toHost EXCEPT ![j] = Tail(@)] /\ Tail(toHost[j]) \in Seq(Asks)
         /\ UNCHANGED <<writers, disk, toClient, asked, answered, status, saved, errors, losses>>
         /\ \/ /\ m.k = "send" /\ queue' = Append(queue, j)
               /\ readers' = [readers EXCEPT ![j] = NewReader(m.f)]
            \/ m.k = "cancel" /\ queue' = RemoveFirst(queue, j) /\ readers' = readers
            \/ /\ m.k = "confirm" /\ queue' = queue
               /\ \/ readers' = readers
                  \/ readers' = [readers EXCEPT ![j] = Confirmed(@, m)]
<1>1. toHost[j] \in Seq(Asks) /\ toHost[j] # <<>>
  BY DEF TransferTypes, HostReceives
<1>2. m \in Asks /\ Tail(toHost[j]) \in Seq(Asks)
  BY <1>1, HeadTailProperties
<1>3. m.k \in {"send", "cancel", "confirm"}
  BY <1>2, AskKinds
<1>4. /\ toHost' = [toHost EXCEPT ![j] = Tail(@)]
      /\ UNCHANGED <<writers, disk, toClient, asked, answered, status, saved, errors, losses>>
      /\ queue' = CASE m.k = "send"    -> Append(queue, j)
                    [] m.k = "cancel"  -> RemoveFirst(queue, j)
                    [] m.k = "confirm" -> queue
      /\ readers' = CASE m.k = "send" -> [readers EXCEPT ![j] = NewReader(m.f)]
                      [] m.k = "confirm" /\ j \in ToSet(queue) ->
                             [readers EXCEPT ![j] = Confirmed(@, m)]
                      [] OTHER -> readers
  BY DEF HostReceives, user
<1>5. CASE m.k = "send"
  BY <1>1, <1>2, <1>4, <1>5
<1>6. CASE m.k = "cancel"
  BY <1>1, <1>2, <1>4, <1>6
<1>7. CASE m.k = "confirm"
  BY <1>1, <1>2, <1>4, <1>7
<1> QED
  BY <1>3, <1>5, <1>6, <1>7

LEMMA HostStepTypes ==
  ASSUME TransferAssumption, TransferTypes, NEW j \in Jobs, HostReceives(j)
  PROVE  /\ TransferTypes'
         /\ \A k \in Jobs \ {j} : Same(k)
<1> DEFINE m == Head(toHost[j])
<1>1. /\ m \in Asks
      /\ toHost' = [toHost EXCEPT ![j] = Tail(@)] /\ Tail(toHost[j]) \in Seq(Asks)
      /\ UNCHANGED <<writers, disk, toClient, asked, answered, status, saved, errors, losses>>
  BY HostReceivesIs
<1>2. \/ /\ m.k = "send" /\ queue' = Append(queue, j)
         /\ readers' = [readers EXCEPT ![j] = NewReader(m.f)]
      \/ m.k = "cancel" /\ queue' = RemoveFirst(queue, j) /\ readers' = readers
      \/ /\ m.k = "confirm" /\ queue' = queue
         /\ \/ readers' = readers
            \/ readers' = [readers EXCEPT ![j] = Confirmed(@, m)]
  BY HostReceivesIs
<1>3. m.k = "send" => m.f \in 1..(Files + 1)
  BY <1>1, AskKinds
<1> HIDE DEF m
<1>4. queue \in Seq(Jobs) /\ readers \in [Jobs -> ReadJob] /\ toHost \in [Jobs -> Seq(Asks)]
  BY DEF TransferTypes
<1>5. toHost' \in [Jobs -> Seq(Asks)]
  BY <1>1, <1>4
<1>6. readers' \in [Jobs -> ReadJob] /\ \A k \in Jobs \ {j} : readers'[k] = readers[k]
  <2>1. CASE m.k = "send" /\ readers' = [readers EXCEPT ![j] = NewReader(m.f)]
    <3>1. PICK f \in 1..(Files + 1) : f = m.f
      BY <1>3, <2>1
    <3>2. NewReader(f) \in ReadJob
      BY DEF NewReader, ReadJob
    <3> QED
      BY <1>4, <2>1, <3>1, <3>2
  <2>2. CASE m.k = "confirm" /\ readers' = [readers EXCEPT ![j] = Confirmed(@, m)]
    <3>1. Confirmed(readers[j], m) \in ReadJob
      BY <1>1, <1>4, <2>2, ConfirmedTypes
    <3> QED
      BY <1>4, <2>2, <3>1
  <2>3. CASE readers' = readers
    BY <1>4, <2>3
  <2> QED
    BY <1>2, <2>1, <2>2, <2>3
<1>7. queue' \in Seq(Jobs) /\ \A k \in Jobs \ {j} : Absent(k) => Absent(k)'
  <2>1. CASE queue' = Append(queue, j)
    <3>1. /\ queue' \in Seq(Jobs) /\ Len(queue') = Len(queue) + 1
          /\ \A i \in 1..Len(queue') : queue'[i] = IF i <= Len(queue) THEN queue[i] ELSE j
      BY <1>4, <2>1, AppendProperties
    <3>2. Len(queue) \in Nat
      BY <1>4
    <3>3. \A i \in 1..Len(queue') : queue'[i] = j \/ \E n \in 1..Len(queue) : queue'[i] = queue[n]
      BY <3>1, <3>2
    <3> QED
      BY <3>1, <3>3 DEF Absent
  <2>2. CASE queue' = RemoveFirst(queue, j)
    <3>1. queue' \in Seq(Jobs)
      BY <1>4, <2>2, RemovedFirst
    <3> DEFINE left == RemoveFirst(queue, j)
    <3>2. \A i \in 1..Len(left) : \E k \in 1..Len(queue) : left[i] = queue[k]
      BY <1>4, RemovedFirst
    <3>3. queue' = left
      BY <2>2
    <3> HIDE DEF left
    <3> QED
      BY <3>1, <3>2, <3>3 DEF Absent
  <2>3. CASE queue' = queue
    BY <1>4, <2>3 DEF Absent
  <2> QED
    BY <1>2, <2>1, <2>2, <2>3
<1>8. TransferTypes'
  BY <1>1, <1>5, <1>6, <1>7 DEF TransferTypes
<1>9. ASSUME NEW k \in Jobs \ {j}
      PROVE  Same(k)
  <2>1. toHost'[k] = toHost[k] /\ AskedOf(k)' = AskedOf(k)
    BY <1>1, <1>4 DEF AskedOf
  <2> QED
    BY <1>1, <1>6, <1>7, <2>1 DEF Same
<1> QED
  BY <1>8, <1>9

LEMMA HostStep ==
  ASSUME TransferAssumption, TransferInv, NEW j \in Jobs, HostReceives(j)
  PROVE  TransferInv'
<1>1. TransferTypes /\ \A k \in Jobs : JobInv(k)
  BY DEF TransferInv
<1>2. TransferTypes' /\ \A k \in Jobs \ {j} : Same(k)
  BY <1>1, HostStepTypes
<1> DEFINE H == toHost[j]
           m == Head(H)
<1>3. /\ m \in Asks /\ H # <<>>
      /\ toHost' = [toHost EXCEPT ![j] = Tail(@)] /\ Tail(H) \in Seq(Asks)
      /\ UNCHANGED <<writers, disk, toClient, asked, answered, status, saved, errors, losses>>
  BY <1>1, HostReceivesIs
<1>4. \/ /\ m.k = "send" /\ queue' = Append(queue, j)
         /\ readers' = [readers EXCEPT ![j] = NewReader(m.f)]
      \/ m.k = "cancel" /\ queue' = RemoveFirst(queue, j) /\ readers' = readers
      \/ /\ m.k = "confirm" /\ queue' = queue
         /\ \/ readers' = readers
            \/ readers' = [readers EXCEPT ![j] = Confirmed(@, m)]
  BY <1>1, HostReceivesIs
<1>5. /\ H \in Seq(Asks) /\ m = H[1] /\ toHost'[j] = Tail(H)
      /\ readers \in [Jobs -> ReadJob]
  BY <1>1, <1>3 DEF TransferTypes
<1>6. AskedOf(j)' = AskedOf(j)
  BY <1>3 DEF AskedOf
<1> HIDE DEF m, H
<1>7. \A i \in 1..Len(Tail(H)) : Tail(H)[i].k # "send"
  <2> SUFFICES ASSUME NEW i \in 1..Len(Tail(H)), Tail(H)[i].k = "send" PROVE FALSE
    OBVIOUS
  <2>1. /\ Len(Tail(H)) = Len(H) - 1 /\ Len(H) \in Nat
        /\ \A n \in 1..Len(Tail(H)) : Tail(H)[n] = H[n + 1]
    BY <1>3, <1>5, HeadTailProperties
  <2>2. i + 1 \in 1..Len(H) /\ H[i + 1].k = "send" /\ i + 1 # 1
    BY <2>1
  <2> QED
    BY <1>1, <2>2 DEF JobInv, H
<1>8. status[j] \notin {"none", "saved"}
  BY <1>1, <1>3 DEF JobInv, Unbegun, H
<1> SUFFICES JobInv(j)'
  BY <1>1, <1>2, OthersStay DEF TransferInv
<1>9. CASE ~Writing(j)
  <2>1. ~Writing(j)' /\ status'[j] = status[j]
    BY <1>3, <1>9 DEF Writing
  <2> QED
    BY <1>1, <1>3, <1>5, <1>7, <1>8, <1>9, <2>1 DEF JobInv
<1>10. CASE Writing(j)
  <2> DEFINE r == readers[j]
             d == disk[j]
             a == answered[j]
             D == toClient[j]
             Q == AskedOf(j)
  <2>1. PICK w \in WriteJob : writers[j] = <<w>>
    BY <1>1, <1>10 DEF TransferTypes, Writing
  <2>2. r \in ReadJob /\ d \in Folder /\ D \in Seq(Tells)
    BY <1>1 DEF TransferTypes
  <2>3. Kept(d, a, w.file) /\ Live(r, w, d, a, H, D, Q)
    BY <1>1, <1>10, <2>1 DEF JobInv, H
  <2>4. ASSUME Tail(H) = <<>>, Live(readers'[j], w, d, a, <<>>, D, Q)
        PROVE  JobInv(j)'
    <3>1. writers'[j] = <<w>> /\ <<w>>[1] = w /\ <<w>> # <<>>
      BY <1>3, <2>1
    <3>2. Kept(disk'[j], answered'[j], writers'[j][1].file)
      BY <1>3, <2>3, <3>1
    <3>3. Live(readers'[j], writers'[j][1], disk'[j], answered'[j], toHost'[j], toClient'[j],
               AskedOf(j)')
      BY <1>3, <1>5, <1>6, <2>4, <3>1
    <3>4. status'[j] = "running" /\ status'[j] \notin {"none", "saved"}
      BY <1>1, <1>3, <1>10 DEF JobInv
    <3> HIDE DEF r, d, a, D, Q
    <3> QED
      BY <1>5, <1>7, <3>1, <3>2, <3>3, <3>4 DEF JobInv, Writing
  <2> HIDE DEF r, d, a, D, Q
  <2>5. CASE Q = {} /\ Sending(w, d, a, H, D)
    <3> DEFINE s == NewReader(w.file)
    <3>1. m.k = "send" /\ m.f = w.file /\ Tail(H) = <<>>
      BY <1>5, <2>5, SendArrives
    <3>2. Opening(s, w, d, a, <<>>, D)
      BY <2>5, SendArrives
    <3>3. readers'[j] = s
      BY <1>4, <1>5, <3>1
    <3> HIDE DEF s
    <3>4. Live(readers'[j], w, d, a, <<>>, D, Q)
      BY <2>5, <3>2, <3>3 DEF Live
    <3> QED
      BY <2>4, <3>1, <3>4
  <2>6. CASE Q = {} /\ Confirming(r, w, d, a, H, D)
    <3>1. /\ m.k = "confirm"
          /\ Live(Confirmed(r, m), w, d, a, <<>>, D, {})
          /\ Live(r, w, d, a, <<>>, D, {})
      BY <1>5, <2>2, <2>6, ConfirmArrives
    <3>2. readers'[j] = r \/ readers'[j] = Confirmed(r, m)
      BY <1>4, <1>5, <3>1 DEF r
    <3>3. Tail(H) = <<>>
      <4>1. Len(H) = 1
        BY <2>6 DEF Confirming
      <4>2. Len(Tail(H)) = 0
        BY <1>3, <1>5, <4>1, HeadTailProperties
      <4> QED
        BY <1>3, <4>2, EmptySeq
    <3>4. Live(readers'[j], w, d, a, <<>>, D, Q)
      BY <2>6, <3>1, <3>2
    <3> QED
      BY <2>4, <3>3, <3>4
  <2> QED
    BY <1>3, <2>3, <2>5, <2>6
      DEF Live, Opening, Announcing, Streaming, Ending, Asking
<1> QED
  BY <1>9, <1>10

-----------------------------------------------------------------------------
(* The client's steps.                                                     *)

SendsFirst(j) == \A i \in 1..Len(toHost[j]) : toHost[j][i].k = "send" => i = 1 /\ Absent(j)

\* After a step of one job the download goes on, or it has stopped.
LEMMA GoesOn ==
  ASSUME TransferInv, TransferTypes', NEW j \in Jobs, \A k \in Jobs \ {j} : Same(k),
         status'[j] = "running", SendsFirst(j)',
         NEW w, writers'[j] = <<w>>,
         Kept(disk'[j], answered'[j], w.file),
         Live(readers'[j], w, disk'[j], answered'[j], toHost'[j], toClient'[j], AskedOf(j)')
  PROVE  TransferInv'
<1>1. writers'[j] # <<>> /\ writers'[j][1] = w
  OBVIOUS
<1>2. JobInv(j)'
  BY <1>1 DEF JobInv, Writing, SendsFirst
<1> QED
  BY <1>2, OthersStay DEF TransferInv

LEMMA Stops ==
  ASSUME TransferInv, TransferTypes', NEW j \in Jobs, \A k \in Jobs \ {j} : Same(k),
         status'[j] \notin {"running", "none", "saved"}, SendsFirst(j)', writers'[j] = <<>>
  PROVE  TransferInv'
<1>1. JobInv(j)'
  BY DEF JobInv, Writing, SendsFirst
<1> QED
  BY <1>1, OthersStay DEF TransferInv

\* The client answers the digest of the file that is next.
LEMMA DigestAnswered ==
  ASSUME TransferAssumption, TransferInv, NEW j \in Jobs,
         NEW w \in WriteJob, writers[j] = <<w>>, toHost[j] = <<>>,
         NEW c \in Asks, c.k = "confirm", Confirms(j, c), toClient[j] # <<>>,
         toClient' = [toClient EXCEPT ![j] = Tail(@)], Tail(toClient[j]) = <<>>,
         UNCHANGED <<queue, readers, disk, asked, answered, status, saved, errors, losses>>,
         AskedOf(j) = {},
         NEW v, v = WriterConfirmed(w, c), v \in WriteJob,
         Kept(disk[j], answered[j], v.file),
         Confirming(readers[j], v, disk[j], answered[j], <<c>>, <<>>)
  PROVE  TransferInv'
<1>1. TransferTypes /\ JobInv(j)
  BY DEF TransferInv
<1>2. /\ writers \in [Jobs -> {<<>>} \union {<<x>> : x \in WriteJob}]
      /\ toHost \in [Jobs -> Seq(Asks)] /\ toClient \in [Jobs -> Seq(Tells)]
  BY <1>1 DEF TransferTypes
<1>3. writers' = [writers EXCEPT ![j] = <<v>>]
  <2>1. writers' = [writers EXCEPT ![j] = [writers[j] EXCEPT ![1] = v]]
    BY <1>2 DEF Confirms
  <2>2. [writers[j] EXCEPT ![1] = v] = <<v>>
    BY OneInPlace
  <2> QED
    BY <2>1, <2>2
<1>4. toHost' = [toHost EXCEPT ![j] = <<c>>]
  <2>1. toHost' = [toHost EXCEPT ![j] = Append(toHost[j], c)]
    BY <1>2 DEF Confirms, ToHost
  <2>2. Append(toHost[j], c) = <<c>>
    OBVIOUS
  <2> QED
    BY <2>1, <2>2
<1>5. toClient' = [toClient EXCEPT ![j] = <<>>]
  BY <1>2
<1>6. <<c>> \in Seq(Asks) /\ <<>> \in Seq(Tells) /\ Len(<<c>>) = 1 /\ <<c>>[1] = c
  OBVIOUS
<1>7. TransferTypes'
  BY <1>1, <1>2, <1>3, <1>4, <1>5, <1>6 DEF TransferTypes
<1>8. AskedOf(j)' = {}
  BY DEF AskedOf
<1>9. ASSUME NEW k \in Jobs \ {j}
      PROVE  Same(k)
  <2>1. AskedOf(k)' = AskedOf(k) /\ (Absent(k) => Absent(k)')
    BY DEF AskedOf, Absent
  <2>2. writers'[k] = writers[k] /\ toHost'[k] = toHost[k] /\ toClient'[k] = toClient[k]
    BY <1>2, <1>3, <1>4, <1>5
  <2> QED
    BY <2>1, <2>2 DEF Same
<1>10. status'[j] = "running"
  BY <1>1 DEF JobInv, Writing
<1>11. writers'[j] = <<v>> /\ toHost'[j] = <<c>> /\ toClient'[j] = <<>>
  BY <1>2, <1>3, <1>4, <1>5
<1>12. SendsFirst(j)'
  BY <1>6, <1>11 DEF SendsFirst
<1>13. Live(readers'[j], v, disk'[j], answered'[j], toHost'[j], toClient'[j], AskedOf(j)')
  <2>1. Live(readers[j], v, disk[j], answered[j], <<c>>, <<>>, {})
    BY DEF Live
  <2> QED
    BY <1>8, <1>11, <2>1
<1> QED
  BY <1>7, <1>9, <1>10, <1>11, <1>12, <1>13, GoesOn

\* What the confirmation of a digest is.
LEMMA ConfirmIs ==
  ASSUME NEW f \in Nat, NEW skip \in BOOLEAN, NEW n \in Nat,
         NEW c, c = Confirm(f, skip, n)
  PROVE  c \in Asks /\ c.k = "confirm" /\ c.f = f /\ c.skip = skip /\ c.offset = n
BY DEF Confirm, Asks

LEMMA ConfirmingIs ==
  ASSUME TransferAssumption, NEW r, NEW w, NEW d, NEW a, Waits(r),
         NEW c, c.k = "confirm", c.f = r.file, c.offset \in 0..Blocks,
         c.skip => Between(w, d, a, r.file + 1),
         ~c.skip => InFile(w, d, a, r.file, <<>>, c.offset),
         Obeys(w, a, r.file)
  PROVE  Confirming(r, w, d, a, <<c>>, <<>>)
<1>1. Len(<<c>>) = 1 /\ <<c>>[1] = c
  OBVIOUS
<1> QED
  BY <1>1 DEF Confirming

\* A digest arrives: the file is asked for, skipped, or the user is asked.
LEMMA DigestStep ==
  ASSUME TransferAssumption, TransferInv, NEW j \in Jobs,
         NEW w \in WriteJob, writers[j] = <<w>>, toClient[j] # <<>>,
         NEW m, m = Head(toClient[j]), m.k = "digest", OnDigest(j, m),
         toClient' = [toClient EXCEPT ![j] = Tail(@)],
         UNCHANGED <<queue, readers, disk, answered, status, saved, errors, losses>>
  PROVE  TransferInv'
<1> DEFINE r == readers[j]
           d == disk[j]
           a == answered[j]
           D == toClient[j]
<1>1. TransferTypes /\ JobInv(j)
  BY DEF TransferInv
<1>2. r \in ReadJob /\ d \in Folder /\ D \in Seq(Tells)
  BY <1>1 DEF TransferTypes
<1>3. Kept(d, a, w.file) /\ Live(r, w, d, a, toHost[j], D, AskedOf(j))
  BY <1>1 DEF JobInv, Writing
<1> HIDE DEF r, d, a
<1>4. toHost[j] = <<>> /\ AskedOf(j) = {} /\ Announcing(r, w, d, a, toHost[j], D)
      /\ Len(D) = 1 /\ m = DigestOf(r.file) /\ Leads(w, d, a, r.file, <<>>)
  <2>1. Head(D).k # "block" /\ ~Ends(Head(D))
    BY DEF Ends
  <2> HIDE DEF D
  <2>2. toHost[j] = <<>> /\ AskedOf(j) = {}
    BY <1>2, <1>3, <2>1, LiveHead DEF D
  <2>3. Announcing(r, w, d, a, toHost[j], D) /\ Len(D) = 1
        /\ Head(D) = DigestOf(r.file) /\ Leads(w, d, a, r.file, <<>>)
    BY <1>2, <1>3, <2>1, LiveHead DEF D
  <2> QED
    BY <2>2, <2>3 DEF D
<1>5. Waits(r) /\ Obeys(w, a, r.file) /\ r.file <= Files
  BY <1>4 DEF Announcing, Waits
<1>6. PICK f \in 1..Files : f = r.file
  BY <1>2, <1>5, TransferConstants DEF ReadJob
<1>7. m.f = f /\ f \in Nat /\ Blocks \in Nat /\ Files \in Nat
  BY <1>4, <1>6, Kinds, TransferConstants
<1>8. D # <<>> /\ Tail(D) = <<>>
  <2>1. Tail(D) \in Seq(Tells) /\ Len(Tail(D)) = 0
    BY <1>2, <1>4, HeadTailProperties
  <2> QED
    BY <2>1, EmptySeq
<1>9. ASSUME NEW skip \in BOOLEAN, NEW n \in 0..Blocks,
             Confirms(j, Confirm(f, skip, n)), asked' = asked,
             NEW v, v = WriterConfirmed(w, Confirm(f, skip, n)),
             v \in WriteJob, Obeys(v, a, f), Kept(d, a, v.file),
             skip => Between(v, d, a, f + 1),
             ~skip => InFile(v, d, a, f, <<>>, n)
      PROVE  TransferInv'
  <2> DEFINE c == Confirm(f, skip, n)
  <2>1. n \in Nat
    BY <1>7
  <2>2. c \in Asks /\ c.k = "confirm" /\ c.f = f /\ c.skip = skip /\ c.offset = n
    BY <1>7, <2>1, ConfirmIs
  <2>3. Confirms(j, c) /\ v = WriterConfirmed(w, c)
    BY <1>9
  <2> HIDE DEF c
  <2>4. Confirming(r, v, d, a, <<c>>, <<>>)
    BY <1>5, <1>6, <1>9, <2>2, ConfirmingIs
  <2> QED
    BY <1>4, <1>8, <1>9, <2>2, <2>3, <2>4, DigestAnswered DEF r, d, a
<1>10. Obeys(w, a, f)
  BY <1>5, <1>6
<1>11. d[f].part # <<>> => w.resume /\ Has(d[f]) /\ Len(d[f].part[1]) > 0
  <2> SUFFICES ASSUME d[f].part # <<>>
               PROVE  w.resume /\ Has(d[f]) /\ Len(d[f].part[1]) > 0
    OBVIOUS
  <2>1. PICK n \in 1..Blocks : Len(d[f].part[1]) = n
    BY <1>2, PartIs
  <2>2. d[f].digest
    BY <1>3 DEF Kept
  <2>3. w.resume
    <3>1. Leads(w, d, a, f, <<>>)
      BY <1>4, <1>6
    <3>2. Between(w, d, a, f) => w.file # f
      BY <1>7 DEF Between
    <3>3. w.file = f
      BY <1>3 DEF Kept
    <3> QED
      BY <3>1, <3>2, <3>3 DEF Leads, Past, Partly
  <2>4. Len(d[f].part[1]) > 0
    BY <1>7, <2>1
  <2> QED
    BY <2>2, <2>3, <2>4 DEF Has
<1> DEFINE resumes == w.resume /\ Has(d[f]) /\ Len(d[f].part[1]) > 0
<1>12. resumes <=> d[f].part # <<>>
  BY <1>11 DEF Has
<1>13. IF resumes
       THEN Confirms(j, Confirm(f, FALSE, Len(d[f].part[1]))) /\ asked' = asked
       ELSE IF d[f].final = <<>>
       THEN Confirms(j, Confirm(f, FALSE, 0)) /\ asked' = asked
       ELSE IF w.strategy # "ask"
       THEN Confirms(j, Confirm(f, w.strategy = "skip", 0)) /\ asked' = asked
       ELSE asked' = asked \union {<<j, f>>} /\ UNCHANGED <<writers, toHost>>
  <2>1. Writing(j) /\ writers[j][1] = w
    BY DEF Writing
  <2> QED
    BY <1>7, <2>1 DEF OnDigest, d
<1> HIDE DEF resumes
<1>14. CASE d[f].part # <<>>
  <2>1. PICK c : c = Confirm(f, FALSE, Len(d[f].part[1]))
    OBVIOUS
  <2>2. PICK v : v = WriterConfirmed(w, c)
    OBVIOUS
  <2>3. Leads(w, d, a, f, <<>>)
    BY <1>4, <1>6
  <2>4. v \in WriteJob
    BY <1>2, <1>3, <1>14, <2>3, <2>1, <2>2, ResumeConfirmed
  <2>5. Obeys(v, a, f)
    BY <1>10, <1>2, <1>3, <1>14, <2>3, <2>1, <2>2, ResumeConfirmed
  <2>6. Kept(d, a, v.file)
    BY <1>2, <1>3, <1>14, <2>3, <2>1, <2>2, ResumeConfirmed
  <2>7. InFile(v, d, a, f, <<>>, c.offset)
    BY <1>2, <1>3, <1>14, <2>3, <2>1, <2>2, ResumeConfirmed
  <2>8. PICK n \in 1..Blocks : Len(d[f].part[1]) = n
    BY <1>2, <1>14, PartIs
  <2>9. c = Confirm(f, FALSE, n) /\ c.offset = n /\ n \in 0..Blocks
    BY <1>7, <2>8, <2>1 DEF Confirm
  <2>10. Confirms(j, c) /\ asked' = asked
    BY <1>12, <1>13, <1>14, <2>1
  <2>11. v = WriterConfirmed(w, Confirm(f, FALSE, n))
    BY <2>9, <2>2
  <2>12. InFile(v, d, a, f, <<>>, n)
    BY <2>7, <2>9
  <2> QED
    BY <1>9, <2>5, <2>4, <2>9, <2>10, <2>11, <2>12, <2>6
<1>15. CASE d[f].part = <<>>
  <2>1. ~resumes
    BY <1>12, <1>15
  <2>2. Between(w, d, a, f)
    BY <1>4, <1>6, <1>15 DEF Leads, Past, Partly
  <2>3. 0 \in 0..Blocks
    BY <1>7
  <2>4. ASSUME Allowed(d, a, f), NEW skip \in BOOLEAN, ~skip,
               Confirms(j, Confirm(f, skip, 0)), asked' = asked
        PROVE  TransferInv'
    <3> DEFINE c == Confirm(f, skip, 0)
               v == WriterConfirmed(w, c)
    <3>1. c.skip = skip /\ c.offset = 0
      BY DEF Confirm
    <3>2. v = w /\ InFile(w, d, a, f, <<>>, 0)
      BY <2>2, <2>4, <3>1, OverConfirmed
    <3> QED
      BY <1>3, <1>9, <1>10, <2>3, <2>4, <3>2
  <2>5. CASE d[f].final = <<>>
    <3>1. Allowed(d, a, f)
      <4>1. <<>> # <<Before>>
        OBVIOUS
      <4> QED
        BY <2>5, <4>1 DEF Allowed
    <3>2. Confirms(j, Confirm(f, FALSE, 0)) /\ asked' = asked
      BY <1>13, <2>1, <2>5
    <3> QED
      BY <2>4, <3>1, <3>2
  <2>6. CASE d[f].final # <<>> /\ w.strategy # "ask"
    <3>1. PICK skip \in BOOLEAN : skip = (w.strategy = "skip")
      OBVIOUS
    <3>2. Confirms(j, Confirm(f, skip, 0)) /\ asked' = asked
      BY <1>13, <2>1, <2>6, <3>1
    <3>3. a[f] = w.strategy
      <4>1. f >= f
        BY <1>7
      <4> QED
        BY <1>5, <1>6, <2>6, <4>1 DEF Obeys
    <3>4. CASE skip
      <4>1. PICK c : c = Confirm(f, skip, 0)
        OBVIOUS
      <4>2. PICK v : v = WriterConfirmed(w, c)
        OBVIOUS
      <4>3. c.f = f /\ c.skip = skip
        BY <4>1 DEF Confirm
      <4>4. a[f] = "skip"
        BY <3>1, <3>3, <3>4
      <4>5. v \in WriteJob
        BY <1>2, <1>3, <2>2, <3>4, <4>3, <4>4, <4>2, SkipConfirmed
      <4>6. Obeys(v, a, f)
        BY <1>10, <1>2, <1>3, <2>2, <3>4, <4>3, <4>4, <4>2, SkipConfirmed
      <4>7. Kept(d, a, v.file) /\ Between(v, d, a, f + 1)
        BY <1>2, <1>3, <2>2, <3>4, <4>3, <4>4, <4>2, SkipConfirmed
      <4> QED
        BY <1>9, <2>3, <3>2, <3>4, <4>5, <4>7, <4>6, <4>1, <4>2
    <3>5. CASE ~skip
      <4>1. w.strategy = "over"
        BY <2>6, <3>1, <3>5 DEF WriteJob
      <4>2. Allowed(d, a, f)
        BY <3>3, <4>1 DEF Allowed
      <4> QED
        BY <2>4, <3>2, <3>5, <4>2
    <3> QED
      BY <3>4, <3>5
  <2>7. CASE d[f].final # <<>> /\ w.strategy = "ask"
    <3>1. asked' = asked \union {<<j, f>>} /\ UNCHANGED <<writers, toHost>>
      BY <1>13, <2>1, <2>7
    <3>2. toClient' = [toClient EXCEPT ![j] = <<>>] /\ toClient \in [Jobs -> Seq(Tells)]
      BY <1>1, <1>8 DEF TransferTypes
    <3>3. AskedOf(j)' = {f} /\ \A k \in Jobs \ {j} : AskedOf(k)' = AskedOf(k)
      <4>1. \A k : AskedOf(k)' = {g \in 1..Files : <<k, g>> \in asked \union {<<j, f>>}}
        BY <3>1 DEF AskedOf
      <4>2. \A g \in 1..Files : <<j, g>> \notin asked
        BY <1>4 DEF AskedOf
      <4> QED
        BY <4>1, <4>2 DEF AskedOf
    <3>4. TransferTypes'
      BY <1>1, <3>1, <3>2 DEF TransferTypes
    <3>5. ASSUME NEW k \in Jobs \ {j}
          PROVE  Same(k)
      <4>1. Absent(k) => Absent(k)'
        BY DEF Absent
      <4> QED
        BY <3>1, <3>2, <3>3, <4>1 DEF Same
    <3>6. status'[j] = "running"
      BY <1>1 DEF JobInv, Writing
    <3>7. SendsFirst(j)'
      <4>1. toHost'[j] = <<>>
        BY <1>4, <3>1
      <4> QED
        BY <4>1 DEF SendsFirst
    <3>8. Live(r, w, d, a, <<>>, <<>>, {f})
      BY <1>5, <1>6, <2>2, <2>7 DEF Live, Asking
    <3>9. Live(readers'[j], w, disk'[j], answered'[j], toHost'[j], toClient'[j], AskedOf(j)')
      <4>1. toHost'[j] = <<>> /\ toClient'[j] = <<>>
        BY <1>4, <3>1, <3>2
      <4> QED
        BY <3>3, <3>8, <4>1 DEF r, d, a
    <3>10. writers'[j] = <<w>> /\ Kept(disk'[j], answered'[j], w.file)
      BY <1>3, <3>1 DEF d, a
    <3> QED
      BY <3>4, <3>5, <3>6, <3>7, <3>9, <3>10, GoesOn
  <2> QED
    BY <2>5, <2>6, <2>7
<1> QED
  BY <1>14, <1>15

\* What a step does to the files under their own names, it was allowed to.
Agreed == \A k \in Jobs : Consents(disk[k], disk'[k], answered[k])

LEMMA AgreedIsConsented ==
  ASSUME Agreed
  PROVE  Consented
BY DEF Agreed, Consents, Allowed, Consented

LEMMA NothingDone ==
  ASSUME disk' = disk
  PROVE  Agreed
BY DEF Agreed, Consents

\* A block arrives.
LEMMA BlockStep ==
  ASSUME TransferAssumption, TransferInv, NEW j \in Jobs,
         NEW w \in WriteJob, writers[j] = <<w>>, toClient[j] # <<>>,
         NEW m, m = Head(toClient[j]), m.k = "block", OnBlock(j, m),
         toClient' = [toClient EXCEPT ![j] = Tail(@)],
         UNCHANGED <<queue, readers, toHost, asked, answered, status, saved, errors, losses>>
  PROVE  TransferInv' /\ Agreed
<1>1. TransferTypes /\ JobInv(j)
  BY DEF TransferInv
<1>2. /\ readers[j] \in ReadJob /\ disk[j] \in Folder /\ toClient[j] \in Seq(Tells)
      /\ writers \in [Jobs -> {<<>>} \union {<<x>> : x \in WriteJob}]
      /\ disk \in [Jobs -> Folder] /\ toClient \in [Jobs -> Seq(Tells)]
  BY <1>1 DEF TransferTypes
<1>3. /\ Kept(disk[j], answered[j], w.file)
      /\ Live(readers[j], w, disk[j], answered[j], toHost[j], toClient[j], AskedOf(j))
  BY <1>1 DEF JobInv, Writing
<1>4. PICK v : v = [w EXCEPT !.file = m.f, !.open = TRUE]
  OBVIOUS
<1>5. PICK e : e = Written(disk[j], w, m)
  OBVIOUS
<1>6. Keeps(v, e, answered[j])
  BY <1>2, <1>3, <1>4, <1>5, LiveBlock
<1>7. e \in Folder /\ v \in WriteJob /\ Kept(e, answered[j], v.file)
  BY <1>6 DEF Keeps
<1>8. Live(readers[j], v, e, answered[j], toHost[j], Tail(toClient[j]), AskedOf(j))
  BY <1>2, <1>3, <1>4, <1>5, LiveBlock
<1>9. Consents(disk[j], e, answered[j])
  BY <1>2, <1>3, <1>4, <1>5, LiveBlock
<1>10. disk' = [disk EXCEPT ![j] = e]
  <2>1. Writing(j) /\ writers[j][1] = w
    BY DEF Writing
  <2>2. disk' = [disk EXCEPT ![j] = Written(disk[j], w, m)]
    BY <1>2, <2>1 DEF OnBlock
  <2> QED
    BY <1>5, <2>2
<1>11. writers' = [writers EXCEPT ![j] = <<v>>]
  <2>1. Writing(j) /\ writers[j][1] = w
    BY DEF Writing
  <2>2. writers' = [writers EXCEPT ![j] = [writers[j] EXCEPT ![1] =
                      [writers[j][1] EXCEPT !.file = m.f, !.open = TRUE]]]
    BY <1>2, <2>1 DEF OnBlock
  <2>3. writers' = [writers EXCEPT ![j] = [<<w>> EXCEPT ![1] = v]]
    BY <1>4, <2>1, <2>2
  <2> QED
    BY <2>3, OneInPlace
<1>12. Tail(toClient[j]) \in Seq(Tells)
  BY <1>2, HeadTailProperties
<1>13. TransferTypes'
  BY <1>1, <1>2, <1>7, <1>10, <1>11, <1>12 DEF TransferTypes
<1>14. writers'[j] = <<v>> /\ disk'[j] = e /\ toClient'[j] = Tail(toClient[j])
       /\ AskedOf(j)' = AskedOf(j)
  BY <1>2, <1>10, <1>11 DEF AskedOf
<1>15. ASSUME NEW k \in Jobs \ {j}
       PROVE  Same(k)
  <2>1. AskedOf(k)' = AskedOf(k) /\ (Absent(k) => Absent(k)')
    BY DEF AskedOf, Absent
  <2>2. writers'[k] = writers[k] /\ disk'[k] = disk[k] /\ toClient'[k] = toClient[k]
    BY <1>2, <1>10, <1>11
  <2> QED
    BY <2>1, <2>2 DEF Same
<1>16. status'[j] = "running"
  BY <1>1 DEF JobInv, Writing
<1>17. SendsFirst(j)'
  BY <1>1 DEF JobInv, SendsFirst, Absent
<1>18. TransferInv'
  BY <1>7, <1>8, <1>13, <1>14, <1>15, <1>16, <1>17, GoesOn
<1>19. Agreed
  <2> SUFFICES ASSUME NEW k \in Jobs PROVE Consents(disk[k], disk'[k], answered[k])
    BY DEF Agreed
  <2>1. CASE k = j
    BY <1>9, <1>14, <2>1
  <2>2. CASE k # j
    <3>1. disk'[k] = disk[k]
      BY <1>2, <1>10, <2>2
    <3> QED
      BY <3>1 DEF Consents
  <2> QED
    BY <2>1, <2>2
<1> QED
  BY <1>18, <1>19

\* The last word arrives: done or error.
LEMMA ToldIs ==
  ASSUME TransferTypes, NEW j \in Jobs, NEW what \in {"done", "error"},
         status' = Told(j, what)
  PROVE  /\ status' \in [Jobs -> {"none", "running", "done", "error", "cancelled", "saved"}]
         /\ status'[j] \in {what, "cancelled"}
         /\ status[j] # "cancelled" => status'[j] = what
         /\ \A k \in Jobs \ {j} : status'[k] = status[k]
<1>1. status \in [Jobs -> {"none", "running", "done", "error", "cancelled", "saved"}]
  BY DEF TransferTypes
<1>2. PICK s \in {what, "cancelled"} : s = IF status[j] = "cancelled" THEN status[j] ELSE what
  OBVIOUS
<1>3. status' = [status EXCEPT ![j] = s]
  BY <1>1, <1>2 DEF Told
<1>4. s \in {"none", "running", "done", "error", "cancelled", "saved"}
  OBVIOUS
<1> QED
  BY <1>1, <1>2, <1>3, <1>4

LEMMA EndStep ==
  ASSUME TransferAssumption, TransferInv, NEW j \in Jobs, toClient[j] # <<>>,
         NEW m, m = Head(toClient[j]),
         (m.k = "done" /\ OnDone(j)) \/ (m.k = "error" /\ OnError(j)
                                                   /\ UNCHANGED disk),
         toClient' = [toClient EXCEPT ![j] = Tail(@)],
         UNCHANGED <<queue, readers, toHost, asked, answered, saved, errors, losses>>
  PROVE  /\ TransferInv' /\ Agreed
         /\ m.k = "done" /\ Writing(j) =>
              \A f \in 1..Files : Met(disk'[j], answered[j], f)
         /\ ~Writing(j) => disk' = disk
<1>1. TransferTypes /\ JobInv(j)
  BY DEF TransferInv
<1>2. /\ readers[j] \in ReadJob /\ disk[j] \in Folder /\ toClient[j] \in Seq(Tells)
      /\ writers \in [Jobs -> {<<>>} \union {<<x>> : x \in WriteJob}]
      /\ disk \in [Jobs -> Folder] /\ toClient \in [Jobs -> Seq(Tells)]
  BY <1>1 DEF TransferTypes
<1>3. /\ writers' = [writers EXCEPT ![j] = <<>>]
      /\ \E what \in {"done", "error"} : status' = Told(j, what)
  BY DEF OnDone, OnError
<1>4. PICK what \in {"done", "error"} : status' = Told(j, what)
  BY <1>3
<1>5. /\ status' \in [Jobs -> {"none", "running", "done", "error", "cancelled", "saved"}]
      /\ status'[j] \in {what, "cancelled"}
      /\ \A k \in Jobs \ {j} : status'[k] = status[k]
  BY <1>1, <1>4, ToldIs
<1>6. \E e \in Folder :
        /\ disk' = [disk EXCEPT ![j] = e]
        /\ Consents(disk[j], e, answered[j])
        /\ m.k = "done" /\ Writing(j) => \A f \in 1..Files : Met(e, answered[j], f)
        /\ ~Writing(j) => e = disk[j]
  <2>1. CASE m.k = "done" /\ Writing(j)
    <3>1. PICK w \in WriteJob : writers[j] = <<w>>
      BY <1>2, <2>1 DEF Writing
    <3>2. writers[j][1] = w
      BY <3>1
    <3>3. /\ Kept(disk[j], answered[j], w.file)
          /\ Live(readers[j], w, disk[j], answered[j], toHost[j], toClient[j], AskedOf(j))
      BY <1>1, <2>1, <3>2 DEF JobInv
    <3>4. Between(w, disk[j], answered[j], Files + 1)
      <4>1. Head(toClient[j]).k # "block" /\ Head(toClient[j]) # DigestOf(readers[j].file)
        BY <2>1, Kinds
      <4> QED
        BY <1>2, <2>1, <3>3, <4>1, LiveHead
    <3>5. PICK e : e = NamedIn(disk[j], w.file)
      OBVIOUS
    <3>6. e \in Folder
      BY <1>2, <3>3, <3>4, <3>5, DoneArrives
    <3>7. \A f \in 1..Files : Met(e, answered[j], f)
      BY <1>2, <3>3, <3>4, <3>5, DoneArrives
    <3>8. Consents(disk[j], e, answered[j])
      BY <1>2, <3>3, <3>4, <3>5, DoneArrives
    <3>9. disk' = [disk EXCEPT ![j] = e]
      <4>1. disk' = [disk EXCEPT ![j] = NamedIn(disk[j], writers[j][1].file)]
        BY <1>2, <2>1 DEF OnDone
      <4> QED
        BY <3>2, <3>5, <4>1
    <3> QED
      BY <2>1, <3>6, <3>7, <3>8, <3>9
  <2>2. CASE ~(m.k = "done" /\ Writing(j))
    <3>1. disk' = disk
      BY <2>2 DEF OnDone
    <3>2. disk' = [disk EXCEPT ![j] = disk[j]]
      BY <1>2, <3>1
    <3> QED
      BY <1>2, <2>2, <3>2 DEF Consents
  <2> QED
    BY <2>1, <2>2
<1>7. PICK e \in Folder :
        /\ disk' = [disk EXCEPT ![j] = e]
        /\ Consents(disk[j], e, answered[j])
        /\ m.k = "done" /\ Writing(j) => \A f \in 1..Files : Met(e, answered[j], f)
        /\ ~Writing(j) => e = disk[j]
  BY <1>6
<1>8. Tail(toClient[j]) \in Seq(Tells)
  BY <1>2, HeadTailProperties
<1>9. TransferTypes'
  BY <1>1, <1>2, <1>3, <1>5, <1>7, <1>8 DEF TransferTypes
<1>10. writers'[j] = <<>> /\ disk'[j] = e
  BY <1>2, <1>3, <1>7
<1>11. ASSUME NEW k \in Jobs \ {j}
       PROVE  Same(k)
  <2>1. AskedOf(k)' = AskedOf(k) /\ (Absent(k) => Absent(k)')
    BY DEF AskedOf, Absent
  <2>2. writers'[k] = writers[k] /\ disk'[k] = disk[k] /\ toClient'[k] = toClient[k]
    BY <1>2, <1>3, <1>7
  <2> QED
    BY <1>5, <2>1, <2>2 DEF Same
<1>12. status'[j] \notin {"running", "none", "saved"}
  BY <1>5
<1>13. SendsFirst(j)'
  BY <1>1 DEF JobInv, SendsFirst, Absent
<1>14. TransferInv'
  BY <1>9, <1>10, <1>11, <1>12, <1>13, Stops
<1>15. Agreed
  <2> SUFFICES ASSUME NEW k \in Jobs PROVE Consents(disk[k], disk'[k], answered[k])
    BY DEF Agreed
  <2>1. CASE k = j
    BY <1>7, <1>10, <2>1
  <2>2. CASE k # j
    <3>1. disk'[k] = disk[k]
      BY <1>2, <1>7, <2>2
    <3> QED
      BY <3>1 DEF Consents
  <2> QED
    BY <2>1, <2>2
<1>16. ~Writing(j) => disk' = disk
  BY <1>2, <1>7
<1> QED
  BY <1>7, <1>10, <1>14, <1>15, <1>16

LEMMA TellKinds ==
  ASSUME NEW m \in Tells
  PROVE  m.k \in {"digest", "block", "done", "error"}
BY DEF Tells

\* What ClientReceives does, by the kind of the message.
LEMMA ClientReceivesIs ==
  ASSUME TransferTypes, NEW j \in Jobs, ClientReceives(j),
         NEW m, m = Head(toClient[j])
  PROVE  /\ toClient[j] # <<>> /\ toClient' = [toClient EXCEPT ![j] = Tail(@)]
         /\ UNCHANGED <<queue, readers, answered, saved, errors, losses>>
         /\ \/ m.k = "digest" /\ OnDigest(j, m) /\ UNCHANGED <<disk, status>>
            \/ m.k = "block" /\ OnBlock(j, m) /\ UNCHANGED <<toHost, asked, status>>
            \/ m.k = "done" /\ OnDone(j) /\ UNCHANGED <<toHost, asked>>
            \/ m.k = "error" /\ OnError(j) /\ UNCHANGED <<toHost, asked, disk>>
<1>1. /\ toClient[j] # <<>> /\ toClient' = [toClient EXCEPT ![j] = Tail(@)]
      /\ UNCHANGED <<queue, readers, answered, saved, errors, losses>>
      /\ CASE m.k = "digest" -> OnDigest(j, m) /\ UNCHANGED <<disk, status>>
           [] m.k = "block"  -> OnBlock(j, m) /\ UNCHANGED <<toHost, asked, status>>
           [] m.k = "done"   -> OnDone(j) /\ UNCHANGED <<toHost, asked>>
           [] m.k = "error"  -> OnError(j) /\ UNCHANGED <<toHost, asked, disk>>
  BY DEF ClientReceives, host
<1>2. toClient[j] \in Seq(Tells)
  BY DEF TransferTypes
<1>3. m.k \in {"digest", "block", "done", "error"}
  <2>1. m \in Tells
    BY <1>1, <1>2
  <2> QED
    BY <2>1, TellKinds
<1>4. CASE m.k = "digest"
  BY <1>1, <1>4
<1>5. CASE m.k = "block"
  BY <1>1, <1>5
<1>6. CASE m.k = "done"
  BY <1>1, <1>6
<1>7. CASE m.k = "error"
  BY <1>1, <1>7
<1> QED
  BY <1>3, <1>4, <1>5, <1>6, <1>7

LEMMA ClientStep ==
  ASSUME TransferAssumption, TransferInv, NEW j \in Jobs, ClientReceives(j)
  PROVE  TransferInv' /\ Agreed
<1>1. TransferTypes /\ JobInv(j)
  BY DEF TransferInv
<1>2. PICK m : m = Head(toClient[j])
  OBVIOUS
<1>3. /\ toClient[j] # <<>> /\ toClient' = [toClient EXCEPT ![j] = Tail(@)]
      /\ UNCHANGED <<queue, readers, answered, saved, errors, losses>>
  BY <1>1, <1>2, ClientReceivesIs
<1>4. \/ m.k = "digest" /\ OnDigest(j, m) /\ UNCHANGED <<disk, status>>
      \/ m.k = "block" /\ OnBlock(j, m) /\ UNCHANGED <<toHost, asked, status>>
      \/ m.k = "done" /\ OnDone(j) /\ UNCHANGED <<toHost, asked>>
      \/ m.k = "error" /\ OnError(j) /\ UNCHANGED <<toHost, asked, disk>>
  BY <1>1, <1>2, ClientReceivesIs
<1>5. CASE m.k \in {"done", "error"}
  <2>1. (m.k = "done" /\ OnDone(j)) \/ (m.k = "error" /\ OnError(j)
                                                  /\ UNCHANGED disk)
    BY <1>4, <1>5
  <2>2. UNCHANGED <<toHost, asked>>
    BY <1>4, <1>5
  <2> QED
    BY <1>2, <1>3, <2>1, <2>2, EndStep
<1>6. CASE m.k \in {"digest", "block"} /\ ~Writing(j)
  <2>1. UNCHANGED <<writers, disk, toHost, asked, status>>
    BY <1>4, <1>6 DEF OnDigest, OnBlock
  <2>2. toClient \in [Jobs -> Seq(Tells)] /\ Tail(toClient[j]) \in Seq(Tells)
    BY <1>1, <1>3, HeadTailProperties DEF TransferTypes
  <2>3. TransferTypes'
    BY <1>1, <1>3, <2>1, <2>2 DEF TransferTypes
  <2>4. ASSUME NEW k \in Jobs \ {j}
        PROVE  Same(k)
    <3>1. AskedOf(k)' = AskedOf(k) /\ (Absent(k) => Absent(k)')
      BY <1>3, <2>1 DEF AskedOf, Absent
    <3> QED
      BY <1>3, <2>1, <2>2, <3>1 DEF Same
  <2>5. status'[j] \notin {"running", "none", "saved"}
    BY <1>1, <1>3, <1>6, <2>1 DEF JobInv, Unbegun
  <2>6. SendsFirst(j)'
    BY <1>1, <1>3, <2>1 DEF JobInv, SendsFirst, Absent
  <2>7. writers'[j] = <<>>
    BY <1>6, <2>1 DEF Writing
  <2> QED
    BY <2>1, <2>3, <2>4, <2>5, <2>6, <2>7, Stops, NothingDone
<1>7. CASE m.k \in {"digest", "block"} /\ Writing(j)
  <2>1. PICK w \in WriteJob : writers[j] = <<w>>
    BY <1>1, <1>7 DEF TransferTypes, Writing
  <2>2. CASE m.k = "digest"
    <3>1. OnDigest(j, m) /\ UNCHANGED <<disk, status>>
      BY <1>4, <2>2
    <3>2. TransferInv'
      BY <1>2, <1>3, <2>1, <2>2, <3>1, DigestStep
    <3> QED
      BY <3>1, <3>2, NothingDone
  <2>3. CASE m.k = "block"
    <3>1. OnBlock(j, m) /\ UNCHANGED <<toHost, asked, status>>
      BY <1>4, <2>3
    <3> QED
      BY <1>2, <1>3, <2>1, <2>3, <3>1, BlockStep
  <2> QED
    BY <1>7, <2>2, <2>3
<1> QED
  BY <1>4, <1>5, <1>6, <1>7

-----------------------------------------------------------------------------
(* The user's steps, and the loss of the connection.                       *)

\* A download begins, or is resumed: its part, if there is one, is gone on with.
LEMMA BeginStep ==
  ASSUME TransferAssumption, TransferInv, NEW j \in Jobs,
         status[j] \in {"none", "saved"}, NEW f \in 1..(Files + 1), f = saved[j],
         NEW resume \in BOOLEAN, resume \/ \A g \in 1..Files : disk[j][g].part = <<>>,
         status' = [status EXCEPT ![j] = "running"],
         writers' = [writers EXCEPT ![j] = <<NewWriter(f, resume)>>],
         ToHost(j, [k |-> "send", f |-> f]),
         UNCHANGED <<queue, readers, disk, toClient, asked, answered, saved, errors, losses>>
  PROVE  TransferInv'
<1>1. TransferTypes /\ JobInv(j) /\ Unbegun(j)
  BY DEF TransferInv, JobInv
<1>2. /\ writers \in [Jobs -> {<<>>} \union {<<x>> : x \in WriteJob}]
      /\ toHost \in [Jobs -> Seq(Asks)] /\ disk[j] \in Folder
      /\ status \in [Jobs -> {"none", "running", "done", "error", "cancelled", "saved"}]
  BY <1>1 DEF TransferTypes
<1>3. PICK w : w = NewWriter(f, resume)
  OBVIOUS
<1>4. w.file = f /\ w.open = FALSE /\ w.resume = resume /\ w.strategy = "ask" /\ w \in WriteJob
  BY <1>3 DEF NewWriter, WriteJob
<1>5. PICK m : m = [k |-> "send", f |-> f]
  OBVIOUS
<1>6. m \in Asks /\ <<m>> \in Seq(Asks) /\ Len(<<m>>) = 1 /\ <<m>>[1] = m
  BY <1>5 DEF Asks
<1>7. toHost[j] = <<>> /\ toClient[j] = <<>> /\ AskedOf(j) = {} /\ Absent(j)
      /\ Kept(disk[j], answered[j], f)
  BY <1>1 DEF Unbegun
<1>8. toHost' = [toHost EXCEPT ![j] = <<m>>]
  <2>1. toHost' = [toHost EXCEPT ![j] = Append(toHost[j], m)]
    BY <1>2, <1>5 DEF ToHost
  <2>2. Append(toHost[j], m) = <<m>>
    BY <1>7
  <2> QED
    BY <2>1, <2>2
<1>9. writers' = [writers EXCEPT ![j] = <<w>>]
  BY <1>3
<1>10. TransferTypes'
  BY <1>1, <1>2, <1>4, <1>6, <1>8, <1>9 DEF TransferTypes
<1>11. writers'[j] = <<w>> /\ toHost'[j] = <<m>> /\ status'[j] = "running"
       /\ AskedOf(j)' = AskedOf(j)
  BY <1>2, <1>8, <1>9 DEF AskedOf
<1>12. ASSUME NEW k \in Jobs \ {j}
       PROVE  Same(k)
  <2>1. AskedOf(k)' = AskedOf(k) /\ (Absent(k) => Absent(k)')
    BY DEF AskedOf, Absent
  <2>2. writers'[k] = writers[k] /\ toHost'[k] = toHost[k] /\ status'[k] = status[k]
    BY <1>2, <1>8, <1>9
  <2> QED
    BY <2>1, <2>2 DEF Same
<1>13. SendsFirst(j)'
  <2>1. Absent(j)'
    BY <1>7 DEF Absent
  <2> QED
    BY <1>6, <1>11, <2>1 DEF SendsFirst
<1>14. Leads(w, disk[j], answered[j], f, <<>>)
  <2>1. Files \in Nat /\ f \in Nat
    BY TransferConstants
  <2>2. CASE f <= Files /\ disk[j][f].part # <<>>
    <3>1. f \in 1..Files
      BY <2>1, <2>2
    <3>2. w.resume
      BY <1>4, <2>2, <3>1
    <3>3. Partly(w, disk[j], f)
      BY <1>4, <2>2, <3>2 DEF Partly
    <3> QED
      BY <3>3 DEF Leads
  <2>3. CASE f <= Files => disk[j][f].part = <<>>
    <3>1. \A g \in 1..Files : g < f => Met(disk[j], answered[j], g)
      BY <1>7 DEF Kept
    <3>2. w.file <= f /\ ~(w.file < f)
      BY <1>4, <2>1
    <3>3. Between(w, disk[j], answered[j], f)
      BY <1>4, <2>3, <3>1, <3>2 DEF Between
    <3> QED
      BY <3>3 DEF Leads, Past
  <2> QED
    BY <2>2, <2>3
<1>15. Sending(w, disk[j], answered[j], <<m>>, <<>>)
  <2>1. <<m>> = <<[k |-> "send", f |-> w.file]>>
    BY <1>4, <1>5
  <2> QED
    BY <1>4, <1>14, <2>1 DEF Sending
<1>16. Live(readers[j], w, disk[j], answered[j], <<m>>, <<>>, {})
  BY <1>15 DEF Live
<1>17. Live(readers'[j], w, disk'[j], answered'[j], toHost'[j], toClient'[j], AskedOf(j)')
  BY <1>7, <1>11, <1>16
<1>18. Kept(disk'[j], answered'[j], w.file)
  BY <1>4, <1>7
<1> QED
  BY <1>10, <1>11, <1>12, <1>13, <1>17, <1>18, GoesOn

LEMMA StartStep ==
  ASSUME TransferAssumption, TransferInv, NEW j \in Jobs, Start(j)
  PROVE  TransferInv'
<1>1. status[j] = "none" /\ JobInv(j)
  BY DEF TransferInv, Start
<1>2. saved[j] = 1 /\ \A g \in 1..Files : disk[j][g].part = <<>>
  BY <1>1 DEF JobInv, Unbegun
<1>3. 1 \in 1..(Files + 1)
  BY TransferConstants
<1>4. /\ status' = [status EXCEPT ![j] = "running"]
      /\ writers' = [writers EXCEPT ![j] = <<NewWriter(1, FALSE)>>]
      /\ ToHost(j, [k |-> "send", f |-> 1])
      /\ UNCHANGED <<queue, readers, disk, toClient, asked, answered, saved, errors, losses>>
  BY DEF Start, host
<1> QED
  BY <1>1, <1>2, <1>3, <1>4, BeginStep

LEMMA ResumeStep ==
  ASSUME TransferAssumption, TransferInv, NEW j \in Jobs, Resume(j)
  PROVE  TransferInv'
<1>1. status[j] = "saved"
  BY DEF Resume
<1>2. PICK f \in 1..(Files + 1) : f = saved[j]
  BY DEF TransferInv, TransferTypes
<1>3. /\ status' = [status EXCEPT ![j] = "running"]
      /\ writers' = [writers EXCEPT ![j] = <<NewWriter(f, TRUE)>>]
      /\ ToHost(j, [k |-> "send", f |-> f])
      /\ UNCHANGED <<queue, readers, disk, toClient, asked, answered, saved, errors, losses>>
  BY <1>2 DEF Resume, host
<1> QED
  BY <1>1, <1>2, <1>3, BeginStep

LEMMA LoseStep ==
  ASSUME TransferAssumption, TransferInv, Lose
  PROVE  TransferInv'
<1>1. TransferTypes /\ \A j \in Jobs : JobInv(j)
  BY DEF TransferInv
<1>2. /\ losses' = losses + 1
      /\ queue' = <<>> /\ asked' = {}
      /\ toHost' = [j \in Jobs |-> <<>>] /\ toClient' = [j \in Jobs |-> <<>>]
      /\ saved' = [j \in Jobs |-> IF Writing(j) THEN writers[j][1].file ELSE saved[j]]
      /\ status' = [j \in Jobs |-> IF Writing(j) THEN "saved" ELSE status[j]]
      /\ writers' = [j \in Jobs |-> <<>>]
      /\ UNCHANGED <<readers, disk, answered, errors>>
  BY DEF Lose
<1>3. \A j \in Jobs : Writing(j) =>
        writers[j][1] \in WriteJob /\ writers[j][1].file \in 1..(Files + 1)
  BY <1>1 DEF TransferTypes, Writing, WriteJob
<1>4. TransferTypes'
  <2>1. saved' \in [Jobs -> 1..(Files + 1)]
    BY <1>1, <1>2, <1>3 DEF TransferTypes
  <2>2. status' \in [Jobs -> {"none", "running", "done", "error", "cancelled", "saved"}]
    BY <1>1, <1>2 DEF TransferTypes
  <2>3. losses' \in Nat
    BY <1>1, <1>2 DEF TransferTypes
  <2> QED
    BY <1>1, <1>2, <2>1, <2>2, <2>3 DEF TransferTypes
<1>5. ASSUME NEW j \in Jobs
      PROVE  JobInv(j)'
  <2>1. /\ toHost'[j] = <<>> /\ toClient'[j] = <<>> /\ AskedOf(j)' = {} /\ Absent(j)'
        /\ writers'[j] = <<>>
    BY <1>2 DEF AskedOf, Absent
  <2>2. CASE Writing(j)
    <3>1. status'[j] = "saved" /\ saved'[j] = writers[j][1].file
      BY <1>2, <2>2
    <3>2. Kept(disk'[j], answered'[j], saved'[j])
      BY <1>1, <1>2, <2>2, <3>1 DEF JobInv
    <3>3. Unbegun(j)'
      BY <2>1, <3>1, <3>2 DEF Unbegun
    <3> QED
      BY <2>1, <3>1, <3>3 DEF JobInv, Writing
  <2>3. CASE ~Writing(j)
    <3>1. status'[j] = status[j] /\ saved'[j] = saved[j] /\ status[j] # "running"
      BY <1>1, <1>2, <2>3 DEF JobInv
    <3>2. status[j] \in {"none", "saved"} => Unbegun(j)'
      BY <1>1, <1>2, <2>1, <3>1 DEF JobInv, Unbegun
    <3> QED
      BY <2>1, <3>1, <3>2 DEF JobInv, Writing
  <2> QED
    BY <2>2, <2>3
<1> QED
  BY <1>4, <1>5 DEF TransferInv

LEMMA CancelStep ==
  ASSUME TransferAssumption, TransferInv, NEW j \in Jobs, Cancel(j)
  PROVE  TransferInv' /\ Agreed
<1>1. TransferTypes /\ JobInv(j)
  BY DEF TransferInv
<1>2. /\ writers \in [Jobs -> {<<>>} \union {<<x>> : x \in WriteJob}]
      /\ toHost \in [Jobs -> Seq(Asks)] /\ disk \in [Jobs -> Folder]
      /\ status \in [Jobs -> {"none", "running", "done", "error", "cancelled", "saved"}]
  BY <1>1 DEF TransferTypes
<1>3. PICK h : h = writers[j][1].file
  OBVIOUS
<1>4. PICK m : m = [k |-> "cancel"]
  OBVIOUS
<1>5. PICK e : e = [g \in 1..Files |->
                     IF g = h THEN [disk[j][g] EXCEPT !.part = <<>>, !.digest = FALSE]
                     ELSE disk[j][g]]
  OBVIOUS
<1>6. /\ status' = [status EXCEPT ![j] = "cancelled"]
      /\ writers' = [writers EXCEPT ![j] = <<>>]
      /\ disk' = [disk EXCEPT ![j] = e]
      /\ toHost' = [toHost EXCEPT ![j] = Append(@, m)]
      /\ UNCHANGED <<queue, readers, toClient, asked, answered, saved, errors, losses>>
  BY <1>2, <1>3, <1>4, <1>5 DEF Cancel, ToHost, host
<1>7. e \in Folder /\ \A g \in 1..Files : e[g].final = disk[j][g].final
  <2>1. disk[j] \in Folder
    BY <1>2
  <2>2. <<>> \in Parts
    BY DEF Parts
  <2> QED
    BY <1>5, <2>1, <2>2 DEF Folder
<1>8. m \in Asks /\ m.k = "cancel"
  BY <1>4 DEF Asks
<1>9. /\ Append(toHost[j], m) \in Seq(Asks)
      /\ Len(Append(toHost[j], m)) = Len(toHost[j]) + 1 /\ Len(toHost[j]) \in Nat
      /\ \A i \in 1..Len(Append(toHost[j], m)) :
           Append(toHost[j], m)[i] = IF i <= Len(toHost[j]) THEN toHost[j][i] ELSE m
  BY <1>2, <1>8, AppendProperties
<1>10. TransferTypes'
  BY <1>1, <1>2, <1>6, <1>7, <1>9 DEF TransferTypes
<1>11. ASSUME NEW k \in Jobs \ {j}
       PROVE  Same(k)
  <2>1. AskedOf(k)' = AskedOf(k) /\ (Absent(k) => Absent(k)')
    BY <1>6 DEF AskedOf, Absent
  <2>2. writers'[k] = writers[k] /\ toHost'[k] = toHost[k] /\ status'[k] = status[k]
        /\ disk'[k] = disk[k]
    BY <1>2, <1>6
  <2> QED
    BY <1>6, <2>1, <2>2 DEF Same
<1>12. SendsFirst(j)'
  <2> DEFINE H == Append(toHost[j], m)
  <2>1. toHost'[j] = H
    BY <1>2, <1>6
  <2>2. Absent(j) => Absent(j)'
    BY <1>6 DEF Absent
  <2>3. ASSUME NEW i \in 1..Len(H), H[i].k = "send"
        PROVE  i = 1 /\ Absent(j)
    <3>1. i \in 1..Len(toHost[j]) /\ toHost[j][i].k = "send"
      BY <1>8, <1>9, <2>3
    <3> QED
      BY <1>1, <3>1 DEF JobInv
  <2> HIDE DEF H
  <2> QED
    BY <2>1, <2>2, <2>3 DEF SendsFirst
<1>13. TransferInv'
  <2>1. status'[j] = "cancelled" /\ writers'[j] = <<>>
    BY <1>2, <1>6
  <2> QED
    BY <1>10, <1>11, <1>12, <2>1, Stops
<1>14. Agreed
  BY <1>2, <1>6, <1>7 DEF Agreed, Consents
<1> QED
  BY <1>13, <1>14

\* What the user answers changes what holds of the files from f on only.
LEMMA AnswersKeep ==
  ASSUME TransferAssumption, NEW w \in WriteJob, NEW d \in Folder,
         NEW a, NEW b, NEW f \in 1..Files, \A g \in 1..Files : g < f => b[g] = a[g],
         Kept(d, a, w.file), Between(w, d, a, f),
         NEW v, v.file = w.file, v.open = w.open
  PROVE  Kept(d, b, v.file) /\ Between(v, d, b, f)
<1>1. Files \in Nat /\ f \in Nat /\ w.file \in Nat
  BY TransferConstants DEF WriteJob
<1>2. w.file <= f /\ (w.file = f => d[f].part = <<>>)
  BY DEF Between
<1>3. \A g \in 1..Files : g < f => (Met(d, b, g) <=> Met(d, a, g))
  BY DEF Met
<1>4. \A g \in 1..Files : g < f => (Allowed(d, b, g) <=> Allowed(d, a, g))
  BY DEF Allowed
<1>5. Kept(d, b, w.file)
  <2>1. \A g \in 1..Files : g < w.file => Met(d, b, g)
    BY <1>1, <1>2, <1>3 DEF Kept
  <2>2. \A g \in 1..Files : g = w.file /\ d[g].part # <<>> => Allowed(d, b, g)
    BY <1>1, <1>2, <1>4 DEF Kept
  <2> QED
    BY <2>1, <2>2 DEF Kept
<1>6. Between(v, d, b, f)
  BY <1>3 DEF Between
<1> QED
  BY <1>5, <1>6

LEMMA AnswerStep ==
  ASSUME TransferAssumption, TransferInv, NEW j \in Jobs, NEW f \in 1..Files,
         Answer(j, f)
  PROVE  TransferInv'
<1>1. TransferTypes /\ JobInv(j)
  BY DEF TransferInv
<1>2. /\ writers \in [Jobs -> {<<>>} \union {<<x>> : x \in WriteJob}]
      /\ toHost \in [Jobs -> Seq(Asks)] /\ disk[j] \in Folder /\ readers[j] \in ReadJob
      /\ answered \in [Jobs -> [1..Files -> {"no", "over", "skip"}]]
  BY <1>1 DEF TransferTypes
<1>3. /\ <<j, f>> \in asked /\ asked' = asked \ {<<j, f>>}
      /\ UNCHANGED <<queue, readers, disk, toClient, status, saved, errors, losses>>
  BY DEF Answer, host
<1>4. PICK over \in BOOLEAN, remember \in BOOLEAN :
        /\ answered' = [answered EXCEPT ![j] = [g \in 1..Files |->
                          IF g = f \/ (remember /\ g > f)
                          THEN IF over THEN "over" ELSE "skip" ELSE answered[j][g]]]
        /\ IF ~Writing(j) THEN UNCHANGED <<writers, toHost>>
           ELSE LET c == Confirm(f, ~over, 0)
                    w == [writers[j][1] EXCEPT
                            !.strategy = IF ~remember THEN @
                                         ELSE IF over THEN "over" ELSE "skip"]
                IN  /\ writers' = [writers EXCEPT ![j] = <<WriterConfirmed(w, c)>>]
                    /\ ToHost(j, c)
  BY <1>2 DEF Answer
<1>5. PICK said \in {"over", "skip"} : said = IF over THEN "over" ELSE "skip"
  OBVIOUS
<1>6. PICK b : b = [g \in 1..Files |->
                     IF g = f \/ (remember /\ g > f) THEN said ELSE answered[j][g]]
  OBVIOUS
<1>7. /\ answered' = [answered EXCEPT ![j] = b]
      /\ b \in [1..Files -> {"no", "over", "skip"}]
      /\ b[f] = said
      /\ \A g \in 1..Files : g < f => b[g] = answered[j][g]
      /\ remember => \A g \in 1..Files : g >= f => b[g] = said
  <2>1. f \in Nat
    OBVIOUS
  <2>2. b \in [1..Files -> {"no", "over", "skip"}]
    BY <1>2, <1>6
  <2>3. b[f] = said
    BY <1>6
  <2>4. \A g \in 1..Files : g < f => b[g] = answered[j][g]
    BY <1>6, <2>1
  <2>5. remember => \A g \in 1..Files : g >= f => b[g] = said
    BY <1>6, <2>1
  <2>6. answered' = [answered EXCEPT ![j] = b]
    BY <1>4, <1>5, <1>6
  <2> QED
    BY <2>2, <2>3, <2>4, <2>5, <2>6
<1>8. /\ asked' \subseteq Jobs \X (1..Files)
      /\ answered' \in [Jobs -> [1..Files -> {"no", "over", "skip"}]]
  BY <1>1, <1>2, <1>3, <1>7 DEF TransferTypes
<1>9. f \in AskedOf(j)
  BY <1>3 DEF AskedOf
<1>10. \A k \in Jobs \ {j} : AskedOf(k)' = AskedOf(k) /\ answered'[k] = answered[k]
                             /\ (Absent(k) => Absent(k)')
  BY <1>2, <1>3, <1>7 DEF AskedOf, Absent
<1>11. answered'[j] = b
  BY <1>2, <1>7
<1>12. CASE ~Writing(j)
  <2>1. UNCHANGED <<writers, toHost>>
    BY <1>4, <1>12
  <2>2. TransferTypes'
    BY <1>1, <1>3, <1>8, <2>1 DEF TransferTypes
  <2>3. \A k \in Jobs \ {j} : Same(k)
    BY <1>3, <1>10, <2>1 DEF Same
  <2>4. status'[j] \notin {"running", "none", "saved"}
    BY <1>1, <1>3, <1>9, <1>12 DEF JobInv, Unbegun
  <2>5. SendsFirst(j)'
    BY <1>1, <1>3, <2>1 DEF JobInv, SendsFirst, Absent
  <2>6. writers'[j] = <<>>
    BY <1>12, <2>1 DEF Writing
  <2> QED
    BY <2>2, <2>3, <2>4, <2>5, <2>6, Stops
<1>13. CASE Writing(j)
  <2> DEFINE r == readers[j]
             d == disk[j]
             a == answered[j]
  <2>1. PICK w \in WriteJob : writers[j] = <<w>>
    BY <1>2, <1>13 DEF Writing
  <2>2. writers[j][1] = w
    BY <2>1
  <2>3. Kept(d, a, w.file) /\ Live(r, w, d, a, toHost[j], toClient[j], AskedOf(j))
    BY <1>1, <1>13, <2>2 DEF JobInv
  <2> HIDE DEF r, d, a
  <2>4. Asking(r, w, d, a, toHost[j], toClient[j], AskedOf(j))
    BY <1>9, <2>3 DEF Live
  <2>5. /\ toHost[j] = <<>> /\ toClient[j] = <<>> /\ Waits(r) /\ f = r.file
        /\ AskedOf(j) = {f} /\ Between(w, d, a, f) /\ w.strategy = "ask"
    BY <1>9, <2>4 DEF Asking
  <2>6. AskedOf(j)' = {}
    BY <1>3, <2>5 DEF AskedOf
  <2>7. PICK s \in {"ask", "over", "skip"} : s = IF remember THEN said ELSE "ask"
    OBVIOUS
  <2>8. PICK v : v = [w EXCEPT !.strategy = s]
    OBVIOUS
  <2>9. v \in WriteJob /\ v.file = w.file /\ v.open = w.open /\ v.strategy = s
    BY <2>8 DEF WriteJob
  <2>10. d \in Folder /\ r \in ReadJob
    BY <1>2 DEF d, r
  <2>11. \A g \in 1..Files : g < f => b[g] = a[g]
    BY <1>7 DEF a
  <2>12. Kept(d, b, v.file) /\ Between(v, d, b, f)
    BY <2>3, <2>5, <2>9, <2>10, <2>11, AnswersKeep
  <2>13. Obeys(v, b, f)
    BY <1>7, <2>7, <2>9 DEF Obeys
  <2>14. PICK skip \in BOOLEAN : skip = ~over
    OBVIOUS
  <2>15. PICK c : c = Confirm(f, skip, 0)
    OBVIOUS
  <2>16. c \in Asks /\ c.k = "confirm" /\ c.f = f /\ c.skip = skip /\ c.offset = 0
    BY <2>15, ConfirmIs
  <2>17. PICK u : u = WriterConfirmed(v, c)
    OBVIOUS
  <2>18. /\ u \in WriteJob /\ Kept(d, b, u.file)
         /\ Confirming(r, u, d, b, <<c>>, <<>>)
    <3>1. 0 \in 0..Blocks
      BY TransferConstants
    <3>2. CASE skip
      <4>1. b[f] = "skip"
        BY <1>5, <1>7, <2>14, <3>2
      <4>2. u \in WriteJob
        BY <2>9, <2>10, <2>12, <2>16, <2>17, <3>2, <4>1, SkipConfirmed
      <4>3. Obeys(u, b, f)
        BY <2>9, <2>10, <2>12, <2>13, <2>16, <2>17, <3>2, <4>1, SkipConfirmed
      <4>4. Kept(d, b, u.file) /\ Between(u, d, b, f + 1)
        BY <2>9, <2>10, <2>12, <2>16, <2>17, <3>2, <4>1, SkipConfirmed
      <4> QED
        BY <2>5, <2>16, <3>1, <3>2, <4>2, <4>3, <4>4, ConfirmingIs
    <3>3. CASE ~skip
      <4>1. Allowed(d, b, f)
        BY <1>5, <1>7, <2>14, <3>3 DEF Allowed
      <4>2. u = v /\ InFile(v, d, b, f, <<>>, 0)
        BY <2>9, <2>12, <2>16, <2>17, <3>3, <4>1, OverConfirmed
      <4> QED
        BY <2>5, <2>9, <2>12, <2>13, <2>16, <3>1, <3>3, <4>2, ConfirmingIs
    <3> QED
      BY <3>2, <3>3
  <2>19. /\ writers' = [writers EXCEPT ![j] = <<u>>]
         /\ ToHost(j, c)
    <3>1. c = Confirm(f, ~over, 0)
      BY <2>14, <2>15
    <3>2. v = [writers[j][1] EXCEPT !.strategy = IF ~remember THEN @
                                                 ELSE IF over THEN "over" ELSE "skip"]
      <4>1. s = IF ~remember THEN w.strategy ELSE IF over THEN "over" ELSE "skip"
        BY <1>5, <2>5, <2>7
      <4> QED
        BY <2>2, <2>8, <4>1
    <3> QED
      BY <1>4, <1>13, <2>17, <3>1, <3>2
  <2>20. toHost' = [toHost EXCEPT ![j] = <<c>>]
    <3>1. toHost' = [toHost EXCEPT ![j] = Append(toHost[j], c)]
      BY <1>2, <2>19 DEF ToHost
    <3>2. Append(toHost[j], c) = <<c>>
      BY <2>5
    <3> QED
      BY <3>1, <3>2
  <2>21. <<c>> \in Seq(Asks) /\ Len(<<c>>) = 1 /\ <<c>>[1] = c
    BY <2>16
  <2>22. TransferTypes'
    BY <1>1, <1>2, <1>3, <1>8, <2>18, <2>19, <2>20, <2>21 DEF TransferTypes
  <2>23. writers'[j] = <<u>> /\ toHost'[j] = <<c>> /\ status'[j] = "running"
    BY <1>1, <1>2, <1>3, <1>13, <2>19, <2>20 DEF JobInv
  <2>24. ASSUME NEW k \in Jobs \ {j}
         PROVE  Same(k)
    <3>1. writers'[k] = writers[k] /\ toHost'[k] = toHost[k]
      BY <1>2, <2>19, <2>20
    <3> QED
      BY <1>3, <1>10, <3>1 DEF Same
  <2>25. SendsFirst(j)'
    BY <2>16, <2>21, <2>23 DEF SendsFirst
  <2>26. Live(r, u, d, b, <<c>>, <<>>, {})
    BY <2>18 DEF Live
  <2>27. Live(readers'[j], u, disk'[j], answered'[j], toHost'[j], toClient'[j], AskedOf(j)')
    BY <1>3, <1>11, <2>5, <2>6, <2>23, <2>26 DEF r, d
  <2>28. Kept(disk'[j], answered'[j], u.file)
    BY <1>3, <1>11, <2>18 DEF d
  <2> QED
    BY <2>22, <2>23, <2>24, <2>25, <2>27, <2>28, GoesOn
<1> QED
  BY <1>12, <1>13

-----------------------------------------------------------------------------
(* All of the steps together.                                              *)

LEMMA TransferBegins ==
  ASSUME TransferAssumption, Left = {}, Init
  PROVE  TransferInv
<1>1. Files \in Nat /\ Files >= 1 /\ 1 \in 1..(Files + 1)
  BY TransferConstants
<1>2. /\ queue = <<>>
      /\ readers = [j \in Jobs |-> NewReader(1)]
      /\ writers = [j \in Jobs |-> <<>>]
      /\ toHost = [j \in Jobs |-> <<>>] /\ toClient = [j \in Jobs |-> <<>>]
      /\ asked = {}
      /\ answered = [j \in Jobs |-> [f \in 1..Files |-> "no"]]
      /\ status = [j \in Jobs |-> "none"]
      /\ saved = [j \in Jobs |-> 1]
      /\ errors = 0 /\ losses = 0
  BY DEF Init
<1>3. disk = [j \in Jobs |-> [f \in 1..Files |->
               [final |-> IF f \in Present THEN <<Before>> ELSE <<>>,
                part |-> IF f \in Left THEN <<<<1>>>> ELSE <<>>,
                digest |-> f \in Left]]]
  BY DEF Init
<1>4. \A f : f \notin Left
  OBVIOUS
<1>5. TransferTypes
  <2>1. readers \in [Jobs -> ReadJob]
    BY <1>2 DEF ReadJob, NewReader
  <2>2. disk \in [Jobs -> Folder]
    <3>1. <<>> \in Parts
      BY DEF Parts
    <3> QED
      BY <1>3, <1>4, <3>1 DEF Folder
  <2>3. /\ toHost \in [Jobs -> Seq(Asks)] /\ toClient \in [Jobs -> Seq(Tells)]
        /\ queue \in Seq(Jobs)
    BY <1>2
  <2> QED
    BY <1>1, <1>2, <2>1, <2>2, <2>3 DEF TransferTypes
<1>6. ASSUME NEW j \in Jobs
      PROVE  JobInv(j)
  <2>1. /\ \A g \in 1..Files : disk[j][g].part = <<>> /\ ~disk[j][g].digest
        /\ ~(\E g \in 1..Files : g < 1)
    <3>1. ASSUME NEW g \in 1..Files
          PROVE  disk[j][g].part = <<>> /\ ~disk[j][g].digest
      <4>1. disk[j][g] = [final |-> IF g \in Present THEN <<Before>> ELSE <<>>,
                          part |-> IF g \in Left THEN <<<<1>>>> ELSE <<>>,
                          digest |-> g \in Left]
        BY <1>3
      <4>2. (g \in Left) = FALSE
        BY <1>4
      <4>3. disk[j][g].part = IF g \in Left THEN <<<<1>>>> ELSE <<>>
        BY <4>1
      <4>4. disk[j][g].digest = (g \in Left)
        <5>1. \A p, q, l : disk[j][g] = [final |-> p, part |-> q, digest |-> l]
                            => disk[j][g].digest = l
          OBVIOUS
        <5> QED
          BY <4>1, <5>1, Zenon
      <4> QED
        BY <1>4, <4>2, <4>3, <4>4
    <3> QED
      BY <1>1, <3>1
  <2>2. Kept(disk[j], answered[j], saved[j])
    BY <1>2, <2>1 DEF Kept
  <2>3. AskedOf(j) = {} /\ Absent(j)
    BY <1>2 DEF AskedOf, Absent
  <2>4. Unbegun(j)
    BY <1>2, <2>1, <2>2, <2>3 DEF Unbegun
  <2> QED
    BY <1>2, <2>4 DEF JobInv, Writing
<1> QED
  BY <1>5, <1>6 DEF TransferInv

\* A step of the next-state relation is one of these.
LEMMA TransferSteps ==
  ASSUME Next
  PROVE  \/ ConnectionTick \/ ManagerTick \/ Lose
         \/ \E j \in Jobs : \/ HostReceives(j) \/ ClientReceives(j)
                            \/ Start(j) \/ Resume(j) \/ Cancel(j)
                            \/ \E f \in 1..Files : Answer(j, f)
BY DEF Next

LEMMA TransferGoesOn ==
  ASSUME TransferAssumption, TransferInv, [Next]_vars
  PROVE  TransferInv' /\ Consented
<1> SUFFICES TransferInv' /\ Agreed
  BY AgreedIsConsented
<1>1. CASE UNCHANGED vars
  <2>1. UNCHANGED <<queue, readers, writers, disk, toHost, toClient, asked, answered,
                    status, saved, errors, losses>>
    BY <1>1 DEF vars
  <2>2. TransferTypes'
    BY <2>1 DEF TransferInv, TransferTypes
  <2>3. ASSUME NEW k \in Jobs
        PROVE  JobInv(k)'
    <3>1. AskedOf(k)' = AskedOf(k) /\ (Absent(k) => Absent(k)')
      BY <2>1 DEF AskedOf, Absent
    <3>2. Same(k)
      BY <2>1, <3>1 DEF Same
    <3> QED
      BY <3>2, JobStays DEF TransferInv
  <2> QED
    BY <2>1, <2>2, <2>3, NothingDone DEF TransferInv
<1>2. CASE ConnectionTick \/ ManagerTick
  <2>1. \E o, r \in BOOLEAN : TickSteps(o, r)
    BY <1>2, ConnectionTickParts, ManagerTickParts DEF TransferInv
  <2>2. TransferInv'
    BY <2>1, TickStep
  <2>3. disk' = disk
    BY <1>2 DEF ConnectionTick, ManagerTick
  <2> QED
    BY <2>2, <2>3, NothingDone
<1>3. CASE Lose
  <2>1. disk' = disk
    BY <1>3 DEF Lose
  <2> QED
    BY <1>3, <2>1, LoseStep, NothingDone
<1>4. ASSUME NEW j \in Jobs, HostReceives(j)
      PROVE  TransferInv' /\ Agreed
  <2>1. disk' = disk
    BY <1>4 DEF HostReceives
  <2> QED
    BY <1>4, <2>1, HostStep, NothingDone
<1>5. ASSUME NEW j \in Jobs, Start(j) \/ Resume(j)
      PROVE  TransferInv' /\ Agreed
  <2>1. disk' = disk
    BY <1>5 DEF Start, Resume
  <2> QED
    BY <1>5, <2>1, StartStep, ResumeStep, NothingDone
<1>6. ASSUME NEW j \in Jobs, NEW f \in 1..Files, Answer(j, f)
      PROVE  TransferInv' /\ Agreed
  <2>1. disk' = disk
    BY <1>6 DEF Answer
  <2> QED
    BY <1>6, <2>1, AnswerStep, NothingDone
<1> QED
  BY <1>1, <1>2, <1>3, <1>4, <1>5, <1>6, ClientStep, CancelStep, TransferSteps

LEMMA TransferInvariant ==
  ASSUME TransferAssumption, Left = {}
  PROVE  Spec => []TransferInv
<1>1. Init => TransferInv
  BY TransferBegins
<1>2. TransferInv /\ [Next]_vars => TransferInv'
  BY TransferGoesOn
<1> QED
  BY <1>1, <1>2, PTL DEF Spec

(* Whatever was cancelled, lost and resumed, a file of a downloaded folder *)
(* is found under its own name only whole, if the folder held no part of   *)
(* an earlier transfer: what it held before, or every block of the host's  *)
(* file in order (TransferJob::write, modify_time, set_stream_offset).     *)
THEOREM FilesAreWhole ==
  ASSUME TransferAssumption, Left = {}
  PROVE  Spec => []FinalIsWhole
<1>1. TransferInv => FinalIsWhole
  BY DEF TransferInv, TransferTypes, Folder, FinalIsWhole
<1> QED
  BY <1>1, TransferInvariant, PTL

(* A file the folder held is replaced only when the user said so, for it   *)
(* or for all after an earlier one, across lost and resumed connections    *)
(* (is_write_need_confirmation, SetConfirmOverrideFile).                   *)
THEOREM ReplacedByConsent ==
  ASSUME TransferAssumption, Left = {}
  PROVE  Spec => OnlyByConsent
<1>1. TransferInv /\ [Next]_vars => [Consented]_vars
  BY TransferGoesOn
<1> QED
  BY <1>1, TransferInvariant, PTL DEF Spec, OnlyByConsent

-----------------------------------------------------------------------------
(* What is told done is complete.                                          *)

NoEnd(D) == \A e \in 1..Len(D) : ~Ends(D[e])
EndLast(D) == \A e \in 1..Len(D) : Ends(D[e]) => e = Len(D)
EndsLast(j) == EndLast(toClient[j]) /\ (Absent(j) \/ NoEnd(toClient[j]))
Distinct(q) == \A i, k \in 1..Len(q) : i # k => q[i] # q[k]

LEMMA EndInvIs ==
  ASSUME NEW j
  PROVE  EndInv(j) <=>
           /\ Writing(j) => EndsLast(j)
           /\ status[j] \in {"done", "error"} =>
                toHost[j] = <<>> /\ toClient[j] = <<>> /\ Absent(j) /\ AskedOf(j) = {}
           /\ status[j] = "done" => \A f \in 1..Files : Met(disk[j], answered[j], f)
BY DEF EndInv, EndsLast, EndLast, NoEnd

\* What is sent after messages none of which is the last word.
LEMMA NoEndAfter ==
  ASSUME NEW D \in Seq(Tells), NoEnd(D), NEW x,
         x = <<>> \/ \E m \in Tells : x = <<m>> /\ ~Ends(m)
  PROVE  D \o x \in Seq(Tells) /\ NoEnd(D \o x)
<1>1. CASE x = <<>>
  BY <1>1, ConcatEmptySeq
<1>2. CASE \E m \in Tells : x = <<m>> /\ ~Ends(m)
  <2>1. PICK m \in Tells : x = <<m>> /\ ~Ends(m)
    BY <1>2
  <2>2. <<m>> \in Seq(Tells) /\ Len(<<m>>) = 1 /\ <<m>>[1] = m /\ Len(D) \in Nat
    OBVIOUS
  <2>3. /\ D \o <<m>> \in Seq(Tells) /\ Len(D \o <<m>>) = Len(D) + 1
        /\ \A i \in 1..(Len(D) + 1) :
             (D \o <<m>>)[i] = IF i <= Len(D) THEN D[i] ELSE <<m>>[i - Len(D)]
    BY <2>2, ConcatProperties
  <2>4. ASSUME NEW e \in 1..(Len(D) + 1)
        PROVE  ~Ends((D \o <<m>>)[e])
    <3>1. CASE e <= Len(D)
      BY <2>2, <2>3, <3>1 DEF NoEnd
    <3>2. CASE e = Len(D) + 1
      BY <2>1, <2>2, <2>3, <3>2
    <3> QED
      BY <2>2, <3>1, <3>2
  <2> QED
    BY <2>1, <2>3, <2>4 DEF NoEnd
<1> QED
  BY <1>1, <1>2

LEMMA EndAfter ==
  ASSUME NEW D \in Seq(Tells), NoEnd(D), NEW x, x = <<>> \/ \E m \in Tells : x = <<m>>
  PROVE  D \o x \in Seq(Tells) /\ EndLast(D \o x)
<1>1. CASE x = <<>>
  BY <1>1, ConcatEmptySeq DEF EndLast, NoEnd
<1>2. CASE \E m \in Tells : x = <<m>>
  <2>1. PICK m \in Tells : x = <<m>>
    BY <1>2
  <2>2. <<m>> \in Seq(Tells) /\ Len(<<m>>) = 1 /\ Len(D) \in Nat
    OBVIOUS
  <2>3. /\ D \o <<m>> \in Seq(Tells) /\ Len(D \o <<m>>) = Len(D) + 1
        /\ \A i \in 1..(Len(D) + 1) :
             (D \o <<m>>)[i] = IF i <= Len(D) THEN D[i] ELSE <<m>>[i - Len(D)]
    BY <2>2, ConcatProperties
  <2>4. ASSUME NEW e \in 1..(Len(D) + 1), Ends((D \o <<m>>)[e])
        PROVE  e = Len(D) + 1
    BY <2>2, <2>3, <2>4 DEF NoEnd
  <2> QED
    BY <2>1, <2>3, <2>4 DEF EndLast
<1> QED
  BY <1>1, <1>2

\* If errors end jobs, or there are none, a job is told its last word as it leaves the list.
LEMMA TickEnds ==
  ASSUME TransferAssumption, TransferTypes, Delegated \/ MaxErrors = 0,
         Distinct(queue), NEW o \in BOOLEAN, NEW r \in BOOLEAN, TickSteps(o, r),
         NEW j \in Jobs, EndsLast(j)
  PROVE  EndsLast(j)'
<1>1. /\ queue \in Seq(Jobs) /\ readers[j] \in ReadJob /\ toClient[j] \in Seq(Tells)
      /\ queue # <<>> /\ queue' \in {queue, Tail(queue)} /\ (MaxErrors = 0 => ~o /\ ~r)
      /\ TickOf(j, o, r)
  BY DEF TransferTypes, TickSteps
<1>2. /\ \A k : Absent(k) => Absent(k)'
      /\ queue' = Tail(queue) => \A i \in 1..Len(queue') : queue'[i] # Head(queue)
  <2>1. /\ \A k : Absent(k) => \A i \in 1..Len(Tail(queue)) : Tail(queue)[i] # k
        /\ \A i \in 1..Len(Tail(queue)) : Tail(queue)[i] # Head(queue)
    BY <1>1, QueueTail DEF Distinct
  <2>2. CASE queue' = queue
    <3>1. queue' = Tail(queue) => \A i \in 1..Len(queue') : queue'[i] # Head(queue)
      BY <2>1
    <3> QED
      BY <2>2, <3>1 DEF Absent
  <2>3. CASE queue' = Tail(queue)
    BY <2>1, <2>3 DEF Absent
  <2> QED
    BY <1>1, <2>2, <2>3
<1>3. ~Absent(Head(queue))
  BY <1>1, QueueTail
<1>4. CASE Passes(j)
  BY <1>2, <1>4 DEF EndsLast, Passes
<1>5. CASE ~Absent(j) /\ \E f \in BOOLEAN : (f => o /\ ~Delegated) /\ Opens(j, f)
  <2>1. PICK f \in BOOLEAN : (f => o /\ ~Delegated) /\ Opens(j, f)
    BY <1>5
  <2>2. ~f
    BY <1>1, <2>1
  <2>3. PICK x : x = Opened(readers[j], f)
    OBVIOUS
  <2>4. x.out = <<>> \/ \E m \in Tells : x.out = <<m>> /\ (Ends(m) => f)
    BY <1>1, <2>3, OpenTypes
  <2>5. x.out = <<>> \/ \E m \in Tells : x.out = <<m>> /\ ~Ends(m)
    BY <2>2, <2>4
  <2>6. toClient'[j] = toClient[j] \o x.out
    BY <2>1, <2>3 DEF Opens
  <2>7. NoEnd(toClient'[j])
    BY <1>1, <1>5, <2>5, <2>6, NoEndAfter DEF EndsLast
  <2> QED
    BY <2>7 DEF EndsLast, EndLast, NoEnd
<1>6. CASE j = Head(queue) /\ \E f \in BOOLEAN :
             (f => o /\ ~Delegated) /\ Reads(j, f, r) /\ Shortens(j, f, r)
  <2>1. PICK f \in BOOLEAN : (f => o /\ ~Delegated) /\ Reads(j, f, r) /\ Shortens(j, f, r)
    BY <1>6
  <2>2. ~f /\ ~(r /\ ~Delegated)
    BY <1>1, <2>1
  <2>3. PICK x : x = Opened(readers[j], f)
    OBVIOUS
  <2>4. x.out = <<>> \/ \E m \in Tells : x.out = <<m>> /\ (Ends(m) => f)
    BY <1>1, <2>3, OpenTypes
  <2>5. x.out = <<>> \/ \E m \in Tells : x.out = <<m>> /\ ~Ends(m)
    BY <2>2, <2>4
  <2>6. x.job \in ReadJob
    BY <1>1, <2>3, OpenTypes
  <2>7. PICK p : p = ReadOnce(x.job, r)
    OBVIOUS
  <2>8. p.out = <<>> \/ \E m \in Tells :
           p.out = <<m>> /\ (Ends(m) => p.ends \/ (r /\ ~Delegated))
    BY <2>6, <2>7, ReadTypes
  <2>9. /\ toClient'[j] = (toClient[j] \o x.out) \o p.out
        /\ queue' = IF p.ends THEN Tail(queue) ELSE queue
    BY <2>1, <2>3, <2>7 DEF Reads, Shortens
  <2>10. PICK D : D = toClient[j] \o x.out
    OBVIOUS
  <2>11. D \in Seq(Tells) /\ NoEnd(D)
    BY <1>1, <1>3, <1>6, <2>5, <2>10, NoEndAfter DEF EndsLast
  <2>12. CASE p.ends
    <3>1. Absent(j)'
      BY <1>2, <1>6, <2>9, <2>12 DEF Absent
    <3>2. EndLast(D \o p.out)
      BY <2>8, <2>11, EndAfter
    <3> QED
      BY <2>9, <2>10, <3>1, <3>2 DEF EndsLast
  <2>13. CASE ~p.ends
    <3>1. p.out = <<>> \/ \E m \in Tells : p.out = <<m>> /\ ~Ends(m)
      BY <2>2, <2>8, <2>13
    <3>2. NoEnd(toClient'[j])
      BY <2>9, <2>10, <2>11, <3>1, NoEndAfter
    <3> QED
      BY <3>2 DEF EndsLast, EndLast, NoEnd
  <2> QED
    BY <2>12, <2>13
<1>7. CASE j = Head(queue) /\ Opens(j, TRUE) /\ queue' = Tail(queue)
  <2>1. PICK x : x = Opened(readers[j], TRUE)
    OBVIOUS
  <2>2. x.out = <<>> \/ \E m \in Tells : x.out = <<m>>
    BY <1>1, <2>1, OpenTypes
  <2>3. toClient'[j] = toClient[j] \o x.out
    BY <1>7, <2>1 DEF Opens
  <2>4. EndLast(toClient'[j])
    BY <1>1, <1>3, <1>7, <2>2, <2>3, EndAfter DEF EndsLast
  <2>5. Absent(j)'
    BY <1>2, <1>7 DEF Absent
  <2> QED
    BY <2>4, <2>5 DEF EndsLast
<1> QED
  BY <1>1, <1>4, <1>5, <1>6, <1>7 DEF TickOf

LEMMA TickCompletes ==
  ASSUME TransferAssumption, TransferInv, CompleteInv, Delegated \/ MaxErrors = 0,
         NEW o \in BOOLEAN, NEW r \in BOOLEAN, TickSteps(o, r)
  PROVE  CompleteInv'
<1>1. TransferTypes /\ Distinct(queue) /\ \A j \in Jobs : EndInv(j)
  BY DEF TransferInv, CompleteInv, Distinct
<1>2. /\ UNCHANGED <<writers, disk, toHost, asked, answered, status, saved, losses>>
      /\ queue # <<>> /\ queue' \in {queue, Tail(queue)} /\ \A j \in Jobs : TickOf(j, o, r)
  BY DEF TickSteps
<1>3. queue \in Seq(Jobs)
  BY <1>1 DEF TransferTypes
<1>4. Distinct(queue') /\ \A k : Absent(k) => Absent(k)'
  <2>1. CASE queue' = queue
    BY <1>1, <2>1 DEF Distinct, Absent
  <2>2. CASE queue' = Tail(queue)
    BY <1>1, <1>2, <1>3, <2>2, QueueTail DEF Distinct, Absent
  <2> QED
    BY <1>2, <2>1, <2>2
<1>5. ASSUME NEW j \in Jobs
      PROVE  EndInv(j)'
  <2>1. AskedOf(j)' = AskedOf(j)
    BY <1>2 DEF AskedOf
  <2>2. Writing(j)' => EndsLast(j)'
    <3>1. Writing(j)' => Writing(j)
      BY <1>2 DEF Writing
    <3>2. Writing(j) => EndsLast(j)
      BY <1>1, EndInvIs
    <3> QED
      BY <1>1, <3>1, <3>2, TickEnds
  <2>3. Absent(j) => toClient'[j] = toClient[j]
    <3>1. ~Absent(Head(queue))
      BY <1>2, <1>3, QueueTail
    <3> QED
      BY <1>2, <3>1 DEF TickOf, Passes
  <2>4. status'[j] \in {"done", "error"} =>
          toHost'[j] = <<>> /\ toClient'[j] = <<>> /\ Absent(j)' /\ AskedOf(j)' = {}
    BY <1>1, <1>2, <1>4, <2>1, <2>3 DEF EndInv
  <2>5. status'[j] = "done" => \A f \in 1..Files : Met(disk'[j], answered'[j], f)
    BY <1>1, <1>2 DEF EndInv
  <2>6. Writing(j)' =>
          \A e \in 1..Len(toClient'[j]) :
            Ends(toClient'[j][e]) => e = Len(toClient'[j]) /\ Absent(j)'
    BY <2>2 DEF EndsLast, EndLast, NoEnd
  <2> QED
    BY <2>4, <2>5, <2>6 DEF EndInv
<1> QED
  BY <1>4, <1>5 DEF CompleteInv, Distinct

\* What holds of a job when it ends stays so while nothing of it changes.
LEMMA EndStays ==
  ASSUME NEW k \in Jobs, EndInv(k), Same(k)
  PROVE  EndInv(k)'
BY DEF EndInv, Same, Writing

\* What the client is told of a job tells the phase of its download.
LEMMA LivePhases ==
  ASSUME TransferAssumption, NEW r, NEW w, NEW d, NEW a, NEW H, NEW D, NEW Q,
         Live(r, w, d, a, H, D, Q)
  PROVE  (H # <<>> => D = <<>>) /\ (D # <<>> => H = <<>> /\ Q = {})
BY DEF Live, Sending, Opening, Announcing, Asking, Confirming, Streaming, Ending

LEMMA LastTold ==
  ASSUME NEW D \in Seq(Tells), D # <<>>, EndLast(D)
  PROVE  /\ EndLast(Tail(D)) /\ (NoEnd(D) => NoEnd(Tail(D)))
         /\ Ends(Head(D)) => Tail(D) = <<>> /\ ~NoEnd(D)
<1>1. /\ Len(D) \in Nat /\ Len(D) >= 1 /\ Head(D) = D[1]
      /\ Tail(D) \in Seq(Tells) /\ Len(Tail(D)) = Len(D) - 1
      /\ \A i \in 1..Len(Tail(D)) : Tail(D)[i] = D[i + 1]
  BY HeadTailProperties, EmptySeq
<1>2. PICK T : T = Tail(D)
  OBVIOUS
<1>3. /\ Len(D) \in Nat /\ Len(D) >= 1 /\ Head(D) = D[1]
      /\ T \in Seq(Tells) /\ Len(T) = Len(D) - 1
      /\ \A i \in 1..Len(T) : T[i] = D[i + 1]
  BY <1>1, <1>2
<1>4. EndLast(T)
  <2>1. ASSUME NEW e \in 1..Len(T), Ends(T[e])
        PROVE  e = Len(T)
    <3>1. e + 1 \in 1..Len(D) /\ Ends(D[e + 1])
      BY <1>3, <2>1
    <3>2. e + 1 = Len(D)
      BY <3>1 DEF EndLast
    <3> QED
      BY <1>3, <3>2
  <2> QED
    BY <2>1 DEF EndLast
<1>5. ASSUME NoEnd(D)
      PROVE  NoEnd(T)
  <2>1. \A e \in 1..Len(T) : e + 1 \in 1..Len(D)
    BY <1>3
  <2> QED
    BY <1>3, <1>5, <2>1 DEF NoEnd
<1>6. ASSUME Ends(Head(D))
      PROVE  T = <<>> /\ ~NoEnd(D)
  <2>1. 1 \in 1..Len(D) /\ Ends(D[1])
    BY <1>3, <1>6
  <2>2. 1 = Len(D)
    BY <2>1 DEF EndLast
  <2>3. T = <<>>
    BY <1>3, <2>2, EmptySeq
  <2> QED
    BY <2>1, <2>3 DEF NoEnd
<1> QED
  BY <1>2, <1>4, <1>5, <1>6

\* A step of j on which EndInv of the others does not depend.
LEMMA EndsElsewhere ==
  ASSUME CompleteInv, NEW j \in Jobs, \A k \in Jobs \ {j} : Same(k), EndInv(j)',
         Distinct(queue')
  PROVE  CompleteInv'
<1>1. ASSUME NEW k \in Jobs
      PROVE  EndInv(k)'
  <2>1. CASE k = j
    BY <2>1
  <2>2. CASE k # j
    BY <2>2, EndStays DEF CompleteInv
  <2> QED
    BY <2>1, <2>2
<1> QED
  BY <1>1 DEF CompleteInv, Distinct

LEMMA HostCompletes ==
  ASSUME TransferAssumption, TransferInv, CompleteInv, NEW j \in Jobs,
         HostReceives(j)
  PROVE  CompleteInv'
<1>1. TransferTypes /\ JobInv(j) /\ EndInv(j) /\ Distinct(queue)
  BY DEF TransferInv, CompleteInv, Distinct
<1>2. PICK m : m = Head(toHost[j])
  OBVIOUS
<1>3. /\ toHost[j] # <<>>
      /\ UNCHANGED <<writers, disk, toClient, asked, answered, status, saved, errors, losses>>
  BY <1>1, <1>2, HostReceivesIs
<1>4. \/ m.k = "send" /\ queue' = Append(queue, j)
      \/ m.k = "cancel" /\ queue' = RemoveFirst(queue, j)
      \/ m.k = "confirm" /\ queue' = queue
  BY <1>1, <1>2, HostReceivesIs
<1>5. \A k \in Jobs \ {j} : Same(k)
  BY <1>1, HostStepTypes
<1>6. queue \in Seq(Jobs) /\ toHost[j] \in Seq(Asks)
  BY <1>1 DEF TransferTypes
<1>7. Distinct(queue')
  <2>1. CASE m.k = "send" /\ queue' = Append(queue, j)
    <3>1. m = toHost[j][1] /\ 1 \in 1..Len(toHost[j])
      BY <1>2, <1>3, <1>6, EmptySeq
    <3>2. Absent(j)
      BY <1>1, <2>1, <3>1 DEF JobInv
    <3>3. /\ Len(queue') = Len(queue) + 1 /\ Len(queue) \in Nat
          /\ \A i \in 1..Len(queue') : queue'[i] = IF i <= Len(queue) THEN queue[i] ELSE j
      BY <1>6, <2>1, AppendProperties
    <3>4. ASSUME NEW i \in 1..Len(queue'), NEW k \in 1..Len(queue'), i # k
          PROVE  queue'[i] # queue'[k]
      <4>1. CASE i <= Len(queue) /\ k <= Len(queue)
        BY <1>1, <3>3, <3>4, <4>1 DEF Distinct
      <4>2. CASE i <= Len(queue) /\ ~(k <= Len(queue))
        BY <3>2, <3>3, <4>2 DEF Absent
      <4>3. CASE ~(i <= Len(queue)) /\ k <= Len(queue)
        BY <3>2, <3>3, <4>3 DEF Absent
      <4> QED
        BY <3>3, <3>4, <4>1, <4>2, <4>3
    <3> QED
      BY <3>4 DEF Distinct
  <2>2. CASE queue' = RemoveFirst(queue, j)
    <3> DEFINE left == RemoveFirst(queue, j)
    <3>1. (\A i, k \in 1..Len(queue) : i # k => queue[i] # queue[k])
            => \A i, k \in 1..Len(left) : i # k => left[i] # left[k]
      BY <1>6, RemovedFirst
    <3>2. queue' = left
      BY <2>2
    <3> HIDE DEF left
    <3> QED
      BY <1>1, <3>1, <3>2 DEF Distinct
  <2>3. CASE queue' = queue
    BY <1>1, <2>3
  <2> QED
    BY <1>4, <2>1, <2>2, <2>3
<1>8. EndInv(j)'
  <2>1. Writing(j) => toClient[j] = <<>>
    <3>1. PICK Q : Q = AskedOf(j)
      OBVIOUS
    <3> QED
      BY <1>1, <1>3, <3>1, LivePhases DEF JobInv
  <2>2. status[j] \notin {"done", "error"}
    BY <1>1, <1>3 DEF EndInv
  <2>3. Writing(j)' => Len(toClient'[j]) = 0
    BY <1>3, <2>1 DEF Writing
  <2> QED
    BY <1>3, <2>2, <2>3 DEF EndInv
<1> QED
  BY <1>5, <1>7, <1>8, EndsElsewhere

\* What a message to the client changes of other jobs: nothing.
LEMMA ClientElsewhere ==
  ASSUME TransferTypes, NEW j \in Jobs, ClientReceives(j), NEW k \in Jobs \ {j}
  PROVE  Same(k)
<1>1. PICK m : m = Head(toClient[j])
  OBVIOUS
<1>2. /\ toClient' = [toClient EXCEPT ![j] = Tail(@)]
      /\ UNCHANGED <<queue, readers, answered, saved, errors, losses>>
  BY <1>1, ClientReceivesIs
<1>3. \/ m.k = "digest" /\ OnDigest(j, m) /\ UNCHANGED <<disk, status>>
      \/ m.k = "block" /\ OnBlock(j, m) /\ UNCHANGED <<toHost, asked, status>>
      \/ m.k = "done" /\ OnDone(j) /\ UNCHANGED <<toHost, asked>>
      \/ m.k = "error" /\ OnError(j) /\ UNCHANGED <<toHost, asked, disk>>
  BY <1>1, ClientReceivesIs
<1>4. toClient'[k] = toClient[k] /\ (Absent(k) => Absent(k)')
  BY <1>2 DEF TransferTypes, Absent
<1>5. /\ writers'[k] = writers[k] /\ disk'[k] = disk[k] /\ toHost'[k] = toHost[k]
      /\ status'[k] = status[k] /\ AskedOf(k)' = AskedOf(k)
  <2>1. CASE OnDigest(j, m) /\ UNCHANGED <<disk, status>>
    <3>1. \/ UNCHANGED <<writers, toHost, asked>>
          \/ \E c : Confirms(j, c) /\ UNCHANGED asked
          \/ asked' = asked \union {<<j, m.f>>} /\ UNCHANGED <<writers, toHost>>
      BY <2>1 DEF OnDigest
    <3>2. ASSUME NEW c, Confirms(j, c)
          PROVE  writers'[k] = writers[k] /\ toHost'[k] = toHost[k]
      BY <3>2 DEF Confirms, ToHost, TransferTypes
    <3>3. writers'[k] = writers[k] /\ toHost'[k] = toHost[k]
      BY <3>1, <3>2
    <3>4. AskedOf(k)' = AskedOf(k)
      BY <3>1 DEF AskedOf
    <3> QED
      BY <2>1, <3>3, <3>4
  <2>2. CASE OnBlock(j, m) /\ UNCHANGED <<toHost, asked, status>>
    BY <2>2 DEF OnBlock, TransferTypes, AskedOf
  <2>3. CASE OnDone(j) /\ UNCHANGED <<toHost, asked>>
    BY <2>3 DEF OnDone, Told, TransferTypes, AskedOf
  <2>4. CASE OnError(j) /\ UNCHANGED <<toHost, asked, disk>>
    BY <2>4 DEF OnError, Told, TransferTypes, AskedOf
  <2> QED
    BY <1>3, <2>1, <2>2, <2>3, <2>4
<1> QED
  BY <1>2, <1>4, <1>5 DEF Same

LEMMA ClientCompletes ==
  ASSUME TransferAssumption, TransferInv, CompleteInv, NEW j \in Jobs,
         ClientReceives(j)
  PROVE  CompleteInv'
<1>1. TransferTypes /\ JobInv(j) /\ EndInv(j) /\ Distinct(queue)
  BY DEF TransferInv, CompleteInv, Distinct
<1>2. PICK m : m = Head(toClient[j])
  OBVIOUS
<1>3. /\ toClient[j] # <<>> /\ toClient' = [toClient EXCEPT ![j] = Tail(@)]
      /\ UNCHANGED <<queue, readers, answered, saved, errors, losses>>
  BY <1>1, <1>2, ClientReceivesIs
<1>4. \/ m.k = "digest" /\ OnDigest(j, m) /\ UNCHANGED <<disk, status>>
      \/ m.k = "block" /\ OnBlock(j, m) /\ UNCHANGED <<toHost, asked, status>>
      \/ m.k = "done" /\ OnDone(j) /\ UNCHANGED <<toHost, asked>>
      \/ m.k = "error" /\ OnError(j) /\ UNCHANGED <<toHost, asked, disk>>
  BY <1>1, <1>2, ClientReceivesIs
<1>5. Distinct(queue') /\ (Absent(j) => Absent(j)')
  BY <1>1, <1>3 DEF Absent
<1>6. status[j] \notin {"done", "error", "none", "saved"}
  BY <1>1, <1>3 DEF EndInv, JobInv, Unbegun
<1>7. /\ toClient[j] \in Seq(Tells) /\ toClient'[j] = Tail(toClient[j])
      /\ status \in [Jobs -> {"none", "running", "done", "error", "cancelled", "saved"}]
      /\ writers \in [Jobs -> {<<>>} \union {<<x>> : x \in WriteJob}]
  BY <1>1, <1>3 DEF TransferTypes
<1>8. status[j] = IF Writing(j) THEN "running" ELSE "cancelled"
  BY <1>1, <1>6, <1>7 DEF JobInv
<1>9. ASSUME Writing(j)
      PROVE  /\ EndLast(Tail(toClient[j])) /\ (Absent(j) \/ NoEnd(Tail(toClient[j])))
             /\ Ends(m) => Tail(toClient[j]) = <<>> /\ Absent(j)
             /\ toHost[j] = <<>> /\ AskedOf(j) = {}
  <2>1. EndsLast(j)
    BY <1>1, <1>9, EndInvIs
  <2>2. /\ EndLast(Tail(toClient[j])) /\ (Absent(j) \/ NoEnd(Tail(toClient[j])))
        /\ Ends(m) => Tail(toClient[j]) = <<>> /\ Absent(j)
    BY <1>2, <1>3, <1>7, <2>1, LastTold DEF EndsLast
  <2>3. toHost[j] = <<>> /\ AskedOf(j) = {}
    <3>1. PICK Q : Q = AskedOf(j)
      OBVIOUS
    <3>2. Live(readers[j], writers[j][1], disk[j], answered[j], toHost[j], toClient[j], Q)
      BY <1>1, <1>9, <3>1 DEF JobInv
    <3>3. toHost[j] = <<>> /\ Q = {}
      BY <1>3, <3>2, LivePhases
    <3> QED
      BY <3>1, <3>3
  <2> QED
    BY <2>2, <2>3
<1>10. EndInv(j)'
  <2>1. CASE m.k \in {"digest", "block"}
    <3>1. status' = status
      BY <1>4, <2>1
    <3>2. Writing(j)' => Writing(j)
      <4>1. ~Writing(j) => writers' = writers
        BY <1>4, <2>1 DEF OnDigest, OnBlock
      <4> QED
        BY <4>1 DEF Writing
    <3>3. Writing(j)' => EndsLast(j)'
      BY <1>5, <1>7, <1>9, <3>2 DEF EndsLast
    <3>4. status'[j] \notin {"done", "error"}
      BY <1>6, <3>1
    <3>5. Writing(j)' =>
            \A e \in 1..Len(toClient'[j]) :
              Ends(toClient'[j][e]) => e = Len(toClient'[j]) /\ Absent(j)'
      BY <3>3 DEF EndsLast, EndLast, NoEnd
    <3> QED
      BY <3>4, <3>5 DEF EndInv
  <2>2. CASE m.k \in {"done", "error"}
    <3>1. ~Writing(j)'
      BY <1>4, <1>7, <2>2 DEF OnDone, OnError, Writing
    <3>2. PICK what \in {"done", "error"} : what = m.k /\ status' = Told(j, what)
      BY <1>4, <2>2 DEF OnDone, OnError
    <3>3. CASE Writing(j)
      <4>1. status'[j] = m.k
        BY <1>1, <1>8, <3>2, <3>3, ToldIs
      <4>2. toHost' = toHost /\ asked' = asked
        BY <1>4, <2>2
      <4>3. toHost'[j] = <<>> /\ AskedOf(j)' = {} /\ toClient'[j] = <<>> /\ Absent(j)'
        <5>1. Ends(m)
          BY <2>2 DEF Ends
        <5>2. toHost[j] = <<>> /\ AskedOf(j) = {} /\ Tail(toClient[j]) = <<>> /\ Absent(j)
          BY <1>9, <3>3, <5>1
        <5>3. AskedOf(j)' = AskedOf(j)
          BY <4>2 DEF AskedOf
        <5> QED
          BY <1>5, <1>7, <4>2, <5>2, <5>3
      <4>4. m.k = "done" => \A f \in 1..Files : Met(disk'[j], answered'[j], f)
        <5>1. (m.k = "done" /\ OnDone(j)) \/ (m.k = "error" /\ OnError(j)
                                                        /\ UNCHANGED disk)
          BY <1>4, <2>2
        <5>2. m.k = "done" => \A f \in 1..Files : Met(disk'[j], answered[j], f)
          BY <1>2, <1>3, <3>3, <4>2, <5>1, EndStep
        <5> QED
          BY <1>3, <5>2
      <4> QED
        BY <3>1, <4>1, <4>3, <4>4 DEF EndInv
    <3>4. CASE ~Writing(j)
      <4>1. status'[j] = "cancelled"
        <5>1. status[j] = "cancelled"
          BY <1>8, <3>4
        <5> QED
          BY <1>7, <3>2, <5>1 DEF Told
      <4> QED
        BY <3>1, <4>1 DEF EndInv
    <3> QED
      BY <3>3, <3>4
  <2> QED
    BY <1>4, <2>1, <2>2
<1>11. \A k \in Jobs \ {j} : Same(k)
  BY <1>1, ClientElsewhere
<1> QED
  BY <1>5, <1>10, <1>11, EndsElsewhere

\* The steps of the user, and the loss.
LEMMA UserCompletes ==
  ASSUME TransferAssumption, TransferInv, CompleteInv, NEW j \in Jobs,
         \/ Start(j) \/ Resume(j) \/ Cancel(j)
         \/ \E f \in 1..Files : Answer(j, f)
  PROVE  CompleteInv'
<1>1. TransferTypes /\ JobInv(j) /\ EndInv(j) /\ Distinct(queue)
  BY DEF TransferInv, CompleteInv, Distinct
<1>2. queue' = queue /\ readers' = readers /\ toClient' = toClient /\ saved' = saved
  BY DEF Start, Resume, Cancel, Answer, host
<1>3. Distinct(queue') /\ \A k \in Jobs : Absent(k) => Absent(k)'
  BY <1>1, <1>2 DEF Absent
<1>4. CASE Start(j) \/ Resume(j)
  <2>1. status[j] \in {"none", "saved"} /\ status' = [status EXCEPT ![j] = "running"]
        /\ UNCHANGED <<disk, asked, answered>>
    BY <1>4 DEF Start, Resume
  <2>2. \E w, m : writers' = [writers EXCEPT ![j] = w] /\ toHost' = [toHost EXCEPT ![j] = m]
    BY <1>4 DEF Start, Resume, ToHost
  <2>3. status'[j] = "running" /\ toClient'[j] = <<>>
    BY <1>1, <1>2, <2>1 DEF TransferTypes, JobInv, Unbegun
  <2>4. EndInv(j)'
    <3>1. Len(toClient'[j]) = 0
      BY <2>3
    <3> QED
      BY <2>3, <3>1 DEF EndInv
  <2>5. ASSUME NEW k \in Jobs \ {j}
        PROVE  Same(k)
    <3>1. status'[k] = status[k] /\ writers'[k] = writers[k] /\ toHost'[k] = toHost[k]
      BY <1>1, <2>1, <2>2 DEF TransferTypes
    <3>2. AskedOf(k)' = AskedOf(k)
      BY <2>1 DEF AskedOf
    <3> QED
      BY <1>2, <1>3, <2>1, <3>1, <3>2 DEF Same
  <2> QED
    BY <1>3, <2>4, <2>5, EndsElsewhere
<1>5. CASE Cancel(j)
  <2>1. /\ status' = [status EXCEPT ![j] = "cancelled"] /\ writers' = [writers EXCEPT ![j] = <<>>]
        /\ \E d : disk' = [disk EXCEPT ![j] = d]
        /\ \E m : toHost' = [toHost EXCEPT ![j] = m]
        /\ UNCHANGED <<asked, answered>>
    BY <1>1, <1>5 DEF Cancel, ToHost, TransferTypes
  <2>2. status'[j] = "cancelled" /\ writers'[j] = <<>>
    BY <1>1, <2>1 DEF TransferTypes
  <2>3. EndInv(j)'
    BY <2>2 DEF EndInv, Writing
  <2>4. ASSUME NEW k \in Jobs \ {j}
        PROVE  Same(k)
    <3>1. status'[k] = status[k] /\ writers'[k] = writers[k] /\ toHost'[k] = toHost[k]
          /\ disk'[k] = disk[k]
      BY <1>1, <2>1 DEF TransferTypes
    <3>2. AskedOf(k)' = AskedOf(k)
      BY <2>1 DEF AskedOf
    <3> QED
      BY <1>2, <1>3, <2>1, <3>1, <3>2 DEF Same
  <2> QED
    BY <1>3, <2>3, <2>4, EndsElsewhere
<1>6. ASSUME NEW f \in 1..Files, Answer(j, f)
      PROVE  CompleteInv'
  <2>1. /\ <<j, f>> \in asked /\ asked' = asked \ {<<j, f>>}
        /\ UNCHANGED <<disk, status>>
        /\ \E b : answered' = [answered EXCEPT ![j] = b]
        /\ \/ UNCHANGED <<writers, toHost>>
           \/ /\ Writing(j)
              /\ \E u, h : /\ writers' = [writers EXCEPT ![j] = <<u>>]
                           /\ toHost' = [toHost EXCEPT ![j] = h]
    <3>1. PICK over \in BOOLEAN, remember \in BOOLEAN :
            /\ answered' = [answered EXCEPT ![j] = [g \in 1..Files |->
                              IF g = f \/ (remember /\ g > f)
                              THEN IF over THEN "over" ELSE "skip" ELSE answered[j][g]]]
            /\ IF ~Writing(j) THEN UNCHANGED <<writers, toHost>>
               ELSE LET c == Confirm(f, ~over, 0)
                        w == [writers[j][1] EXCEPT
                                !.strategy = IF ~remember THEN @
                                             ELSE IF over THEN "over" ELSE "skip"]
                    IN  /\ writers' = [writers EXCEPT ![j] = <<WriterConfirmed(w, c)>>]
                        /\ ToHost(j, c)
      BY <1>1, <1>6 DEF Answer, TransferTypes
    <3>2. \/ UNCHANGED <<writers, toHost>>
          \/ /\ Writing(j)
             /\ \E u : writers' = [writers EXCEPT ![j] = <<u>>]
             /\ \E c : ToHost(j, c)
      BY <3>1
    <3>3. ASSUME NEW c, ToHost(j, c)
          PROVE  \E h : toHost' = [toHost EXCEPT ![j] = h]
      BY <3>3 DEF ToHost
    <3>4. <<j, f>> \in asked /\ asked' = asked \ {<<j, f>>} /\ UNCHANGED <<disk, status>>
      BY <1>6 DEF Answer
    <3> QED
      BY <3>1, <3>2, <3>3, <3>4
  <2>2. f \in AskedOf(j)
    BY <2>1 DEF AskedOf
  <2>3. status'[j] \notin {"done", "error"}
    BY <1>1, <2>1, <2>2 DEF EndInv
  <2>4. Writing(j)' => Writing(j)
    BY <2>1 DEF Writing
  <2>5. EndInv(j)'
    BY <1>1, <1>2, <1>3, <2>3, <2>4 DEF EndInv
  <2>6. ASSUME NEW k \in Jobs \ {j}
        PROVE  Same(k)
    <3>1. writers'[k] = writers[k] /\ toHost'[k] = toHost[k] /\ answered'[k] = answered[k]
      BY <1>1, <2>1 DEF TransferTypes
    <3>2. AskedOf(k)' = AskedOf(k)
      BY <2>1 DEF AskedOf
    <3> QED
      BY <1>2, <1>3, <2>1, <3>1, <3>2 DEF Same
  <2> QED
    BY <1>3, <2>5, <2>6, EndsElsewhere
<1> QED
  BY <1>4, <1>5, <1>6

LEMMA LoseCompletes ==
  ASSUME CompleteInv, Lose
  PROVE  CompleteInv'
<1>1. /\ queue' = <<>> /\ asked' = {}
      /\ toHost' = [j \in Jobs |-> <<>>] /\ toClient' = [j \in Jobs |-> <<>>]
      /\ status' = [j \in Jobs |-> IF Writing(j) THEN "saved" ELSE status[j]]
      /\ writers' = [j \in Jobs |-> <<>>]
      /\ UNCHANGED <<disk, answered>>
  BY DEF Lose
<1>2. ASSUME NEW j \in Jobs
      PROVE  EndInv(j)'
  <2>1. /\ toHost'[j] = <<>> /\ toClient'[j] = <<>> /\ AskedOf(j)' = {} /\ Absent(j)'
        /\ writers'[j] = <<>>
    BY <1>1 DEF AskedOf, Absent
  <2>2. status'[j] = "done" => status[j] = "done"
    BY <1>1
  <2> QED
    BY <1>1, <2>1, <2>2 DEF CompleteInv, EndInv, Writing
<1> QED
  BY <1>1, <1>2 DEF CompleteInv

LEMMA CompleteGoesOn ==
  ASSUME TransferAssumption, Delegated \/ MaxErrors = 0, TransferInv, CompleteInv,
         [Next]_vars
  PROVE  CompleteInv'
<1>1. CASE UNCHANGED vars
  BY <1>1 DEF vars, CompleteInv, EndInv, AskedOf, Absent, Writing
<1>2. CASE ConnectionTick \/ ManagerTick
  <2>1. \E o, r \in BOOLEAN : TickSteps(o, r)
    BY <1>2, ConnectionTickParts, ManagerTickParts DEF TransferInv
  <2> QED
    BY <2>1, TickCompletes
<1> QED
  BY <1>1, <1>2, HostCompletes, ClientCompletes, UserCompletes, LoseCompletes, TransferSteps

(* A job the user was told is done has every file in its place, but those  *)
(* the user said to skip, if the folder held no part of an earlier         *)
(* transfer and a file that cannot be read ends its job, as under the      *)
(* connection manager, or none fails (FileTransferDone, job_done).         *)
THEOREM DoneJobsComplete ==
  ASSUME TransferAssumption, Left = {}, Delegated \/ MaxErrors = 0
  PROVE  Spec => []DoneIsComplete
<1>1. Init => CompleteInv
  BY DEF Init, CompleteInv, EndInv, Writing
<1>2. TransferInv /\ CompleteInv /\ [Next]_vars => CompleteInv'
  BY CompleteGoesOn
<1>3. CompleteInv => DoneIsComplete
  BY DEF CompleteInv, EndInv, Met, DoneIsComplete
<1> QED
  BY <1>1, <1>2, <1>3, TransferInvariant, PTL DEF Spec
=============================================================================
