------------------------- MODULE SessionTreeProofs -------------------------
(***************************************************************************)
(* What is proved of the tree of a session's entries.                      *)
(*                                                                         *)
(* SessionTree, for any files and any number of entries: the manager and   *)
(* the files keep their shapes, no line of a file is changed or removed,   *)
(* the label map is what the entries say, and from the first answer on the *)
(* file is the session that the manager holds.                             *)
(*                                                                         *)
(* Compaction, for any number of entries, of compactors and of moves, any  *)
(* budget and any sizes of results: what is cut from the context is in a   *)
(* summary, no result is shown without its call, the most is kept that the *)
(* budget allows, and a branch that is left is accounted for.              *)
(*                                                                         *)
(* The two share the induction.  What the models compute by recursion (the *)
(* lines that can be parsed, the path to an entry, the tokens from a place *)
(* on) is reasoned about by induction on a length or an id, from the well- *)
(* foundedness of the natural numbers.                                     *)
(***************************************************************************)
EXTENDS SessionTree, Compaction, FiniteSetTheorems, SequenceTheorems, TLAPS

-----------------------------------------------------------------------------
(* Induction over the natural numbers, from their being well founded *)

LEMMA NatMin ==
    ASSUME NEW T \in SUBSET Nat, T # {}
    PROVE  \E m \in T : \A n \in T : m <= n
<1> DEFINE R == OpToRel(<, Nat)
<1>1. IsWellFoundedOn(R, Nat)
    BY NatLessThanWellFounded
<1>2. \A x, y \in Nat : <<x, y>> \in R <=> x < y
    BY DEF OpToRel
<1> HIDE DEF R
<1>3. T \subseteq Nat
    OBVIOUS
<1>4. \E m \in T : \A n \in T : ~(<<n, m>> \in R)
    BY <1>1, <1>3, WFMin, Zenon
<1>5. PICK m \in T : \A n \in T : ~(<<n, m>> \in R)
    BY <1>4
<1>6. \A n \in T : ~(n < m)
    BY <1>2, <1>3, <1>5, Zenon
<1>7. QED
    BY <1>3, <1>6

LEMMA Induct ==
    ASSUME NEW T, 0 \in T, \A n \in Nat : n \in T => n + 1 \in T
    PROVE  Nat \subseteq T
<1> DEFINE B == Nat \ T
<1> SUFFICES ASSUME B # {} PROVE FALSE
    OBVIOUS
<1>1. PICK m \in B : \A n \in B : m <= n
    BY NatMin
<1>2. m # 0 /\ m - 1 \in Nat /\ m - 1 \notin B
    BY <1>1
<1>3. QED
    BY <1>2

-----------------------------------------------------------------------------
(* Without *)

(* What the recursion computes after i elements of s *)
Keeps(kept, s, K, n) ==
    \A i \in 0 .. n :
        kept[i] = IF i = 0 THEN <<>>
                  ELSE IF s[i].kind \in K THEN kept[i - 1] ELSE Append(kept[i - 1], s[i])

LEMMA KeptExists ==
    ASSUME NEW S, NEW s \in Seq(S), NEW K
    PROVE  \A n \in Nat : n <= Len(s) => \E kept \in [0 .. n -> Seq(S)] : Keeps(kept, s, K, n)
<1> DEFINE T == {n \in Nat : n <= Len(s) =>
                    \E kept \in [0 .. n -> Seq(S)] : Keeps(kept, s, K, n)}
<1>1. 0 \in T
  <2> DEFINE k == [i \in 0 .. 0 |-> <<>>]
  <2>1. k \in [0 .. 0 -> Seq(S)] /\ Keeps(k, s, K, 0)
      BY DEF Keeps
  <2>2. QED
      BY <2>1
<1>2. ASSUME NEW n \in Nat, n \in T PROVE n + 1 \in T
  <2> SUFFICES ASSUME n + 1 <= Len(s)
               PROVE  \E kept \in [0 .. n + 1 -> Seq(S)] : Keeps(kept, s, K, n + 1)
      OBVIOUS
  <2>1. PICK k \in [0 .. n -> Seq(S)] : Keeps(k, s, K, n)
      BY <1>2, LenProperties
  <2> DEFINE new == IF s[n + 1].kind \in K THEN k[n] ELSE Append(k[n], s[n + 1])
             h == [i \in 0 .. n + 1 |-> IF i = n + 1 THEN new ELSE k[i]]
  <2>2. new \in Seq(S)
    <3>1. k[n] \in Seq(S) /\ s[n + 1] \in S
        BY LenProperties, ElementOfSeq
    <3>2. QED
        BY <3>1, AppendProperties
  <2>3. h \in [0 .. n + 1 -> Seq(S)]
      BY <2>2
  <2>4. ASSUME NEW i \in 0 .. n + 1
        PROVE  h[i] = IF i = 0 THEN <<>>
                      ELSE IF s[i].kind \in K THEN h[i - 1] ELSE Append(h[i - 1], s[i])
    <3>1. CASE i = n + 1
      <4>1. h[i] = new /\ i # 0 /\ h[i - 1] = k[n]
          BY <3>1
      <4>2. QED
          BY <4>1, <3>1
    <3>2. CASE i # n + 1
      <4>1. i \in 0 .. n /\ h[i] = k[i] /\ (i # 0 => h[i - 1] = k[i - 1])
          BY <3>2
      <4>2. QED
          BY <4>1, <2>1 DEF Keeps
    <3>3. QED
        BY <3>1, <3>2
  <2>5. QED
      BY <2>3, <2>4 DEF Keeps
<1> HIDE DEF T
<1>3. Nat \subseteq T
    BY <1>1, <1>2, Induct
<1>4. QED
    BY <1>3 DEF T

LEMMA WithoutKeeps ==
    ASSUME NEW S, NEW s \in Seq(S), NEW K
    PROVE  \E kept : Keeps(kept, s, K, Len(s)) /\ Without(s, K) = kept[Len(s)]
<1> DEFINE kept == CHOOSE f : f = [i \in 0 .. Len(s) |->
                        IF i = 0 THEN <<>>
                        ELSE IF s[i].kind \in K THEN f[i - 1] ELSE Append(f[i - 1], s[i])]
<1> Len(s) \in Nat
    BY LenProperties
<1>1. PICK f \in [0 .. Len(s) -> Seq(S)] : Keeps(f, s, K, Len(s))
  <2>1. \A n \in Nat : n <= Len(s) => \E f \in [0 .. n -> Seq(S)] : Keeps(f, s, K, n)
      BY KeptExists, Zenon
  <2>2. Len(s) <= Len(s)
      OBVIOUS
  <2>3. QED
      BY <2>1, <2>2, Zenon
<1>2. f = [i \in 0 .. Len(s) |->
              IF i = 0 THEN <<>>
              ELSE IF s[i].kind \in K THEN f[i - 1] ELSE Append(f[i - 1], s[i])]
    BY <1>1 DEF Keeps
<1>3. kept = [i \in 0 .. Len(s) |->
              IF i = 0 THEN <<>>
              ELSE IF s[i].kind \in K THEN kept[i - 1] ELSE Append(kept[i - 1], s[i])]
    BY <1>2
<1>4. Without(s, K) = kept[Len(s)]
    BY DEF Without
<1> HIDE DEF kept
<1>5. Keeps(kept, s, K, Len(s))
  <2> DEFINE body(i) == IF i = 0 THEN <<>>
              ELSE IF s[i].kind \in K THEN kept[i - 1] ELSE Append(kept[i - 1], s[i])
  <2>1. kept = [i \in 0 .. Len(s) |-> body(i)]
      BY <1>3
  <2> HIDE DEF body
  <2>2. \A i \in 0 .. Len(s) : kept[i] = body(i)
      BY <2>1
  <2>3. QED
      BY <2>2 DEF Keeps, body
<1>6. QED
    BY <1>4, <1>5

(* k is the first n elements of s without those of the kinds K. *)
Sieved(k, s, K, n) ==
    /\ \A j \in 1 .. Len(k) : \E i \in 1 .. n : s[i] = k[j] /\ s[i].kind \notin K
    /\ \A i \in 1 .. n : s[i].kind \notin K => \E j \in 1 .. Len(k) : k[j] = s[i]
    /\ (\A i \in 1 .. n : s[i].kind \notin K) =>
          Len(k) = n /\ \A i \in 1 .. n : k[i] = s[i]
    /\ k # <<>> =>
          \E i \in 1 .. n :
             /\ s[i] = k[1]
             /\ s[i].kind \notin K
             /\ \A j \in 1 .. i - 1 : s[j].kind \in K

LEMMA SieveDrops ==
    ASSUME NEW S, NEW s \in Seq(S), NEW K, NEW n \in Nat, n + 1 <= Len(s),
           NEW k \in Seq(S), Sieved(k, s, K, n), s[n + 1].kind \in K
    PROVE  Sieved(k, s, K, n + 1)
<1> n + 1 \in 1 .. n + 1 /\ \A i \in 1 .. n + 1 : i \in 1 .. n \/ i = n + 1
    OBVIOUS
<1> \A i \in 1 .. n : i \in 1 .. n + 1
    OBVIOUS
<1> Len(k) \in Nat
    BY LenProperties
<1> QED
    BY DEF Sieved

LEMMA SieveTakes ==
    ASSUME NEW S, NEW s \in Seq(S), NEW K, NEW n \in Nat, n + 1 <= Len(s),
           NEW k \in Seq(S), Sieved(k, s, K, n), s[n + 1].kind \notin K
    PROVE  Sieved(Append(k, s[n + 1]), s, K, n + 1)
<1> DEFINE e == s[n + 1]
           m == Append(k, e)
<1>1. e \in S
    BY LenProperties, ElementOfSeq
<1>2. /\ m \in Seq(S) /\ m # <<>> /\ Len(m) = Len(k) + 1
      /\ \A j \in 1 .. Len(k) : m[j] = k[j]
      /\ m[Len(k) + 1] = e
    BY <1>1, AppendProperties
<1>3. n + 1 \in 1 .. n + 1 /\ e.kind \notin K /\ e = s[n + 1]
    OBVIOUS
<1>4. Len(k) \in Nat
    BY LenProperties
<1> HIDE DEF e, m
<1>5. ASSUME NEW j \in 1 .. Len(m)
      PROVE  \E i \in 1 .. n + 1 : s[i] = m[j] /\ s[i].kind \notin K
  <2>1. CASE j = Len(k) + 1
      BY <2>1, <1>2, <1>3
  <2>2. CASE j # Len(k) + 1
    <3>1. j \in 1 .. Len(k)
        BY <2>2, <1>2, <1>4
    <3>2. PICK i \in 1 .. n : s[i] = k[j] /\ s[i].kind \notin K
        BY <3>1 DEF Sieved
    <3>3. QED
        BY <3>1, <3>2, <1>2
  <2>3. QED
      BY <2>1, <2>2
<1>6. ASSUME NEW i \in 1 .. n + 1, s[i].kind \notin K
      PROVE  \E j \in 1 .. Len(m) : m[j] = s[i]
  <2>1. CASE i = n + 1
      BY <2>1, <1>2, <1>3, <1>4
  <2>2. CASE i # n + 1
    <3>1. i \in 1 .. n
        BY <2>2
    <3>2. PICK j \in 1 .. Len(k) : k[j] = s[i]
        BY <3>1, <1>6 DEF Sieved
    <3>3. QED
        BY <3>2, <1>2, <1>4
  <2>3. QED
      BY <2>1, <2>2
<1>7. ASSUME \A i \in 1 .. n + 1 : s[i].kind \notin K
      PROVE  Len(m) = n + 1 /\ \A i \in 1 .. n + 1 : m[i] = s[i]
  <2>1. Len(k) = n /\ \A i \in 1 .. n : k[i] = s[i]
      BY <1>7 DEF Sieved
  <2>2. QED
      BY <2>1, <1>2, <1>3
<1>8. \E i \in 1 .. n + 1 :
             /\ s[i] = m[1]
             /\ s[i].kind \notin K
             /\ \A j \in 1 .. i - 1 : s[j].kind \in K
  <2>1. CASE k = <<>>
    <3>1. Len(k) = 0
        BY <2>1
    <3>2. m[1] = s[n + 1] /\ s[n + 1].kind \notin K
        BY <3>1, <1>2, <1>3
    <3>3. \A j \in 1 .. n + 1 - 1 : s[j].kind \in K
        BY <3>1 DEF Sieved
    <3>4. QED
        BY <3>2, <3>3
  <2>2. CASE k # <<>>
    <3>1. 1 \in 1 .. Len(k)
        BY <2>2, EmptySeq
    <3>2. QED
        BY <2>2, <3>1, <1>2 DEF Sieved
  <2>3. QED
      BY <2>1, <2>2
<1>9. QED
    BY <1>5, <1>6, <1>7, <1>8 DEF Sieved, m, e

LEMMA WithoutSieves ==
    ASSUME NEW S, NEW s \in Seq(S), NEW K
    PROVE  Without(s, K) \in Seq(S) /\ Sieved(Without(s, K), s, K, Len(s))
<1> Len(s) \in Nat
    BY LenProperties
<1>1. PICK kept : Keeps(kept, s, K, Len(s)) /\ Without(s, K) = kept[Len(s)]
    BY WithoutKeeps
<1> DEFINE T == {n \in Nat : n <= Len(s) => kept[n] \in Seq(S) /\ Sieved(kept[n], s, K, n)}
<1>2. 0 \in T
  <2>1. kept[0] = <<>>
      BY <1>1 DEF Keeps
  <2>2. <<>> \in Seq(S) /\ Len(<<>>) = 0
      BY EmptySeq
  <2>3. Sieved(<<>>, s, K, 0)
      BY <2>2 DEF Sieved
  <2>4. QED
      BY <2>1, <2>2, <2>3
<1>3. ASSUME NEW n \in Nat, n \in T PROVE n + 1 \in T
  <2> SUFFICES ASSUME n + 1 <= Len(s)
               PROVE  kept[n + 1] \in Seq(S) /\ Sieved(kept[n + 1], s, K, n + 1)
      OBVIOUS
  <2>1. kept[n] \in Seq(S) /\ Sieved(kept[n], s, K, n)
      BY <1>3
  <2>2. n + 1 \in 0 .. Len(s) /\ n + 1 # 0 /\ (n + 1) - 1 = n
      OBVIOUS
  <2>3. kept[n + 1] = IF s[n + 1].kind \in K THEN kept[n] ELSE Append(kept[n], s[n + 1])
      BY <2>2, <1>1 DEF Keeps
  <2>4. s[n + 1] \in S
      BY LenProperties, ElementOfSeq
  <2>5. CASE s[n + 1].kind \in K
      BY <2>5, <2>3, <2>1, SieveDrops
  <2>6. CASE s[n + 1].kind \notin K
      BY <2>6, <2>3, <2>1, <2>4, SieveTakes, AppendProperties
  <2>7. QED
      BY <2>5, <2>6
<1> HIDE DEF T
<1>4. Len(s) \in T
    BY <1>2, <1>3, Induct
<1>5. QED
    BY <1>4, <1>1 DEF T
-----------------------------------------------------------------------------
(* Entries, lines and what a sequence of them says *)

(* An entry made before the id n: its parent is older. *)
Entry(n) ==
    {e \in FileEntry :
        /\ e.kind = "session" => e = Header
        /\ e.kind \in EntryKinds => e.id \in 1 .. n - 1 /\ e.parent < e.id
        /\ IF e.kind \in LabelKinds THEN e.target > 0 ELSE e.target = 0}
LineOf(n) == Entry(n) \cup {Torn, Garbage}

(* The first line that can be parsed is a header. *)
Begins(lines) ==
    \E i \in DOMAIN lines :
        /\ lines[i].kind = "session"
        /\ \A j \in 1 .. i - 1 : lines[j].kind \in Damage

LEMMA EntryKept ==
    ASSUME NEW m \in Nat, NEW n \in Nat, m <= n
    PROVE  Entry(m) \subseteq Entry(n) /\ LineOf(m) \subseteq LineOf(n)
<1>1. \A i \in 1 .. m - 1 : i \in 1 .. n - 1
    OBVIOUS
<1>2. QED
    BY <1>1 DEF Entry, LineOf

LEMMA EntryIs ==
    ASSUME NEW n \in Nat
    PROVE  /\ \A e \in Entry(n) : e.kind \notin Damage /\ (e.kind \in EntryKinds <=> e # Header)
           /\ \A e \in LineOf(n) : e.kind \notin Damage <=> e \in Entry(n)
           /\ Torn \in LineOf(n) /\ Torn.kind \in Damage
           /\ Garbage \in LineOf(n) /\ Garbage.kind \in Damage
           /\ Header \in Entry(n) /\ Header.kind = "session"
<1>1. Torn.kind = "torn" /\ Garbage.kind = "garbage" /\ Header.kind = "session"
    BY DEF Torn, Garbage, Header, Mark
<1>2. Header \in FileEntry /\ Header.target = 0
    BY SessionAssumption DEF Header, Mark, FileEntry, Ids
<1>3. Header \in Entry(n)
    BY <1>1, <1>2 DEF Entry, EntryKinds, LabelKinds
<1>4. \A e \in FileEntry : e.kind \in {"session"} \cup EntryKinds
    BY DEF FileEntry
<1>5. \A e \in Entry(n) : e \in FileEntry /\ (e.kind = "session" => e = Header)
    BY DEF Entry
<1>6. QED
    BY <1>1, <1>3, <1>4, <1>5 DEF LineOf, Damage, EntryKinds, LabelKinds

LEMMA EntriesAt ==
    ASSUME NEW S, NEW s \in Seq(S)
    PROVE  /\ \A e : e \in EntriesOf(s) <=>
                  \E i \in 1 .. Len(s) : s[i] = e /\ e.kind \in EntryKinds
           /\ Damaged(s) = {} <=> \A i \in 1 .. Len(s) : s[i].kind \notin Damage
<1> DOMAIN s = 1 .. Len(s)
    BY LenProperties
<1> QED
    BY DEF EntriesOf, ToSet, Damaged

LEMMA EntriesFinite ==
    ASSUME NEW S, NEW s \in Seq(S)
    PROVE  IsFiniteSet(EntriesOf(s))
<1>1. DOMAIN s = 1 .. Len(s) /\ Len(s) \in Nat /\ s \in [1 .. Len(s) -> S]
    BY LenProperties
<1>2. s \in Surjection(1 .. Len(s), ToSet(s))
    BY <1>1 DEF ToSet, Surjection
<1>3. IsFiniteSet(ToSet(s))
    BY <1>1, <1>2, FS_NatSurjection DEF ExistsSurjection
<1>4. QED
    BY <1>3, FS_Subset DEF EntriesOf

LEMMA EntriesConcat ==
    ASSUME NEW S, NEW s \in Seq(S), NEW t \in Seq(S)
    PROVE  /\ EntriesOf(s \o t) = EntriesOf(s) \cup EntriesOf(t)
           /\ Damaged(s \o t) = {} <=> Damaged(s) = {} /\ Damaged(t) = {}
<1> DEFINE u == s \o t
<1>1. /\ u \in Seq(S) /\ Len(u) = Len(s) + Len(t)
      /\ \A i \in 1 .. Len(s) + Len(t) : u[i] = IF i <= Len(s) THEN s[i] ELSE t[i - Len(s)]
    BY ConcatProperties
<1>2. Len(s) \in Nat /\ Len(t) \in Nat
    BY LenProperties
<1> HIDE DEF u
<1>3. \A i \in 1 .. Len(s) : i \in 1 .. Len(u) /\ u[i] = s[i]
    BY <1>1, <1>2
<1>4. ASSUME NEW i \in 1 .. Len(t)
      PROVE  Len(s) + i \in 1 .. Len(u) /\ u[Len(s) + i] = t[i]
  <2>1. Len(s) + i \in 1 .. Len(s) + Len(t) /\ ~(Len(s) + i <= Len(s)) /\ (Len(s) + i) - Len(s) = i
      BY <1>2
  <2>2. QED
      BY <2>1, <1>1
<1>5. \A i \in 1 .. Len(u) : \/ i \in 1 .. Len(s) /\ u[i] = s[i]
                             \/ i - Len(s) \in 1 .. Len(t) /\ u[i] = t[i - Len(s)]
    BY <1>1, <1>2
<1>6. /\ \A e : e \in EntriesOf(u) <=> \E i \in 1 .. Len(u) : u[i] = e /\ e.kind \in EntryKinds
      /\ \A e : e \in EntriesOf(s) <=> \E i \in 1 .. Len(s) : s[i] = e /\ e.kind \in EntryKinds
      /\ \A e : e \in EntriesOf(t) <=> \E i \in 1 .. Len(t) : t[i] = e /\ e.kind \in EntryKinds
    BY <1>1, EntriesAt, Zenon
<1>7. \A e : e \in EntriesOf(u) <=> e \in EntriesOf(s) \/ e \in EntriesOf(t)
    BY <1>3, <1>4, <1>5, <1>6
<1>8. /\ Damaged(u) = {} <=> \A i \in 1 .. Len(u) : u[i].kind \notin Damage
      /\ Damaged(s) = {} <=> \A i \in 1 .. Len(s) : s[i].kind \notin Damage
      /\ Damaged(t) = {} <=> \A i \in 1 .. Len(t) : t[i].kind \notin Damage
    BY <1>1, EntriesAt, Zenon
<1>9. Damaged(u) = {} <=> Damaged(s) = {} /\ Damaged(t) = {}
    BY <1>3, <1>4, <1>5, <1>8
<1>10. QED
    BY <1>7, <1>9 DEF u

LEMMA EntriesAppend ==
    ASSUME NEW S, NEW s \in Seq(S), NEW e \in S, e.kind \in EntryKinds
    PROVE  EntriesOf(Append(s, e)) = EntriesOf(s) \cup {e}
<1> DEFINE u == Append(s, e)
<1>1. /\ u \in Seq(S) /\ Len(u) = Len(s) + 1
      /\ \A i \in 1 .. Len(s) : u[i] = s[i]
      /\ u[Len(s) + 1] = e
    BY AppendProperties
<1>2. Len(s) \in Nat
    BY LenProperties
<1> HIDE DEF u
<1>3. \A i \in 1 .. Len(u) : i \in 1 .. Len(s) \/ i = Len(s) + 1
    BY <1>1, <1>2
<1>4. \A i \in 1 .. Len(s) : i \in 1 .. Len(u)
    BY <1>1, <1>2
<1>5. Len(s) + 1 \in 1 .. Len(u)
    BY <1>1, <1>2
<1>6. EntriesOf(u) = EntriesOf(s) \cup {e}
    BY <1>1, <1>3, <1>4, <1>5, EntriesAt
<1>7. QED
    BY <1>6 DEF u
-----------------------------------------------------------------------------
(* What a file holds, the last id, the labels *)

LEMMA LoadIs ==
    ASSUME NEW n \in Nat, NEW lines \in Seq(LineOf(n))
    PROVE  /\ Load(lines) \in Seq(Entry(n))
           /\ Load(lines) # <<>> <=> Begins(lines)
           /\ Load(lines) # <<>> =>
                 /\ Load(lines)[1] = Header
                 /\ EntriesOf(Load(lines)) = EntriesOf(lines)
                 /\ Damaged(lines) = {} => Load(lines) = lines
<1> DEFINE w == Without(lines, Damage)
<1>1. w \in Seq(LineOf(n)) /\ Sieved(w, lines, Damage, Len(lines))
    BY WithoutSieves
<1>2. DOMAIN lines = 1 .. Len(lines) /\ Len(lines) \in Nat /\ Len(w) \in Nat /\ DOMAIN w = 1 .. Len(w)
    BY <1>1, LenProperties
<1>3. Load(lines) = IF w # <<>> /\ Head(w).kind = "session" THEN w ELSE <<>>
    BY DEF Load
<1> HIDE DEF w
<1>4. \A j \in 1 .. Len(w) : w[j] \in Entry(n) /\ \E i \in 1 .. Len(lines) : lines[i] = w[j]
  <2>1. \A j \in 1 .. Len(w) : w[j] \in LineOf(n)
      BY <1>1, ElementOfSeq
  <2>2. QED
      BY <2>1, <1>1, EntryIs DEF Sieved
<1>5. w \in Seq(Entry(n))
    BY <1>1, <1>2, <1>4, SeqDef
<1>6. Load(lines) \in Seq(Entry(n))
    BY <1>3, <1>5, EmptySeq
<1>7. w # <<>> => Head(w) = w[1] /\ 1 \in 1 .. Len(w)
    BY <1>1, <1>2
<1>8. ASSUME Begins(lines) PROVE w # <<>> /\ Head(w).kind = "session"
  <2>1. PICK i \in 1 .. Len(lines) : /\ lines[i].kind = "session"
                                     /\ \A j \in 1 .. i - 1 : lines[j].kind \in Damage
      BY <1>8, <1>2 DEF Begins
  <2>2. lines[i].kind \notin Damage
      BY <2>1 DEF Damage
  <2>3. \E j \in 1 .. Len(w) : w[j] = lines[i]
      BY <2>2, <1>1 DEF Sieved
  <2>4. w # <<>>
      BY <2>3, <1>2
  <2>5. PICK k \in 1 .. Len(lines) : /\ lines[k] = w[1] /\ lines[k].kind \notin Damage
                                     /\ \A j \in 1 .. k - 1 : lines[j].kind \in Damage
      BY <2>4, <1>1 DEF Sieved
  <2>6. ~(k \in 1 .. i - 1) /\ ~(i \in 1 .. k - 1)
      BY <2>1, <2>2, <2>5
  <2>7. k = i
      BY <2>6, <1>2
  <2>8. QED
      BY <2>1, <2>4, <2>5, <2>7, <1>7
<1>9. ASSUME w # <<>>, Head(w).kind = "session" PROVE Begins(lines)
  <2>1. PICK k \in 1 .. Len(lines) : /\ lines[k] = w[1]
                                     /\ \A j \in 1 .. k - 1 : lines[j].kind \in Damage
      BY <1>9, <1>1 DEF Sieved
  <2>2. QED
      BY <2>1, <1>2, <1>7, <1>9 DEF Begins
<1>10. Load(lines) # <<>> <=> Begins(lines)
    BY <1>3, <1>8, <1>9
<1>11. ASSUME Load(lines) # <<>>
       PROVE  /\ Load(lines)[1] = Header
              /\ EntriesOf(Load(lines)) = EntriesOf(lines)
              /\ Damaged(lines) = {} => Load(lines) = lines
  <2>1. Load(lines) = w /\ w # <<>> /\ w[1].kind = "session"
      BY <1>11, <1>3, <1>7
  <2>2. w[1] = Header
      BY <2>1, <1>4, <1>7 DEF Entry
  <2>3. /\ \A e : e \in EntriesOf(w) <=> \E i \in 1 .. Len(w) : w[i] = e /\ e.kind \in EntryKinds
        /\ \A e : e \in EntriesOf(lines) <=>
              \E i \in 1 .. Len(lines) : lines[i] = e /\ e.kind \in EntryKinds
      BY <1>1, EntriesAt, Zenon
  <2>4. \A k \in EntryKinds : k \notin Damage
      BY DEF EntryKinds, Damage, LabelKinds
  <2>5. \A i \in 1 .. Len(lines) : lines[i].kind \notin Damage => \E j \in 1 .. Len(w) : w[j] = lines[i]
      BY <1>1 DEF Sieved
  <2>6. \A e : e \in EntriesOf(w) <=> e \in EntriesOf(lines)
      BY <2>3, <2>4, <2>5, <1>4
  <2>7. ASSUME Damaged(lines) = {} PROVE w = lines
    <3>1. \A i \in 1 .. Len(lines) : lines[i].kind \notin Damage
        BY <2>7, EntriesAt, Zenon
    <3>2. Len(w) = Len(lines) /\ \A i \in 1 .. Len(lines) : w[i] = lines[i]
        BY <3>1, <1>1 DEF Sieved
    <3>3. QED
        BY <3>2, <1>1, SeqEqual
  <2>8. QED
      BY <2>1, <2>2, <2>6, <2>7
<1>12. QED
    BY <1>6, <1>10, <1>11

LEMMA LastIdIs ==
    ASSUME NEW n \in Nat \ {0}, NEW s \in Seq(Entry(n))
    PROVE  LastId(s) \in 0 .. n - 1
<1> DEFINE w == Without(s, {"session"})
<1>1. w \in Seq(Entry(n)) /\ Sieved(w, s, {"session"}, Len(s))
    BY WithoutSieves
<1>2. LastId(s) = IF w = <<>> THEN 0 ELSE w[Len(w)].id
    BY DEF LastId, Last
<1> HIDE DEF w
<1>3. CASE w = <<>>
    BY <1>3, <1>2
<1>4. CASE w # <<>>
  <2>1. Len(w) \in 1 .. Len(w)
      BY <1>4, <1>1, EmptySeq
  <2>2. w[Len(w)] \in Entry(n) /\ w[Len(w)].kind # "session"
    <3>1. w[Len(w)] \in Entry(n)
        BY <1>1, <2>1, ElementOfSeq
    <3>2. \A j \in 1 .. Len(w) : w[j].kind # "session"
        BY <1>1 DEF Sieved
    <3>3. QED
        BY <3>1, <3>2, <2>1
  <2>3. w[Len(w)].kind \in EntryKinds
      BY <2>2 DEF Entry, FileEntry
  <2>4. w[Len(w)].id \in 1 .. n - 1
      BY <2>2, <2>3 DEF Entry
  <2>5. QED
      BY <1>2, <1>4, <2>4
<1>5. QED
    BY <1>3, <1>4
(* A new label, a removed one and any other entry *)
LEMMA LabelsAppend ==
    ASSUME NEW n \in Nat, NEW s \in Seq(Entry(n)), NEW e \in Entry(n)
    PROVE  LabelsOf(Append(s, e)) =
              IF e.kind = "label" THEN LabelsOf(s) \cup {e.target}
              ELSE IF e.kind = "unlabel" THEN LabelsOf(s) \ {e.target} ELSE LabelsOf(s)
<1> DEFINE u == Append(s, e)
<1>1. /\ u \in Seq(Entry(n)) /\ Len(u) = Len(s) + 1
      /\ \A i \in 1 .. Len(s) : u[i] = s[i]
      /\ u[Len(s) + 1] = e
    BY AppendProperties
<1>2. Len(s) \in Nat /\ DOMAIN s = 1 .. Len(s) /\ DOMAIN u = 1 .. Len(s) + 1
    BY <1>1, LenProperties
<1> HIDE DEF u
<1>3. e.target \in Ids /\ (e.kind \in LabelKinds => e.target > 0) /\ (e.kind \notin LabelKinds => e.target = 0)
    BY DEF Entry, FileEntry
<1>4. \A i \in 1 .. Len(s) : s[i].kind = "label" => s[i].target # 0
  <2>1. \A i \in 1 .. Len(s) : s[i] \in Entry(n)
      BY ElementOfSeq
  <2>2. QED
      BY <2>1, SessionAssumption DEF Entry, LabelKinds, FileEntry, Ids
<1>5. ASSUME NEW t \in Ids
      PROVE  t \in LabelsOf(u) <=>
                \/ e.kind = "label" /\ e.target = t
                \/ e.target # t /\ t \in LabelsOf(s)
  <2>1. ASSUME e.kind = "label", e.target = t PROVE t \in LabelsOf(u)
    <3>1. Len(s) + 1 \in DOMAIN u /\ \A j \in DOMAIN u : ~(j > Len(s) + 1)
        BY <1>2
    <3>2. QED
        BY <2>1, <3>1, <1>1 DEF LabelsOf
  <2>2. ASSUME e.target # t, t \in LabelsOf(s) PROVE t \in LabelsOf(u)
    <3>1. PICK i \in 1 .. Len(s) : /\ s[i].kind = "label" /\ s[i].target = t
                                   /\ \A j \in 1 .. Len(s) : j > i => s[j].target # t
        BY <2>2, <1>2 DEF LabelsOf
    <3>2. i \in DOMAIN u
        BY <1>2
    <3>3. \A j \in DOMAIN u : j \in 1 .. Len(s) \/ j = Len(s) + 1
        BY <1>2
    <3>4. \A j \in DOMAIN u : j > i => u[j].target # t
        BY <3>1, <3>3, <1>1, <2>2
    <3>5. QED
        BY <3>1, <3>2, <3>4, <1>1 DEF LabelsOf
  <2>3. ASSUME t \in LabelsOf(u)
        PROVE  \/ e.kind = "label" /\ e.target = t
               \/ e.target # t /\ t \in LabelsOf(s)
    <3>1. PICK i \in DOMAIN u : /\ u[i].kind = "label" /\ u[i].target = t
                                /\ \A j \in DOMAIN u : j > i => u[j].target # t
        BY <2>3 DEF LabelsOf
    <3>2. CASE i = Len(s) + 1
        BY <3>1, <3>2, <1>1
    <3>3. CASE i # Len(s) + 1
      <4>1. i \in 1 .. Len(s) /\ Len(s) + 1 \in DOMAIN u /\ Len(s) + 1 > i
          BY <3>3, <1>2
      <4>2. e.target # t
          BY <4>1, <3>1, <1>1
      <4>3. \A j \in 1 .. Len(s) : j \in DOMAIN u
          BY <1>2
      <4>4. \A j \in 1 .. Len(s) : j > i => s[j].target # t
          BY <3>1, <4>3, <1>1
      <4>5. s[i].kind = "label" /\ s[i].target = t
          BY <4>1, <3>1, <1>1
      <4>6. QED
          BY <4>1, <4>2, <4>4, <4>5, <1>2 DEF LabelsOf
    <3>4. QED
        BY <3>2, <3>3
  <2>4. QED
      BY <2>1, <2>2, <2>3
<1>6. 0 \notin LabelsOf(s)
    BY <1>2, <1>4 DEF LabelsOf
<1>7. LabelsOf(s) \subseteq Ids /\ LabelsOf(u) \subseteq Ids
    BY DEF LabelsOf
<1>8. CASE e.kind = "label"
    BY <1>8, <1>3, <1>5, <1>7 DEF u
<1>9. CASE e.kind = "unlabel"
    BY <1>9, <1>3, <1>5, <1>7 DEF u
<1>10. CASE e.kind \notin LabelKinds
  <2>1. e.target = 0 /\ e.kind # "label" /\ e.kind # "unlabel"
      BY <1>10, <1>3 DEF LabelKinds
  <2>2. \A t \in Ids : t \in LabelsOf(u) <=> t \in LabelsOf(s)
      BY <2>1, <1>5, <1>6
  <2>3. QED
      BY <2>1, <2>2, <1>7 DEF u
<1>11. QED
    BY <1>8, <1>9, <1>10 DEF LabelKinds

(* t ends s. *)
EndsWith(s, t) ==
    \E k \in 0 .. Len(s) : Len(s) = k + Len(t) /\ \A i \in 1 .. Len(t) : s[k + i] = t[i]

(* What precedes adds no label if the entries are the same. *)
LEMMA LabelsEnd ==
    ASSUME NEW S, NEW s \in Seq(S), NEW t \in Seq(S), EndsWith(s, t),
           EntriesOf(s) \subseteq EntriesOf(t)
    PROVE  LabelsOf(s) = LabelsOf(t)
<1>1. /\ Len(s) \in Nat /\ Len(t) \in Nat
      /\ DOMAIN s = 1 .. Len(s) /\ DOMAIN t = 1 .. Len(t)
    BY LenProperties
<1>2. PICK k \in 0 .. Len(s) : Len(s) = k + Len(t) /\ \A i \in 1 .. Len(t) : s[k + i] = t[i]
    BY DEF EndsWith
<1>3. \A i \in 1 .. Len(t) : k + i \in 1 .. Len(s)
    BY <1>1, <1>2
<1>4. ASSUME NEW x \in LabelsOf(t) PROVE x \in LabelsOf(s)
  <2>1. PICK i \in 1 .. Len(t) : /\ t[i].kind = "label" /\ t[i].target = x
                                 /\ \A j \in 1 .. Len(t) : j > i => t[j].target # x
      BY <1>1 DEF LabelsOf
  <2>2. ASSUME NEW j \in 1 .. Len(s), j > k + i PROVE s[j].target # x
    <3>1. j - k \in 1 .. Len(t) /\ j - k > i /\ k + (j - k) = j
        BY <2>2, <1>1, <1>2
    <3>2. s[k + (j - k)] = t[j - k] /\ t[j - k].target # x
        BY <3>1, <2>1, <1>2
    <3>3. QED
        BY <3>1, <3>2
  <2>3. s[k + i].kind = "label" /\ s[k + i].target = x /\ k + i \in DOMAIN s
      BY <2>1, <1>1, <1>2, <1>3
  <2>4. QED
      BY <2>2, <2>3, <1>1 DEF LabelsOf
<1>5. ASSUME NEW x \in LabelsOf(s) PROVE x \in LabelsOf(t)
  <2>1. PICK i \in 1 .. Len(s) : /\ s[i].kind = "label" /\ s[i].target = x
                                 /\ \A j \in 1 .. Len(s) : j > i => s[j].target # x
      BY <1>1 DEF LabelsOf
  <2>2. s[i] \in EntriesOf(s)
      BY <2>1, EntriesAt DEF EntryKinds, LabelKinds
  <2>3. PICK m \in 1 .. Len(t) : t[m] = s[i]
      BY <2>2, EntriesAt
  <2>4. ~(k + m > i)
      BY <2>1, <2>3, <1>2, <1>3
  <2>5. i - k \in 1 .. Len(t) /\ k + (i - k) = i
      BY <2>4, <1>1, <1>2
  <2>6. t[i - k] = s[i]
      BY <2>5, <1>2
  <2>7. ASSUME NEW j \in 1 .. Len(t), j > i - k PROVE t[j].target # x
    <3>1. k + j > i
        BY <2>7, <1>1, <1>2
    <3>2. s[k + j].target # x
        BY <3>1, <2>1, <1>3
    <3>3. QED
        BY <3>2, <1>2
  <2>8. QED
      BY <2>1, <2>5, <2>6, <2>7, <1>1 DEF LabelsOf
<1>6. QED
    BY <1>4, <1>5
-----------------------------------------------------------------------------
(* The path to an entry: it ends, as every parent is older. *)

LEMMA BranchIs ==
    ASSUME NEW n \in Nat, NEW s \in Seq(Entry(n)), NEW tip \in Ids
    PROVE  Branch(s, tip) \in Seq(Entry(n))
<1> DEFINE entry(i) == CHOOSE e \in EntriesOf(s) : e.id = i
           next(f, i) == IF i \notin IdsOf(s) THEN <<>> ELSE Append(f[entry(i).parent], entry(i))
           path == CHOOSE f : f = [i \in Ids |-> next(f, i)]
<1>1. Branch(s, tip) = path[tip]
    BY DEF Branch
<1>2. MaxId \in Nat /\ Ids = 0 .. MaxId
    BY SessionAssumption DEF Ids
<1>3. \A e \in EntriesOf(s) : e \in Entry(n) /\ e.kind \in EntryKinds
  <2>1. \A i \in 1 .. Len(s) : s[i] \in Entry(n)
      BY ElementOfSeq
  <2>2. QED
      BY <2>1, EntriesAt
<1>4. \A i \in IdsOf(s) : entry(i) \in EntriesOf(s) /\ entry(i).id = i
    BY DEF IdsOf
<1> HIDE DEF entry
<1>5. ASSUME NEW i \in IdsOf(s)
      PROVE  entry(i) \in Entry(n) /\ i \in Nat /\ entry(i).parent \in 0 .. i - 1
  <2>1. entry(i) \in Entry(n) /\ entry(i).kind \in EntryKinds /\ entry(i).id = i
      BY <1>3, <1>4
  <2>2. i \in Ids /\ entry(i).parent \in Ids /\ entry(i).parent < i
      BY <2>1 DEF Entry, FileEntry
  <2>3. QED
      BY <2>1, <2>2, <1>2
<1> HIDE DEF next, path
<1> DEFINE Follows(f, m) == \A i \in 0 .. m : f[i] = next(f, i)
           T == {m \in Nat : \E f \in [0 .. m -> Seq(Entry(n))] : Follows(f, m)}
<1>6. ASSUME NEW m \in Nat, NEW f, NEW g, \A i \in 0 .. m - 1 : f[i] = g[i]
      PROVE  next(f, m) = next(g, m)
    BY <1>6, <1>5 DEF next
<1>7. ASSUME NEW m \in Nat, NEW f, \A i \in 0 .. m - 1 : f[i] \in Seq(Entry(n))
      PROVE  next(f, m) \in Seq(Entry(n))
  <2>1. CASE m \notin IdsOf(s)
      BY <2>1, EmptySeq DEF next
  <2>2. CASE m \in IdsOf(s)
    <3>1. entry(m) \in Entry(n) /\ f[entry(m).parent] \in Seq(Entry(n))
        BY <2>2, <1>5, <1>7
    <3>2. QED
        BY <2>2, <3>1, AppendProperties DEF next
  <2>3. QED
      BY <2>1, <2>2
<1>8. 0 \in T
  <2> DEFINE none == [i \in {} |-> <<>>]
             f == [i \in 0 .. 0 |-> next(none, 0)]
  <2>1. next(none, 0) \in Seq(Entry(n))
      BY <1>7
  <2>2. \A i \in 0 .. 0 - 1 : none[i] = f[i]
      OBVIOUS
  <2>3. next(f, 0) = next(none, 0)
      BY <2>2, <1>6
  <2>4. f \in [0 .. 0 -> Seq(Entry(n))] /\ f[0] = next(f, 0) /\ \A i \in 0 .. 0 : i = 0
      BY <2>1, <2>3
  <2> HIDE DEF f
  <2>5. QED
      BY <2>4
<1>9. ASSUME NEW m \in Nat, m \in T PROVE m + 1 \in T
  <2>1. PICK f \in [0 .. m -> Seq(Entry(n))] : Follows(f, m)
      BY <1>9
  <2> DEFINE g == [i \in 0 .. m + 1 |-> IF i = m + 1 THEN next(f, m + 1) ELSE f[i]]
  <2>2. next(f, m + 1) \in Seq(Entry(n))
      BY <1>7
  <2>3. g \in [0 .. m + 1 -> Seq(Entry(n))]
      BY <2>2
  <2>4. /\ g[m + 1] = next(f, m + 1)
        /\ \A i \in 0 .. m : g[i] = f[i]
        /\ \A i \in 0 .. m + 1 : i = m + 1 \/ i \in 0 .. m
      OBVIOUS
  <2> HIDE DEF g
  <2>5. next(g, m + 1) = next(f, m + 1)
    <3>1. m + 1 \in Nat /\ (m + 1) - 1 = m
        OBVIOUS
    <3>2. \A i \in 0 .. (m + 1) - 1 : g[i] = f[i]
        BY <3>1, <2>4
    <3>3. QED
        BY <3>1, <3>2, <1>6
  <2>6. \A i \in 0 .. m : next(g, i) = next(f, i)
    <3>1. SUFFICES ASSUME NEW i \in 0 .. m PROVE next(g, i) = next(f, i)
        OBVIOUS
    <3>2. i \in Nat /\ \A j \in 0 .. i - 1 : j \in 0 .. m
        OBVIOUS
    <3>3. \A j \in 0 .. i - 1 : g[j] = f[j]
        BY <3>2, <2>4, Zenon
    <3>4. QED
        BY <3>2, <3>3, <1>6
  <2>7. Follows(g, m + 1)
    <3>1. g[m + 1] = next(g, m + 1)
        BY <2>4, <2>5
    <3>2. \A i \in 0 .. m : g[i] = next(g, i)
        BY <2>1, <2>4, <2>6
    <3>3. ASSUME NEW i \in 0 .. m + 1 PROVE g[i] = next(g, i)
      <4>1. CASE i = m + 1
          BY <4>1, <3>1, Zenon
      <4>2. CASE i \in 0 .. m
          BY <4>2, <3>2, Zenon
      <4>3. QED
          BY <4>1, <4>2, <2>4
    <3>4. QED
        BY <3>3, Zenon
  <2> HIDE DEF Follows
  <2>8. m + 1 \in Nat
      OBVIOUS
  <2>9. QED
      BY <2>3, <2>7, <2>8, Zenon
<1> HIDE DEF T
<1>10. MaxId \in T
    BY <1>2, <1>8, <1>9, Induct
<1>11. PICK f \in [Ids -> Seq(Entry(n))] : \A i \in Ids : f[i] = next(f, i)
    BY <1>2, <1>10 DEF T
<1>12. f = [i \in Ids |-> next(f, i)]
    BY <1>11
<1>13. path = [i \in Ids |-> next(path, i)]
    BY <1>12 DEF path
<1>14. \A i \in Ids : path[i] = next(path, i)
    BY <1>13
<1> DEFINE U == {m \in Nat : m <= MaxId => \A i \in 0 .. m : path[i] \in Seq(Entry(n))}
<1>15. 0 \in U
  <2>1. path[0] = next(path, 0) /\ next(path, 0) \in Seq(Entry(n))
      BY <1>14, <1>7, <1>2
  <2>2. QED
      BY <2>1
<1>16. ASSUME NEW m \in Nat, m \in U PROVE m + 1 \in U
  <2> SUFFICES ASSUME m + 1 <= MaxId PROVE \A i \in 0 .. m + 1 : path[i] \in Seq(Entry(n))
      OBVIOUS
  <2>1. \A i \in 0 .. m : path[i] \in Seq(Entry(n))
      BY <1>16, <1>2
  <2>2. path[m + 1] = next(path, m + 1) /\ next(path, m + 1) \in Seq(Entry(n))
      BY <2>1, <1>14, <1>7, <1>2
  <2>3. QED
      BY <2>1, <2>2
<1> HIDE DEF U
<1>17. MaxId \in U
    BY <1>2, <1>15, <1>16, Induct
<1>18. QED
    BY <1>1, <1>2, <1>17 DEF U
-----------------------------------------------------------------------------
(* What a write does to a file *)

LEMMA PrefixBy ==
    ASSUME NEW S, NEW s \in Seq(S), NEW t \in Seq(S), Len(s) <= Len(t),
           \A i \in 1 .. Len(s) : t[i] = s[i]
    PROVE  IsPrefix(s, t)
<1> DEFINE u == SubSeq(t, 1, Len(s))
<1>1. Len(s) \in Nat /\ Len(t) \in Nat
    BY LenProperties
<1>2. \A i \in 1 .. Len(s) : t[i] \in S
    BY <1>1, ElementOfSeq
<1>3. u \in Seq(S) /\ Len(u) = Len(s) /\ \A i \in 1 .. Len(s) : u[i] = t[i]
    BY <1>1, <1>2, SubSeqProperties
<1> HIDE DEF u
<1>4. u = s
    BY <1>3, SeqEqual
<1>5. SubSeq(s, 1, Len(s)) = s
    BY SubSeqFull
<1>6. QED
    BY <1>4, <1>5 DEF IsPrefix, u

(* The lines new follow the others, or the first of them joins a torn one. *)
LEMMA PutFollows ==
    ASSUME NEW S, NEW lines \in Seq(S), NEW new \in Seq(S),
           new = <<>> \/ lines = <<>> \/ Last(lines) # Torn
    PROVE  /\ PutLines(lines, new) = lines \o new
           /\ PutLines(lines, new) \in Seq(S)
           /\ IsPrefix(lines, PutLines(lines, new))
<1>1. PutLines(lines, new) = lines \o new
    BY DEF PutLines
<1> DEFINE u == lines \o new
<1>2. /\ u \in Seq(S) /\ Len(u) = Len(lines) + Len(new)
      /\ \A i \in 1 .. Len(lines) + Len(new) :
            u[i] = IF i <= Len(lines) THEN lines[i] ELSE new[i - Len(lines)]
    BY ConcatProperties
<1>3. Len(lines) \in Nat /\ Len(new) \in Nat
    BY LenProperties
<1> HIDE DEF u
<1>4. Len(lines) <= Len(u) /\ \A i \in 1 .. Len(lines) : u[i] = lines[i]
    BY <1>2, <1>3
<1>5. IsPrefix(lines, u)
    BY <1>2, <1>4, PrefixBy
<1>6. QED
    BY <1>1, <1>2, <1>5 DEF u

LEMMA PutJoins ==
    ASSUME NEW S, NEW lines \in Seq(S), NEW new \in Seq(S), Torn \in S, Garbage \in S,
           new # <<>>, lines # <<>>, Last(lines) = Torn
    PROVE  /\ PutLines(lines, new) \in Seq(S)
           /\ Len(PutLines(lines, new)) = Len(lines) - 1 + Len(new)
           /\ \A i \in 1 .. Len(lines) - 1 : PutLines(lines, new)[i] = lines[i]
           /\ PutLines(lines, new)[Len(lines)] = IF Head(new) = Torn THEN Torn ELSE Garbage
           /\ \A j \in 2 .. Len(new) : PutLines(lines, new)[Len(lines) - 1 + j] = new[j]
           /\ IsPrefix(Front(lines), PutLines(lines, new))
<1> DEFINE m == Len(lines)
           g == IF Head(new) = Torn THEN Torn ELSE Garbage
           f == Front(lines)
           h == f \o <<g>>
           t == Tail(new)
           u == h \o t
<1>1. PutLines(lines, new) = u
    BY DEF PutLines
<1>2. m \in Nat \ {0} /\ Len(new) \in Nat \ {0} /\ g \in S /\ lines[m] = Torn
    BY EmptySeq, LenProperties DEF Last
<1>3. f \in Seq(S) /\ Len(f) = m - 1 /\ \A i \in 1 .. m - 1 : f[i] = lines[i]
  <2> DEFINE k == m - 1
             q == SubSeq(lines, 1, k)
  <2>1. k \in Nat /\ k < m
      BY <1>2
  <2> HIDE DEF k
  <2>2. \A i \in 1 .. k : lines[i] \in S
      BY <1>2, <2>1, ElementOfSeq
  <2>3. q \in Seq(S) /\ Len(q) = k /\ \A i \in 1 .. k : q[i] = lines[i]
      BY <2>1, <2>2, SubSeqProperties
  <2>4. QED
      BY <2>3 DEF Front, k
<1>4. <<g>> \in Seq(S) /\ Len(<<g>>) = 1 /\ <<g>>[1] = g
    BY <1>2
<1>5. /\ t \in Seq(S) /\ Len(t) = Len(new) - 1
      /\ \A i \in 1 .. Len(new) - 1 : t[i] = new[i + 1]
  <2>1. t \in Seq(S) /\ Len(t) = Len(new) - 1 /\ \A i \in 1 .. Len(t) : t[i] = new[i + 1]
      BY HeadTailProperties
  <2>2. QED
      BY <2>1
<1> DEFINE one == <<g>>
<1> HIDE DEF f, t, g, m, one
<1>6. /\ h \in Seq(S) /\ Len(h) = m
      /\ \A i \in 1 .. m - 1 : h[i] = lines[i]
      /\ h[m] = g
  <2>1. one \in Seq(S) /\ Len(one) = 1 /\ one[1] = g /\ h = f \o one
      BY <1>4 DEF one
  <2>2. /\ h \in Seq(S) /\ Len(h) = Len(f) + Len(one)
        /\ \A i \in 1 .. Len(f) + Len(one) : h[i] = IF i <= Len(f) THEN f[i] ELSE one[i - Len(f)]
      BY <1>3, <2>1, ConcatProperties
  <2> HIDE DEF h
  <2>3. QED
      BY <1>2, <1>3, <2>1, <2>2
<1> HIDE DEF h
<1>7. /\ u \in Seq(S) /\ Len(u) = m + Len(t)
      /\ \A i \in 1 .. m + Len(t) : u[i] = IF i <= m THEN h[i] ELSE t[i - m]
    BY <1>5, <1>6, ConcatProperties
<1> HIDE DEF u
<1>8. Len(u) = m - 1 + Len(new)
    BY <1>2, <1>5, <1>7
<1>9. ASSUME NEW i \in 1 .. m - 1 PROVE u[i] = lines[i]
  <2>1. i \in 1 .. m + Len(t) /\ i <= m
      BY <1>2, <1>5
  <2>2. QED
      BY <2>1, <1>6, <1>7
<1>10. u[m] = g
    BY <1>2, <1>5, <1>6, <1>7
<1>11. ASSUME NEW j \in 2 .. Len(new) PROVE u[m - 1 + j] = new[j]
  <2>1. m - 1 + j \in 1 .. m + Len(t) /\ ~(m - 1 + j <= m) /\ (m - 1 + j) - m = j - 1
      BY <1>2, <1>5
  <2>2. j - 1 \in 1 .. Len(new) - 1 /\ (j - 1) + 1 = j
      BY <1>2
  <2>3. QED
      BY <2>1, <2>2, <1>5, <1>7
<1>12. IsPrefix(f, u)
  <2>1. Len(f) <= Len(u)
      BY <1>2, <1>3, <1>8
  <2>2. \A i \in 1 .. Len(f) : u[i] = f[i]
      BY <1>3, <1>9
  <2>3. QED
      BY <2>1, <2>2, <1>3, <1>7, PrefixBy
<1>13. QED
    BY <1>1, <1>7, <1>8, <1>9, <1>10, <1>11, <1>12 DEF m, g, f
(* The entries of the file grow by those written, but for one that joins a *)
(* torn line.                                                              *)
LEMMA PutFollowsEntries ==
    ASSUME NEW n \in Nat, NEW lines \in Seq(LineOf(n)), NEW new \in Seq(LineOf(n)),
           new # <<>>, lines = <<>> \/ Last(lines) # Torn
    PROVE  /\ EntriesOf(PutLines(lines, new)) = EntriesOf(lines) \cup EntriesOf(new)
           /\ Damaged(PutLines(lines, new)) = {} <=> Damaged(lines) = {} /\ Damaged(new) = {}
           /\ Last(PutLines(lines, new)) = Last(new)
           /\ Begins(lines) => Begins(PutLines(lines, new))
           /\ lines = <<>> /\ Begins(new) => Begins(PutLines(lines, new))
           /\ Len(PutLines(lines, new)) = Len(lines) + Len(new)
           /\ \A i \in 1 .. Len(lines) : PutLines(lines, new)[i] = lines[i]
           /\ \A i \in 1 .. Len(new) : PutLines(lines, new)[Len(lines) + i] = new[i]
<1> DEFINE u == lines \o new
<1>1. PutLines(lines, new) = u
    BY PutFollows
<1>2. /\ EntriesOf(u) = EntriesOf(lines) \cup EntriesOf(new)
      /\ Damaged(u) = {} <=> Damaged(lines) = {} /\ Damaged(new) = {}
    BY EntriesConcat
<1>3. /\ u \in Seq(LineOf(n)) /\ Len(u) = Len(lines) + Len(new)
      /\ \A i \in 1 .. Len(lines) + Len(new) :
            u[i] = IF i <= Len(lines) THEN lines[i] ELSE new[i - Len(lines)]
    BY ConcatProperties
<1>4. /\ Len(lines) \in Nat /\ Len(new) \in Nat \ {0}
      /\ DOMAIN lines = 1 .. Len(lines) /\ DOMAIN u = 1 .. Len(u)
    BY <1>3, LenProperties, EmptySeq
<1> HIDE DEF u
<1>5. ASSUME NEW i \in 1 .. Len(new) PROVE u[Len(lines) + i] = new[i]
  <2>1. /\ Len(lines) + i \in 1 .. Len(lines) + Len(new) /\ ~(Len(lines) + i <= Len(lines))
        /\ (Len(lines) + i) - Len(lines) = i
      BY <1>4
  <2>2. QED
      BY <2>1, <1>3
<1>6. Last(u) = Last(new)
    BY <1>3, <1>4, <1>5 DEF Last
<1>7. \A i \in 1 .. Len(lines) : i \in DOMAIN u /\ u[i] = lines[i]
    BY <1>3, <1>4
<1>8. ASSUME Begins(lines) PROVE Begins(u)
  <2>1. PICK i \in 1 .. Len(lines) : /\ lines[i].kind = "session"
                                     /\ \A j \in 1 .. i - 1 : lines[j].kind \in Damage
      BY <1>8, <1>4 DEF Begins
  <2>2. \A j \in 1 .. i - 1 : j \in 1 .. Len(lines)
      BY <1>4
  <2>3. QED
      BY <2>1, <2>2, <1>7 DEF Begins
<1>9. ASSUME lines = <<>>, Begins(new) PROVE Begins(u)
    BY <1>9, ConcatEmptySeq DEF u
<1>10. QED
    BY <1>1, <1>2, <1>3, <1>5, <1>6, <1>7, <1>8, <1>9

LEMMA PutJoinsEntries ==
    ASSUME NEW n \in Nat, NEW lines \in Seq(LineOf(n)), NEW new \in Seq(LineOf(n)),
           new # <<>>, lines # <<>>, Last(lines) = Torn
    PROVE  LET u == PutLines(lines, new)
           IN  /\ EntriesOf(lines) \subseteq EntriesOf(u)
               /\ EntriesOf(u) \subseteq EntriesOf(lines) \cup EntriesOf(new)
               /\ EntriesOf(new) \subseteq EntriesOf(u) \cup {new[1]}
               /\ Damaged(u) # {}
               /\ Last(new) # Torn => Last(u) # Torn
               /\ Begins(lines) => Begins(u)
<1> DEFINE m == Len(lines)
           u == PutLines(lines, new)
<1>1. /\ u \in Seq(LineOf(n))
      /\ Len(u) = m - 1 + Len(new)
      /\ \A i \in 1 .. m - 1 : u[i] = lines[i]
      /\ u[m] = IF Head(new) = Torn THEN Torn ELSE Garbage
      /\ \A j \in 2 .. Len(new) : u[m - 1 + j] = new[j]
  <2> DEFINE S == LineOf(n)
  <2>1. Torn \in S /\ Garbage \in S /\ lines \in Seq(S) /\ new \in Seq(S)
      BY EntryIs
  <2> HIDE DEF S
  <2>2. /\ PutLines(lines, new) \in Seq(S)
        /\ Len(PutLines(lines, new)) = Len(lines) - 1 + Len(new)
        /\ \A i \in 1 .. Len(lines) - 1 : PutLines(lines, new)[i] = lines[i]
        /\ PutLines(lines, new)[Len(lines)] = IF Head(new) = Torn THEN Torn ELSE Garbage
        /\ \A j \in 2 .. Len(new) : PutLines(lines, new)[Len(lines) - 1 + j] = new[j]
    <3>1. PutLines(lines, new) \in Seq(S)
        BY <2>1, PutJoins
    <3>2. Len(PutLines(lines, new)) = Len(lines) - 1 + Len(new)
        BY <2>1, PutJoins, Zenon
    <3>3. \A i \in 1 .. Len(lines) - 1 : PutLines(lines, new)[i] = lines[i]
        BY <2>1, PutJoins, Zenon
    <3>4. PutLines(lines, new)[Len(lines)] = IF Head(new) = Torn THEN Torn ELSE Garbage
        BY <2>1, PutJoins, Zenon
    <3>5. \A j \in 2 .. Len(new) : PutLines(lines, new)[Len(lines) - 1 + j] = new[j]
        BY <2>1, PutJoins, SMT
    <3>6. QED
        BY <3>1, <3>2, <3>3, <3>4, <3>5
  <2>3. QED
      BY <2>2 DEF S
<1>2. m \in Nat \ {0} /\ Len(new) \in Nat \ {0} /\ DOMAIN lines = 1 .. m /\ DOMAIN u = 1 .. Len(u)
    BY <1>1, EmptySeq, LenProperties
<1>3. lines[m] = Torn /\ Head(new) = new[1]
    BY <1>2 DEF Last
<1> HIDE DEF u, m
<1>4. m \in 1 .. Len(u) /\ u[m].kind \in Damage
    BY <1>1, <1>2, EntryIs
<1>5. Damaged(u) # {}
    BY <1>1, <1>4, EntriesAt
<1>6. /\ \A e : e \in EntriesOf(u) <=> \E i \in 1 .. Len(u) : u[i] = e /\ e.kind \in EntryKinds
      /\ \A e : e \in EntriesOf(lines) <=> \E i \in 1 .. m : lines[i] = e /\ e.kind \in EntryKinds
      /\ \A e : e \in EntriesOf(new) <=> \E i \in 1 .. Len(new) : new[i] = e /\ e.kind \in EntryKinds
    BY <1>1, EntriesAt, Zenon DEF m
<1>7. \A k \in EntryKinds : k \notin Damage
    BY DEF EntryKinds, Damage, LabelKinds
<1>8. \A i \in 1 .. m : i = m \/ (i \in 1 .. m - 1 /\ i \in 1 .. Len(u) /\ u[i] = lines[i])
    BY <1>1, <1>2
<1>9. ASSUME NEW e \in EntriesOf(lines) PROVE e \in EntriesOf(u)
  <2>1. PICK i \in 1 .. m : lines[i] = e /\ e.kind \in EntryKinds
      BY <1>6
  <2>2. i # m
      BY <2>1, <1>3, <1>7, EntryIs
  <2>3. QED
      BY <2>1, <2>2, <1>6, <1>8
<1>10. ASSUME NEW i \in 1 .. Len(u)
       PROVE  \/ i \in 1 .. m - 1 /\ i \in 1 .. m /\ u[i] = lines[i]
              \/ i = m
              \/ \E j \in 1 .. Len(new) : u[i] = new[j]
  <2>1. CASE i > m
    <3>1. i - m + 1 \in 2 .. Len(new) /\ i - m + 1 \in 1 .. Len(new) /\ m - 1 + (i - m + 1) = i
        BY <2>1, <1>1, <1>2
    <3>2. QED
        BY <3>1, <1>1
  <2>2. CASE ~(i > m)
      BY <2>2, <1>1, <1>2
  <2>3. QED
      BY <2>1, <2>2
<1>11. EntriesOf(u) \subseteq EntriesOf(lines) \cup EntriesOf(new)
    BY <1>4, <1>6, <1>7, <1>10
<1>12. ASSUME NEW e \in EntriesOf(new), e # new[1] PROVE e \in EntriesOf(u)
  <2>1. PICK j \in 1 .. Len(new) : new[j] = e /\ e.kind \in EntryKinds
      BY <1>6
  <2>2. j \in 2 .. Len(new) /\ m - 1 + j \in 1 .. Len(u)
      BY <2>1, <1>1, <1>2, <1>12
  <2>3. QED
      BY <2>1, <2>2, <1>1, <1>6
<1>13. ASSUME Last(new) # Torn PROVE Last(u) # Torn
  <2>1. CASE Len(new) = 1
    <3>1. Last(u) = u[m] /\ Head(new) # Torn
        BY <2>1, <1>1, <1>2, <1>3, <1>13 DEF Last
    <3>2. QED
        BY <3>1, <1>1 DEF Torn, Garbage, Mark
  <2>2. CASE Len(new) # 1
    <3>1. Len(new) \in Nat /\ Len(new) # 0
        BY <1>2
    <3>2. \A k \in Nat : k # 0 /\ k # 1 => k \in 2 .. k
        OBVIOUS
    <3>3. Len(new) \in 2 .. Len(new)
        BY <2>2, <3>1, <3>2, Zenon
    <3>4. u[m - 1 + Len(new)] = new[Len(new)]
        BY <3>3, <1>1
    <3>5. Last(u) = Last(new)
        BY <3>4, <1>1 DEF Last
    <3>6. QED
        BY <3>5, <1>13
  <2>3. QED
      BY <2>1, <2>2
<1>14. ASSUME Begins(lines) PROVE Begins(u)
  <2>1. PICK i \in 1 .. m : /\ lines[i].kind = "session"
                            /\ \A j \in 1 .. i - 1 : lines[j].kind \in Damage
      BY <1>14, <1>2 DEF Begins
  <2>2. lines[i].kind \notin Damage
      BY <2>1 DEF Damage
  <2>3. i # m
      BY <2>2, <1>3, EntryIs
  <2>4. i \in DOMAIN u /\ u[i] = lines[i] /\ \A j \in 1 .. i - 1 : u[j] = lines[j]
    <3>1. \A j \in 1 .. i - 1 : j \in 1 .. m - 1
        BY <1>2
    <3>2. QED
        BY <3>1, <2>3, <1>1, <1>2, <1>8
  <2>5. QED
      BY <2>1, <2>4 DEF Begins
<1>15. QED
    BY <1>5, <1>9, <1>11, <1>12, <1>13, <1>14 DEF u
-----------------------------------------------------------------------------
(* Types *)

(* Entries are made before nextId, a file that does not exist has no lines *)
(* and a session that is open begins with its header.                      *)
Shaped ==
    /\ fileEntries \in Seq(Entry(nextId))
    /\ leafId \in 0 .. nextId - 1
    /\ disk \in [Files -> Seq(LineOf(nextId))]
    /\ \A f \in Files \ onDisk : disk[f] = <<>>
    /\ up => sessionFile \in Files /\ fileEntries # <<>> /\ fileEntries[1] = Header
TypeInv == TypeOK /\ Shaped

LEMMA TypeInit == Init => TypeInv
<1> SUFFICES ASSUME Init PROVE TypeInv
    OBVIOUS
<1>1. /\ <<>> \in Seq(FileEntry) /\ <<>> \in Seq(Line) /\ <<>> \in Seq(Ids)
      /\ <<>> \in Seq(Entry(1)) /\ <<>> \in Seq(LineOf(1))
    BY EmptySeq
<1>2. MaxId \in Nat
    BY SessionAssumption
<1>3. nextId \in 1 .. MaxId + 1 /\ 0 \in 0 .. nextId - 1 /\ 0 \in Ids
    BY <1>2 DEF Init, Ids
<1>4. TypeOK
    BY <1>1, <1>3 DEF Init, TypeOK
<1>5. Shaped
    BY <1>1, <1>3 DEF Init, Shaped
<1>6. QED
    BY <1>4, <1>5 DEF TypeInv

(* What follows from the shape, for the parts of TypeOK *)
LEMMA ShapeTypes ==
    ASSUME NEW n \in 1 .. MaxId + 1
    PROVE  /\ Seq(Entry(n)) \subseteq Seq(FileEntry)
           /\ Seq(LineOf(n)) \subseteq Seq(Line)
           /\ Seq(Entry(n)) \subseteq Seq(LineOf(n))
           /\ 0 .. n - 1 \subseteq Ids
<1>1. Entry(n) \subseteq FileEntry /\ LineOf(n) \subseteq Line /\ Entry(n) \subseteq LineOf(n)
    BY DEF Entry, LineOf, Line
<1>2. MaxId \in Nat
    BY SessionAssumption
<1>3. 0 .. n - 1 \subseteq Ids
    BY <1>2 DEF Ids
<1>4. QED
    BY <1>1, <1>3, SeqMonotonic

LEMMA ShapeGrows ==
    ASSUME NEW m \in Nat, NEW n \in Nat, m <= n
    PROVE  /\ Seq(Entry(m)) \subseteq Seq(Entry(n))
           /\ Seq(LineOf(m)) \subseteq Seq(LineOf(n))
<1>1. Entry(m) \subseteq Entry(n) /\ LineOf(m) \subseteq LineOf(n)
    BY EntryKept
<1>2. QED
    BY <1>1, SeqMonotonic

LEMMA HeaderAlone ==
    ASSUME NEW n \in Nat
    PROVE  /\ <<Header>> \in Seq(Entry(n)) /\ <<Header>> # <<>> /\ <<Header>>[1] = Header
           /\ Len(<<Header>>) = 1 /\ EntriesOf(<<Header>>) = {} /\ ~HasAssistant(<<Header>>)
           /\ LastId(<<Header>>) = 0 /\ LabelsOf(<<Header>>) = {}
<1>1. Header \in Entry(n) /\ Header.kind = "session"
    BY EntryIs
<1> DEFINE s == <<Header>>
<1>2. s \in Seq(Entry(n)) /\ s # <<>> /\ s[1] = Header /\ Len(s) = 1
    BY <1>1
<1>3. DOMAIN s = 1 .. 1
    BY <1>2, LenProperties
<1> HIDE DEF s
<1>4. EntriesOf(s) = {} /\ LabelsOf(s) = {}
    BY <1>1, <1>2, <1>3 DEF EntriesOf, ToSet, LabelsOf, EntryKinds, LabelKinds
<1>5. ~HasAssistant(s)
    BY <1>4 DEF HasAssistant
<1>6. LastId(s) = 0
  <2> DEFINE w == Without(s, {"session"})
  <2>1. w \in Seq(Entry(n)) /\ Sieved(w, s, {"session"}, Len(s))
      BY <1>2, WithoutSieves
  <2>2. LastId(s) = IF w = <<>> THEN 0 ELSE Last(w).id
      BY DEF LastId
  <2> HIDE DEF w
  <2>3. \A i \in 1 .. 1 : s[i].kind \in {"session"}
      BY <1>1, <1>2
  <2>4. w = <<>>
      BY <2>1, <2>3, <1>2 DEF Sieved
  <2>5. QED
      BY <2>2, <2>4
<1>7. QED
    BY <1>2, <1>4, <1>5, <1>6 DEF s

(* The lines a killed process leaves *)
LEMMA CutLines ==
    ASSUME NEW n \in Nat, NEW new \in Seq(LineOf(n)), NEW k \in 0 .. Len(new) - 1,
           NEW torn \in BOOLEAN
    PROVE  SubSeq(new, 1, k) \o (IF torn THEN <<Torn>> ELSE <<>>) \in Seq(LineOf(n))
<1>1. \A i \in 1 .. k : new[i] \in LineOf(n)
  <2>1. \A i \in 1 .. k : i \in 1 .. Len(new)
      BY LenProperties
  <2>2. QED
      BY <2>1, ElementOfSeq
<1>2. SubSeq(new, 1, k) \in Seq(LineOf(n))
    BY <1>1, SubSeqProperties
<1>3. (IF torn THEN <<Torn>> ELSE <<>>) \in Seq(LineOf(n))
  <2>1. Torn \in LineOf(n)
      BY EntryIs
  <2>2. <<Torn>> \in Seq(LineOf(n)) /\ <<>> \in Seq(LineOf(n))
      BY <2>1, EmptySeq
  <2>3. QED
      BY <2>2
<1>4. QED
    BY <1>2, <1>3, ConcatProperties

LEMMA PutType ==
    ASSUME NEW n \in Nat, NEW lines \in Seq(LineOf(n)), NEW new \in Seq(LineOf(n))
    PROVE  PutLines(lines, new) \in Seq(LineOf(n))
<1> DEFINE S == LineOf(n)
<1>1. Torn \in S /\ Garbage \in S /\ lines \in Seq(S) /\ new \in Seq(S)
    BY EntryIs
<1> HIDE DEF S
<1>2. CASE new = <<>> \/ lines = <<>> \/ Last(lines) # Torn
    BY <1>1, <1>2, PutFollows DEF S
<1>3. CASE ~(new = <<>> \/ lines = <<>> \/ Last(lines) # Torn)
    BY <1>1, <1>3, PutJoins DEF S
<1>4. QED
    BY <1>2, <1>3
LEMMA HeaderFirst ==
    ASSUME NEW n \in Nat, NEW s \in Seq(Entry(n))
    PROVE  LET u == <<Header>> \o s
           IN  u \in Seq(Entry(n)) /\ u # <<>> /\ u[1] = Header /\ EntriesOf(u) = EntriesOf(s)
<1> DEFINE h == <<Header>>
<1>1. h \in Seq(Entry(n)) /\ Len(h) = 1 /\ h[1] = Header /\ EntriesOf(h) = {}
    BY HeaderAlone
<1> HIDE DEF h
<1>2. /\ h \o s \in Seq(Entry(n)) /\ Len(h \o s) = 1 + Len(s)
      /\ \A i \in 1 .. 1 + Len(s) : (h \o s)[i] = IF i <= 1 THEN h[i] ELSE s[i - 1]
    BY <1>1, ConcatProperties
<1>3. Len(s) \in Nat
    BY LenProperties
<1>4. (h \o s)[1] = Header
    BY <1>1, <1>2, <1>3
<1>5. h \o s # <<>>
  <2>1. Len(h \o s) # 0
      BY <1>2, <1>3
  <2>2. QED
      BY <2>1, EmptySeq
<1>6. EntriesOf(h \o s) = EntriesOf(s)
  <2>1. EntriesOf(h \o s) = EntriesOf(h) \cup EntriesOf(s)
      BY <1>1, EntriesConcat, Zenon
  <2>2. QED
      BY <1>1, <2>1
<1>7. QED
    BY <1>2, <1>4, <1>5, <1>6 DEF h

LEMMA ForkType ==
    ASSUME TypeInv, NEW f \in Files
    PROVE  /\ ForkLines(f) \in Seq(Entry(nextId)) /\ ForkLines(f) # <<>>
           /\ ForkLines(f)[1] = Header
<1>1. nextId \in Nat /\ disk[f] \in Seq(LineOf(nextId))
    BY SessionAssumption DEF TypeInv, TypeOK, Shaped
<1>2. Without(Load(disk[f]), {"session"}) \in Seq(Entry(nextId))
    BY <1>1, LoadIs, WithoutSieves
<1>3. QED
    BY <1>1, <1>2, HeaderFirst DEF ForkLines

LEMMA PathType ==
    ASSUME TypeInv, NEW tip \in Ids
    PROVE  PathTo(tip) \in Seq(Entry(nextId)) /\ Marked(tip) \subseteq Ids /\ IsFiniteSet(Marked(tip))
<1>1. MaxId \in Nat /\ nextId \in Nat /\ fileEntries \in Seq(Entry(nextId)) /\ labelsById \subseteq Ids
    BY SessionAssumption DEF TypeInv, TypeOK, Shaped
<1>2. Branch(fileEntries, tip) \in Seq(Entry(nextId))
    BY <1>1, BranchIs
<1>3. PathTo(tip) \in Seq(Entry(nextId))
    BY <1>2, WithoutSieves DEF PathTo, Unlabelled
<1>4. IsFiniteSet(Ids)
    BY <1>1, FS_Interval DEF Ids
<1>5. QED
    BY <1>1, <1>3, <1>4, FS_Subset DEF Marked

LEMMA SetInOrder ==
    ASSUME NEW S, IsFiniteSet(S)
    PROVE  /\ Cardinality(S) \in Nat
           /\ SetToSeq(S) \in [1 .. Cardinality(S) -> S]
<1>1. Cardinality(S) \in Nat /\ ExistsBijection(1 .. Cardinality(S), S)
    BY FS_CardinalityType
<1>2. PICK f \in [1 .. Cardinality(S) -> S] : IsInjective(f)
    BY <1>1 DEF ExistsBijection, Bijection, Injection, IsInjective
<1>3. QED
    BY <1>1, <1>2 DEF SetToSeq

LEMMA BranchedType ==
    ASSUME TypeInv, NEW tip \in Ids, nextId + Cardinality(Marked(tip)) <= MaxId + 1
    PROVE  LET n == nextId + Cardinality(Marked(tip))
               s == BranchedEntries(tip)
           IN  /\ n \in nextId .. MaxId + 1
               /\ s \in Seq(Entry(n)) /\ s # <<>> /\ s[1] = Header
<1> DEFINE c == Cardinality(Marked(tip))
           n == nextId + c
           path == PathTo(tip)
           marked == SetToSeq(Marked(tip))
           label(i) == [kind |-> "label", id |-> nextId + i - 1,
                        parent |-> IF i = 1 THEN LastId(path) ELSE nextId + i - 2,
                        target |-> marked[i]]
           labels == [i \in DOMAIN marked |-> label(i)]
<1>1. MaxId \in Nat /\ nextId \in 1 .. MaxId + 1
    BY SessionAssumption DEF TypeInv, TypeOK
<1>2. path \in Seq(Entry(nextId)) /\ Marked(tip) \subseteq Ids /\ IsFiniteSet(Marked(tip))
    BY PathType
<1>3. c \in Nat /\ marked \in [1 .. c -> Marked(tip)]
    BY <1>2, SetInOrder
<1>4. n \in nextId .. MaxId + 1 /\ n \in Nat
    BY <1>1, <1>3
<1>5. LastId(path) \in 0 .. nextId - 1
    BY <1>1, <1>2, LastIdIs
<1>6. Marked(tip) \subseteq IdsOf(path)
    BY DEF Marked
<1>7. BranchedEntries(tip) = <<Header>> \o path \o labels
    BY DEF BranchedEntries
<1> HIDE DEF path, marked, c
<1>8. \A x \in IdsOf(path) : x > 0 /\ x \in Ids
  <2>1. \A i \in 1 .. Len(path) : path[i] \in Entry(nextId)
      BY <1>2, ElementOfSeq
  <2>2. \A e \in EntriesOf(path) : e \in Entry(nextId) /\ e.kind \in EntryKinds
      BY <1>2, <2>1, EntriesAt
  <2>3. \A e \in Entry(nextId) : e.kind \in EntryKinds => e.id \in 1 .. nextId - 1
      BY DEF Entry
  <2>4. \A x \in 1 .. nextId - 1 : x > 0 /\ x \in Ids
      BY <1>1 DEF Ids
  <2>5. QED
      BY <2>2, <2>3, <2>4 DEF IdsOf
<1>9. ASSUME NEW i \in 1 .. c PROVE label(i) \in Entry(n)
  <2>1. marked[i] \in Ids /\ marked[i] > 0
      BY <1>2, <1>3, <1>6, <1>8
  <2>2. nextId + i - 1 \in 1 .. n - 1 /\ nextId + i - 1 \in 0 .. MaxId
      BY <1>1, <1>3, <1>4
  <2>3. (IF i = 1 THEN LastId(path) ELSE nextId + i - 2) \in 0 .. nextId + i - 2
      BY <1>1, <1>5
  <2>4. \A p \in 0 .. nextId + i - 2 : p < nextId + i - 1 /\ p \in 0 .. MaxId
      BY <1>1, <2>2
  <2> DEFINE par == IF i = 1 THEN LastId(path) ELSE nextId + i - 2
             new == nextId + i - 1
  <2>5. par \in Ids /\ par < new /\ new \in Ids
      BY <2>2, <2>3, <2>4 DEF Ids
  <2>6. new \in 1 .. n - 1
      BY <2>2
  <2>7. label(i) = [kind |-> "label", id |-> new, parent |-> par, target |-> marked[i]]
      OBVIOUS
  <2> HIDE DEF par, new, label
  <2>8. label(i) \in FileEntry
      BY <2>1, <2>5, <2>7 DEF FileEntry, EntryKinds, LabelKinds
  <2>9. label(i).kind = "label" /\ label(i).id = new /\ label(i).parent = par /\ label(i).target = marked[i]
      BY <2>7
  <2>10. QED
      BY <2>1, <2>5, <2>6, <2>8, <2>9 DEF Entry, LabelKinds
<1>10. labels \in Seq(Entry(n))
  <2>1. labels \in [1 .. c -> Entry(n)]
      BY <1>3, <1>9
  <2> HIDE DEF labels
  <2>2. QED
      BY <2>1, <1>3, SeqDef
<1>11. path \in Seq(Entry(n))
    BY <1>1, <1>2, <1>4, ShapeGrows
<1> HIDE DEF labels, n
<1> DEFINE h == <<Header>> \o path
<1>12. h \in Seq(Entry(n)) /\ h # <<>> /\ h[1] = Header
    BY <1>4, <1>11, HeaderFirst
<1> HIDE DEF h
<1>13. /\ h \o labels \in Seq(Entry(n)) /\ Len(h \o labels) = Len(h) + Len(labels)
       /\ \A i \in 1 .. Len(h) + Len(labels) :
             (h \o labels)[i] = IF i <= Len(h) THEN h[i] ELSE labels[i - Len(h)]
    BY <1>10, <1>12, ConcatProperties
<1>14. Len(h) \in Nat \ {0} /\ Len(labels) \in Nat
    BY <1>10, <1>12, EmptySeq, LenProperties
<1>15. (h \o labels)[1] = Header
    BY <1>12, <1>13, <1>14
<1>16. h \o labels # <<>>
    BY <1>13, <1>14, EmptySeq
<1>17. BranchedEntries(tip) = h \o labels
    BY <1>7 DEF h
<1>18. QED
    BY <1>4, <1>13, <1>15, <1>16, <1>17 DEF n, c
(* Holding a session, or none *)
LEMMA HoldType ==
    ASSUME NEW f \in Files, NEW s, Hold(f, s),
           nextId' \in 1 .. MaxId + 1, s \in Seq(Entry(nextId')), s # <<>>, s[1] = Header,
           flushed' \in BOOLEAN, extracted' \in Seq(Ids), onDisk' \subseteq Files,
           disk' \in [Files -> Seq(LineOf(nextId'))],
           \A g \in Files \ onDisk' : disk'[g] = <<>>
    PROVE  TypeInv'
<1>1. /\ up' = TRUE /\ sessionFile' = f /\ fileEntries' = s /\ leafId' = LastId(s)
      /\ labelsById' = LabelsOf(s)
    BY DEF Hold
<1>2. nextId' \in Nat \ {0} /\ nextId' \in 1 .. MaxId + 1
    BY SessionAssumption
<1>3. LastId(s) \in 0 .. nextId' - 1
    BY <1>2, LastIdIs
<1>4. /\ Seq(Entry(nextId')) \subseteq Seq(FileEntry) /\ Seq(LineOf(nextId')) \subseteq Seq(Line)
      /\ 0 .. nextId' - 1 \subseteq Ids
    BY <1>2, ShapeTypes
<1>5. s \in Seq(FileEntry) /\ disk' \in [Files -> Seq(Line)] /\ LastId(s) \in Ids
    BY <1>3, <1>4
<1>6. LabelsOf(s) \subseteq Ids
    BY DEF LabelsOf
<1>7. TypeOK'
    BY <1>1, <1>5, <1>6 DEF TypeOK
<1>8. Shaped'
    BY <1>1, <1>3 DEF Shaped
<1>9. QED
    BY <1>7, <1>8 DEF TypeInv

LEMMA DownType ==
    ASSUME Down,
           nextId' \in 1 .. MaxId + 1, extracted' \in Seq(Ids), onDisk' \subseteq Files,
           disk' \in [Files -> Seq(LineOf(nextId'))],
           \A g \in Files \ onDisk' : disk'[g] = <<>>
    PROVE  TypeInv'
<1>1. /\ up' = FALSE /\ sessionFile' = NoFile /\ fileEntries' = <<>> /\ leafId' = 0
      /\ labelsById' = {} /\ flushed' = FALSE
    BY DEF Down
<1>2. nextId' \in 1 .. MaxId + 1 /\ MaxId \in Nat
    BY SessionAssumption
<1>3. 0 \in 0 .. nextId' - 1 /\ 0 \in Ids
  <2>1. \A n \in 1 .. MaxId + 1 : 0 \in 0 .. n - 1
      BY <1>2
  <2>2. 0 \in Ids
      BY <1>2 DEF Ids
  <2>3. QED
      BY <1>2, <2>1, <2>2
<1>4. Seq(LineOf(nextId')) \subseteq Seq(Line)
    BY <1>2, ShapeTypes
<1>5. disk' \in [Files -> Seq(Line)]
    BY <1>4
<1>6. <<>> \in Seq(FileEntry) /\ <<>> \in Seq(Entry(nextId'))
    BY EmptySeq
<1>7. TypeOK'
    BY <1>1, <1>3, <1>5, <1>6 DEF TypeOK
<1>8. Shaped'
    BY <1>1, <1>3, <1>6 DEF Shaped
<1>9. QED
    BY <1>7, <1>8 DEF TypeInv

(* The files after a write to one of them, when ids may have been given *)
LEMMA DiskType ==
    ASSUME TypeInv, NEW n \in 1 .. MaxId + 1, nextId <= n, NEW f \in Files,
           NEW lines \in Seq(LineOf(n))
    PROVE  /\ disk \in [Files -> Seq(LineOf(n))]
           /\ [disk EXCEPT ![f] = lines] \in [Files -> Seq(LineOf(n))]
           /\ \A g \in Files \ (onDisk \cup {f}) : [disk EXCEPT ![f] = lines][g] = <<>>
           /\ [disk EXCEPT ![f] = lines][f] = lines
<1>1. nextId \in Nat /\ n \in Nat /\ disk \in [Files -> Seq(LineOf(nextId))]
    BY SessionAssumption DEF TypeInv, TypeOK, Shaped
<1>2. Seq(LineOf(nextId)) \subseteq Seq(LineOf(n))
    BY <1>1, ShapeGrows
<1>3. \A g \in Files \ onDisk : disk[g] = <<>>
    BY DEF TypeInv, Shaped
<1>4. QED
    BY <1>1, <1>2, <1>3

LEMMA KilledType ==
    ASSUME TypeInv, NEW f \in Files, NEW new, KilledWriting(f, new),
           nextId' \in nextId .. MaxId + 1, new \in Seq(LineOf(nextId')), extracted' \in Seq(Ids)
    PROVE  TypeInv'
<1>1. nextId \in 1 .. MaxId + 1 /\ MaxId \in Nat /\ onDisk \subseteq Files
    BY SessionAssumption DEF TypeInv, TypeOK
<1>2. nextId' \in Nat /\ nextId' \in 1 .. MaxId + 1 /\ nextId <= nextId'
    BY <1>1
<1>3. PICK k \in 0 .. Len(new) - 1, torn \in BOOLEAN :
          LET lines == SubSeq(new, 1, k) \o (IF torn THEN <<Torn>> ELSE <<>>)
          IN  disk' = [disk EXCEPT ![f] = PutLines(@, lines)]
    BY DEF KilledWriting
<1> DEFINE lines == SubSeq(new, 1, k) \o (IF torn THEN <<Torn>> ELSE <<>>)
<1>4. lines \in Seq(LineOf(nextId'))
    BY <1>2, CutLines
<1>5. disk' = [disk EXCEPT ![f] = PutLines(disk[f], lines)]
    BY <1>3
<1> HIDE DEF lines
<1>6. disk \in [Files -> Seq(LineOf(nextId'))]
    BY <1>2, <1>4, DiskType
<1>7. PutLines(disk[f], lines) \in Seq(LineOf(nextId'))
    BY <1>2, <1>4, <1>6, PutType
<1>8. /\ disk' \in [Files -> Seq(LineOf(nextId'))]
      /\ \A g \in Files \ (onDisk \cup {f}) : disk'[g] = <<>>
    BY <1>2, <1>5, <1>7, DiskType
<1>9. onDisk' = onDisk \cup {f} /\ Down
    BY DEF KilledWriting
<1>10. onDisk' \subseteq Files /\ \A g \in Files \ onDisk' : disk'[g] = <<>>
    BY <1>1, <1>8, <1>9
<1>11. QED
    BY <1>2, <1>8, <1>9, <1>10, DownType
(* A new entry, and what is written for it *)
LEMMA NewEntryType ==
    ASSUME TypeInv, nextId <= MaxId, NEW kind \in EntryKinds, NEW parent \in 0 .. nextId - 1,
           NEW target \in Ids,
           IF kind \in LabelKinds THEN target > 0 ELSE target = 0
    PROVE  /\ NewEntry(kind, parent, target) \in Entry(nextId + 1)
           /\ NewEntry(kind, parent, target).kind = kind
           /\ NewEntry(kind, parent, target).id = nextId
           /\ NewEntry(kind, parent, target).target = target
<1> DEFINE e == NewEntry(kind, parent, target)
<1>1. MaxId \in Nat /\ nextId \in 1 .. MaxId + 1
    BY SessionAssumption DEF TypeInv, TypeOK
<1>2. e = [kind |-> kind, id |-> nextId, parent |-> parent, target |-> target]
    BY DEF NewEntry
<1> HIDE DEF e
<1>3. e.kind = kind /\ e.id = nextId /\ e.parent = parent /\ e.target = target
    BY <1>2
<1>4. nextId \in Ids /\ parent \in Ids /\ nextId \in 1 .. (nextId + 1) - 1 /\ parent < nextId
    BY <1>1 DEF Ids
<1>5. e \in FileEntry
    BY <1>2, <1>4 DEF FileEntry
<1>6. kind # "session"
    BY DEF EntryKinds, LabelKinds
<1>7. e \in Entry(nextId + 1)
    BY <1>3, <1>4, <1>5, <1>6 DEF Entry
<1>8. QED
    BY <1>3, <1>7 DEF e

LEMMA StoreIs ==
    ASSUME TypeInv, up, nextId <= MaxId, NEW e \in Entry(nextId + 1), e.kind \in EntryKinds
    PROVE  LET s == Append(fileEntries, e)
               new == ToWrite(s, e)
           IN  /\ nextId + 1 \in 1 .. MaxId + 1 /\ nextId + 1 \in Nat
               /\ sessionFile \in Files /\ disk[sessionFile] \in Seq(LineOf(nextId + 1))
               /\ fileEntries \in Seq(Entry(nextId + 1))
               /\ s \in Seq(Entry(nextId + 1)) /\ s # <<>> /\ s[1] = Header
               /\ Len(s) = Len(fileEntries) + 1
               /\ \A i \in 1 .. Len(fileEntries) : s[i] = fileEntries[i]
               /\ s[Len(fileEntries) + 1] = e
               /\ new \in Seq(LineOf(nextId + 1))
               /\ EntriesOf(s) = EntriesOf(fileEntries) \cup {e}
<1> DEFINE n == nextId + 1
           s == Append(fileEntries, e)
<1>1. MaxId \in Nat /\ nextId \in 1 .. MaxId + 1
    BY SessionAssumption DEF TypeInv, TypeOK
<1>2. n \in 1 .. MaxId + 1 /\ n \in Nat /\ nextId <= n /\ nextId \in Nat
    BY <1>1
<1> HIDE DEF n
<1>3. /\ sessionFile \in Files /\ fileEntries # <<>> /\ fileEntries[1] = Header
      /\ fileEntries \in Seq(Entry(nextId)) /\ disk \in [Files -> Seq(LineOf(nextId))]
    BY DEF TypeInv, Shaped
<1>4. fileEntries \in Seq(Entry(n)) /\ disk[sessionFile] \in Seq(LineOf(n))
    BY <1>2, <1>3, ShapeGrows
<1>5. e \in Entry(n)
    BY DEF n
<1>6. /\ s \in Seq(Entry(n)) /\ s # <<>> /\ Len(s) = Len(fileEntries) + 1
      /\ \A i \in 1 .. Len(fileEntries) : s[i] = fileEntries[i]
      /\ s[Len(fileEntries) + 1] = e
    BY <1>4, <1>5, AppendProperties
<1>7. EntriesOf(s) = EntriesOf(fileEntries) \cup {e}
    BY <1>4, <1>5, EntriesAppend
<1> HIDE DEF s
<1>8. 1 \in 1 .. Len(fileEntries)
    BY <1>3, EmptySeq
<1>9. s[1] = Header
    BY <1>3, <1>6, <1>8
<1>10. Seq(Entry(n)) \subseteq Seq(LineOf(n))
    BY <1>2, ShapeTypes
<1>11. <<e>> \in Seq(LineOf(n)) /\ <<>> \in Seq(LineOf(n))
    BY <1>5 DEF LineOf
<1>12. ToWrite(s, e) \in Seq(LineOf(n))
    BY <1>6, <1>10, <1>11 DEF ToWrite
<1>13. QED
    BY <1>2, <1>3, <1>4, <1>6, <1>7, <1>9, <1>12 DEF n, s

LEMMA StoreType ==
    ASSUME TypeInv, CanAppend, NEW e \in Entry(nextId + 1), e.kind \in EntryKinds, e.id = nextId,
           Store(e), labelsById' \subseteq Ids
    PROVE  TypeInv'
<1> DEFINE s == Append(fileEntries, e)
           new == ToWrite(s, e)
           lines == PutLines(disk[sessionFile], new)
<1>1. up /\ nextId <= MaxId /\ nextId' = nextId + 1 /\ extracted' = <<>>
    BY DEF CanAppend
<1>2. /\ nextId + 1 \in 1 .. MaxId + 1 /\ nextId + 1 \in Nat
      /\ sessionFile \in Files /\ disk[sessionFile] \in Seq(LineOf(nextId + 1))
      /\ s \in Seq(Entry(nextId + 1)) /\ s # <<>> /\ s[1] = Header
      /\ new \in Seq(LineOf(nextId + 1))
    BY <1>1, StoreIs
<1>3. /\ fileEntries' = s /\ leafId' = e.id /\ up' = up /\ sessionFile' = sessionFile
      /\ disk' = [disk EXCEPT ![sessionFile] = lines]
      /\ onDisk' = IF new = <<>> THEN onDisk ELSE onDisk \cup {sessionFile}
      /\ flushed' = HasAssistant(s)
    BY DEF Store
<1> HIDE DEF s, new
<1>4. lines \in Seq(LineOf(nextId + 1))
    BY <1>2, PutType
<1>5. new = <<>> => lines = disk[sessionFile]
  <2>1. new = <<>> => lines = disk[sessionFile] \o <<>>
      BY DEF PutLines
  <2>2. disk[sessionFile] \o <<>> = disk[sessionFile]
      BY <1>2, ConcatEmptySeq
  <2>3. QED
      BY <2>1, <2>2
<1> HIDE DEF lines
<1>6. nextId \in 1 .. MaxId + 1 /\ nextId \in Ids /\ nextId \in 0 .. (nextId + 1) - 1 /\ onDisk \subseteq Files
      /\ nextId <= nextId + 1
  <2>1. MaxId \in Nat /\ nextId \in 1 .. MaxId + 1 /\ onDisk \subseteq Files
      BY SessionAssumption DEF TypeInv, TypeOK
  <2>2. QED
      BY <1>1, <2>1 DEF Ids
<1>7. /\ disk' \in [Files -> Seq(LineOf(nextId + 1))]
      /\ \A g \in Files \ (onDisk \cup {sessionFile}) : disk'[g] = <<>>
      /\ disk'[sessionFile] = lines
    BY <1>2, <1>3, <1>4, <1>6, DiskType
<1>8. \A g \in Files \ onDisk : disk[g] = <<>>
    BY DEF TypeInv, Shaped
<1>9. onDisk' \subseteq Files /\ \A g \in Files \ onDisk' : disk'[g] = <<>>
    BY <1>2, <1>3, <1>5, <1>6, <1>7, <1>8
<1>10. /\ Seq(Entry(nextId + 1)) \subseteq Seq(FileEntry)
       /\ Seq(LineOf(nextId + 1)) \subseteq Seq(Line)
    BY <1>2, ShapeTypes
<1>11. s \in Seq(FileEntry) /\ disk' \in [Files -> Seq(Line)] /\ <<>> \in Seq(Ids)
    BY <1>2, <1>7, <1>10, EmptySeq
<1>12. flushed' \in BOOLEAN
    BY <1>3 DEF HasAssistant
<1>13. up' \in BOOLEAN /\ sessionFile' \in Files \cup {NoFile}
    BY <1>2, <1>3 DEF TypeInv, TypeOK
<1>14. TypeOK'
    BY <1>1, <1>2, <1>3, <1>6, <1>9, <1>11, <1>12, <1>13 DEF TypeOK
<1>15. Shaped'
    BY <1>1, <1>2, <1>3, <1>6, <1>7, <1>9 DEF Shaped
<1>16. QED
    BY <1>14, <1>15 DEF TypeInv

(* Every id in use has been given. *)
LEMMA IdsGiven ==
    ASSUME TypeInv, NEW x \in IdsOf(fileEntries)
    PROVE  x \in 1 .. nextId - 1 /\ x \in Ids
<1>1. MaxId \in Nat /\ nextId \in 1 .. MaxId + 1 /\ fileEntries \in Seq(Entry(nextId))
    BY SessionAssumption DEF TypeInv, TypeOK, Shaped
<1>2. PICK e \in EntriesOf(fileEntries) : e.id = x
    BY DEF IdsOf
<1>3. e \in Entry(nextId) /\ e.kind \in EntryKinds
    BY <1>1, <1>2, EntriesAt, ElementOfSeq
<1>4. x \in 1 .. nextId - 1
    BY <1>2, <1>3 DEF Entry
<1>5. QED
    BY <1>1, <1>4 DEF Ids
-----------------------------------------------------------------------------
(* Each action keeps the types. *)

LEMMA NewSessionType ==
    ASSUME TypeInv, NEW f \in Files, NewSession(f)
    PROVE  TypeInv'
<1>1. /\ Hold(f, <<Header>>) /\ flushed' = FALSE /\ extracted' = <<>>
      /\ onDisk' = onDisk /\ disk' = disk /\ nextId' = nextId
    BY DEF NewSession
<1>2. nextId' \in 1 .. MaxId + 1 /\ nextId \in Nat /\ onDisk' \subseteq Files
    BY <1>1, SessionAssumption DEF TypeInv, TypeOK
<1>3. <<Header>> \in Seq(Entry(nextId')) /\ <<Header>> # <<>> /\ <<Header>>[1] = Header
    BY <1>1, <1>2, HeaderAlone
<1>4. disk' \in [Files -> Seq(LineOf(nextId'))] /\ \A g \in Files \ onDisk' : disk'[g] = <<>>
    BY <1>1 DEF TypeInv, Shaped
<1>5. extracted' \in Seq(Ids) /\ flushed' \in BOOLEAN
    BY <1>1, EmptySeq
<1>6. QED
    BY <1>1, <1>2, <1>3, <1>4, <1>5, HoldType

LEMMA OpenType ==
    ASSUME TypeInv, NEW f \in Files, Open(f)
    PROVE  TypeInv'
<1>1. /\ f \in onDisk /\ flushed' = TRUE /\ extracted' = <<>>
      /\ onDisk' = onDisk /\ nextId' = nextId
    BY DEF Open
<1>2. nextId' \in 1 .. MaxId + 1 /\ nextId \in Nat /\ onDisk' \subseteq Files /\ nextId \in 1 .. MaxId + 1
    BY <1>1, SessionAssumption DEF TypeInv, TypeOK
<1>3. <<Header>> \in Seq(Entry(nextId)) /\ <<Header>> # <<>> /\ <<Header>>[1] = Header
    BY <1>2, HeaderAlone
<1>4. disk \in [Files -> Seq(LineOf(nextId))] /\ \A g \in Files \ onDisk : disk[g] = <<>>
    BY DEF TypeInv, Shaped
<1>5. extracted' \in Seq(Ids) /\ flushed' \in BOOLEAN
    BY <1>1, EmptySeq
<1>6. CASE Load(disk[f]) = <<>>
  <2>1. Hold(f, <<Header>>) /\ disk' = [disk EXCEPT ![f] = <<Header>>]
      BY <1>6 DEF Open
  <2>2. <<Header>> \in Seq(LineOf(nextId))
      BY <1>2, <1>3, ShapeTypes
  <2>3. disk' \in [Files -> Seq(LineOf(nextId'))] /\ \A g \in Files \ onDisk' : disk'[g] = <<>>
      BY <1>1, <1>4, <2>1, <2>2
  <2>4. QED
      BY <1>1, <1>2, <1>3, <1>5, <2>1, <2>3, HoldType
<1>7. CASE Load(disk[f]) # <<>>
  <2>1. Hold(f, Load(disk[f])) /\ disk' = disk
      BY <1>7 DEF Open
  <2>2. Load(disk[f]) \in Seq(Entry(nextId')) /\ Load(disk[f])[1] = Header
      BY <1>1, <1>2, <1>4, <1>7, LoadIs
  <2>3. QED
      BY <1>1, <1>2, <1>4, <1>5, <1>7, <2>1, <2>2, HoldType
<1>8. QED
    BY <1>6, <1>7

LEMMA ForkTypes ==
    ASSUME TypeInv, NEW f \in Files, NEW g \in Files, Fork(f, g) \/ ForkInterrupted(f, g)
    PROVE  TypeInv'
<1>1. nextId' = nextId /\ extracted' = <<>>
    BY DEF Fork, ForkInterrupted, CanFork
<1>2. nextId \in 1 .. MaxId + 1 /\ nextId \in Nat /\ onDisk \subseteq Files /\ nextId' \in nextId .. MaxId + 1
      /\ nextId <= nextId
    BY <1>1, SessionAssumption DEF TypeInv, TypeOK
<1>3. ForkLines(f) \in Seq(Entry(nextId)) /\ ForkLines(f) # <<>> /\ ForkLines(f)[1] = Header
    BY ForkType
<1>4. ForkLines(f) \in Seq(LineOf(nextId))
    BY <1>2, <1>3, ShapeTypes
<1>5. extracted' \in Seq(Ids)
    BY <1>1, EmptySeq
<1>6. CASE Fork(f, g)
  <2>1. /\ disk' = [disk EXCEPT ![g] = ForkLines(f)] /\ onDisk' = onDisk \cup {g}
        /\ Hold(g, ForkLines(f)) /\ flushed' = TRUE
      BY <1>6 DEF Fork
  <2>2. /\ disk' \in [Files -> Seq(LineOf(nextId))]
        /\ \A h \in Files \ (onDisk \cup {g}) : disk'[h] = <<>>
      BY <1>2, <1>4, <2>1, DiskType
  <2>3. QED
      BY <1>1, <1>2, <1>3, <1>5, <2>1, <2>2, HoldType
<1>7. CASE ForkInterrupted(f, g)
  <2>1. KilledWriting(g, ForkLines(f))
      BY <1>7 DEF ForkInterrupted
  <2>2. QED
      BY <1>1, <1>2, <1>4, <1>5, <2>1, KilledType
<1>8. QED
    BY <1>6, <1>7

(* The entries the four kinds of append make *)
LEMMA AppendTypes ==
    ASSUME TypeInv, NEW kind \in {"plain", "assistant"},
           AppendEntry(kind) \/ AppendInterrupted(kind)
    PROVE  TypeInv'
<1> DEFINE e == NewEntry(kind, leafId, 0)
<1>1. CanAppend /\ up /\ nextId <= MaxId /\ nextId' = nextId + 1 /\ extracted' = <<>>
    BY DEF AppendEntry, AppendInterrupted, CanAppend
<1>2. /\ leafId \in 0 .. nextId - 1 /\ 0 \in Ids /\ kind \in EntryKinds /\ kind \notin LabelKinds
      /\ labelsById \subseteq Ids
    BY SessionAssumption DEF TypeInv, TypeOK, Shaped, Ids, EntryKinds, LabelKinds
<1>3. e \in Entry(nextId + 1) /\ e.kind = kind /\ e.id = nextId
    BY <1>1, <1>2, NewEntryType
<1>4. CASE AppendEntry(kind)
  <2>1. Store(e) /\ labelsById' = labelsById
      BY <1>4 DEF AppendEntry
  <2> HIDE DEF e
  <2>2. QED
      BY <1>1, <1>2, <1>3, <2>1, StoreType
<1>5. CASE AppendInterrupted(kind)
  <2>1. KilledWriting(sessionFile, ToWrite(Append(fileEntries, e), e))
      BY <1>5 DEF AppendInterrupted
  <2> HIDE DEF e
  <2>2. /\ nextId + 1 \in 1 .. MaxId + 1 /\ sessionFile \in Files
        /\ ToWrite(Append(fileEntries, e), e) \in Seq(LineOf(nextId + 1))
      BY <1>1, <1>2, <1>3, StoreIs
  <2>3. nextId' \in nextId .. MaxId + 1
    <3>1. nextId \in 1 .. MaxId + 1 /\ MaxId \in Nat
        BY SessionAssumption DEF TypeInv, TypeOK
    <3>2. QED
        BY <3>1, <1>1
  <2>4. extracted' \in Seq(Ids)
      BY <1>1, EmptySeq
  <2>5. QED
      BY <1>1, <2>1, <2>2, <2>3, <2>4, KilledType
<1>6. QED
    BY <1>4, <1>5

LEMMA SummaryType ==
    ASSUME TypeInv, NEW from \in Ids, BranchWithSummary(from)
    PROVE  TypeInv'
<1> DEFINE e == NewEntry("plain", from, 0)
<1>1. /\ CanAppend /\ nextId <= MaxId /\ from \in IdsOf(fileEntries) \cup {0} /\ Store(e)
      /\ labelsById' = labelsById
    BY DEF BranchWithSummary, CanAppend
<1>2. /\ 0 \in Ids /\ "plain" \in EntryKinds /\ "plain" \notin LabelKinds /\ labelsById \subseteq Ids
      /\ nextId \in Nat \ {0}
    BY SessionAssumption DEF TypeInv, TypeOK, Ids, EntryKinds, LabelKinds
<1>3. from \in 0 .. nextId - 1
    BY <1>1, <1>2, IdsGiven
<1>4. e \in Entry(nextId + 1) /\ e.kind = "plain" /\ e.id = nextId
    BY <1>1, <1>2, <1>3, NewEntryType
<1> HIDE DEF e
<1>5. QED
    BY <1>1, <1>2, <1>4, StoreType

LEMMA LabelType ==
    ASSUME TypeInv, NEW target \in Ids, NEW kind \in LabelKinds, AppendLabelChange(target, kind)
    PROVE  TypeInv'
<1> DEFINE e == NewEntry(kind, leafId, target)
<1>1. /\ CanAppend /\ nextId <= MaxId /\ target \in IdsOf(fileEntries) /\ Store(e)
      /\ labelsById' = IF kind = "label" THEN labelsById \cup {target} ELSE labelsById \ {target}
    BY DEF AppendLabelChange, CanAppend
<1>2. kind \in EntryKinds /\ leafId \in 0 .. nextId - 1 /\ labelsById \subseteq Ids
    BY DEF TypeInv, TypeOK, Shaped, EntryKinds
<1>3. target > 0
    BY <1>1, IdsGiven
<1>4. e \in Entry(nextId + 1) /\ e.kind = kind /\ e.id = nextId
    BY <1>1, <1>2, <1>3, NewEntryType
<1>5. labelsById' \subseteq Ids
    BY <1>1, <1>2
<1> HIDE DEF e
<1>6. QED
    BY <1>1, <1>2, <1>4, <1>5, StoreType

LEMMA MoveType ==
    ASSUME TypeInv, NEW to \in 0 .. nextId - 1, MoveLeaf(to)
    PROVE  TypeInv'
<1>1. to \in Ids /\ <<>> \in Seq(Ids)
    BY SessionAssumption, EmptySeq DEF TypeInv, TypeOK, Ids
<1>2. /\ leafId' = to /\ extracted' = <<>>
      /\ UNCHANGED <<up, sessionFile, fileEntries, labelsById, flushed, onDisk, disk, nextId>>
    BY DEF MoveLeaf
<1>3. TypeOK'
    BY <1>1, <1>2 DEF TypeInv, TypeOK
<1>4. Shaped'
    BY <1>2 DEF TypeInv, Shaped
<1>5. QED
    BY <1>3, <1>4 DEF TypeInv

LEMMA ExtractTypes ==
    ASSUME TypeInv, NEW tip \in Ids, NEW g \in Files,
           CreateBranchedSession(tip, g) \/ ExtractInterrupted(tip, g)
    PROVE  TypeInv'
<1> DEFINE s == BranchedEntries(tip)
           c == Cardinality(Marked(tip))
<1>1. nextId + c <= MaxId + 1 /\ nextId' = nextId + c
    BY DEF CreateBranchedSession, ExtractInterrupted, CanExtract
<1>2. nextId + c \in nextId .. MaxId + 1 /\ s \in Seq(Entry(nextId + c)) /\ s # <<>> /\ s[1] = Header
    BY <1>1, BranchedType
<1>3. /\ nextId \in 1 .. MaxId + 1 /\ nextId' \in 1 .. MaxId + 1 /\ nextId <= nextId'
      /\ nextId' \in nextId .. MaxId + 1 /\ onDisk \subseteq Files
    BY <1>1, <1>2, SessionAssumption DEF TypeInv, TypeOK
<1> HIDE DEF s, c
<1>4. s \in Seq(Entry(nextId')) /\ s \in Seq(LineOf(nextId'))
  <2>1. s \in Seq(Entry(nextId'))
      BY <1>1, <1>2
  <2>2. Seq(Entry(nextId')) \subseteq Seq(LineOf(nextId'))
      BY <1>3, ShapeTypes
  <2>3. QED
      BY <2>1, <2>2
<1>5. CASE CreateBranchedSession(tip, g)
  <2>1. /\ Hold(g, s) /\ flushed' = HasAssistant(s)
        /\ disk' = IF HasAssistant(s) THEN [disk EXCEPT ![g] = s] ELSE disk
        /\ onDisk' = IF HasAssistant(s) THEN onDisk \cup {g} ELSE onDisk
        /\ extracted' = [i \in DOMAIN PathTo(tip) |-> PathTo(tip)[i].id]
      BY <1>5 DEF CreateBranchedSession, s
  <2>2. flushed' \in BOOLEAN
      BY <2>1 DEF HasAssistant
  <2>3. extracted' \in Seq(Ids)
    <3> DEFINE path == PathTo(tip)
    <3>1. path \in Seq(Entry(nextId))
        BY PathType
    <3> HIDE DEF path
    <3>2. \A i \in 1 .. Len(path) : path[i].id \in Ids
      <4>1. \A i \in 1 .. Len(path) : path[i] \in Entry(nextId)
          BY <3>1, ElementOfSeq
      <4>2. QED
          BY <4>1 DEF Entry, FileEntry
    <3>3. DOMAIN path = 1 .. Len(path) /\ Len(path) \in Nat
        BY <3>1, LenProperties
    <3>4. extracted' \in [1 .. Len(path) -> Ids]
        BY <2>1, <3>2, <3>3 DEF path
    <3>5. QED
        BY <3>3, <3>4, SeqDef
  <2>4. /\ disk \in [Files -> Seq(LineOf(nextId'))]
        /\ [disk EXCEPT ![g] = s] \in [Files -> Seq(LineOf(nextId'))]
        /\ \A h \in Files \ (onDisk \cup {g}) : [disk EXCEPT ![g] = s][h] = <<>>
      BY <1>3, <1>4, DiskType
  <2>5. \A h \in Files \ onDisk : disk[h] = <<>>
      BY DEF TypeInv, Shaped
  <2>6. /\ onDisk' \subseteq Files /\ disk' \in [Files -> Seq(LineOf(nextId'))]
        /\ \A h \in Files \ onDisk' : disk'[h] = <<>>
      BY <1>3, <2>1, <2>4, <2>5
  <2>7. QED
      BY <1>2, <1>3, <1>4, <2>1, <2>2, <2>3, <2>6, HoldType
<1>6. CASE ExtractInterrupted(tip, g)
  <2>1. KilledWriting(g, s) /\ extracted' = <<>>
      BY <1>6 DEF ExtractInterrupted, s
  <2>2. extracted' \in Seq(Ids)
      BY <2>1, EmptySeq
  <2>3. QED
      BY <1>3, <1>4, <2>1, <2>2, KilledType
<1>7. QED
    BY <1>5, <1>6

LEMMA QuitType ==
    ASSUME TypeInv, Quit
    PROVE  TypeInv'
<1>1. Down /\ extracted' = <<>> /\ onDisk' = onDisk /\ disk' = disk /\ nextId' = nextId
    BY DEF Quit
<1>2. nextId' \in 1 .. MaxId + 1 /\ extracted' \in Seq(Ids) /\ onDisk' \subseteq Files
    BY <1>1, EmptySeq DEF TypeInv, TypeOK
<1>3. disk' \in [Files -> Seq(LineOf(nextId'))] /\ \A g \in Files \ onDisk' : disk'[g] = <<>>
    BY <1>1 DEF TypeInv, Shaped
<1>4. QED
    BY <1>1, <1>2, <1>3, DownType

LEMMA TypeNext == TypeInv /\ [Next]_vars => TypeInv'
<1> SUFFICES ASSUME TypeInv, [Next]_vars PROVE TypeInv'
    OBVIOUS
<1>1. ASSUME NEW f \in Files, NewSession(f) \/ Open(f) PROVE TypeInv'
    BY <1>1, NewSessionType, OpenType
<1>2. ASSUME NEW f \in Files, NEW g \in Files, Fork(f, g) \/ ForkInterrupted(f, g) PROVE TypeInv'
    BY <1>2, ForkTypes
<1>3. ASSUME NEW kind \in {"plain", "assistant"}, AppendEntry(kind) \/ AppendInterrupted(kind)
      PROVE  TypeInv'
    BY <1>3, AppendTypes
<1>4. ASSUME NEW t \in Ids, NEW kind \in LabelKinds, AppendLabelChange(t, kind) PROVE TypeInv'
    BY <1>4, LabelType
<1>5. ASSUME NEW id \in Ids, BranchWithSummary(id) PROVE TypeInv'
    BY <1>5, SummaryType
<1>6. nextId \in Nat \ {0} /\ 0 \in 0 .. nextId - 1 /\ \A x \in 1 .. nextId - 1 : x \in 0 .. nextId - 1
    BY SessionAssumption DEF TypeInv, TypeOK
<1>7. ASSUME NEW id \in Ids, BranchFrom(id) PROVE TypeInv'
  <2>1. id \in IdsOf(fileEntries) /\ MoveLeaf(id)
      BY <1>7 DEF BranchFrom
  <2>2. id \in 0 .. nextId - 1
      BY <2>1, <1>6, IdsGiven
  <2>3. QED
      BY <2>1, <2>2, MoveType
<1>8. CASE ResetLeaf
    BY <1>6, <1>8, MoveType DEF ResetLeaf
<1>9. ASSUME NEW id \in Ids, NEW g \in Files,
             CreateBranchedSession(id, g) \/ ExtractInterrupted(id, g)
      PROVE  TypeInv'
    BY <1>9, ExtractTypes
<1>10. CASE Quit
    BY <1>10, QuitType
<1>11. CASE UNCHANGED vars
  <2>1. UNCHANGED <<up, sessionFile, fileEntries, leafId, labelsById, flushed, onDisk, disk, nextId, extracted>>
      BY <1>11 DEF vars, memory
  <2>2. QED
      BY <2>1 DEF TypeInv, TypeOK, Shaped
<1>12. QED
    BY <1>1, <1>2, <1>3, <1>4, <1>5, <1>7, <1>8, <1>9, <1>10, <1>11 DEF Next

(* The manager, its files and the ids keep their shapes, for any files and *)
(* any number of entries.                                                  *)
THEOREM TreeTypeCorrect == Spec => []TypeOK
<1>1. TypeInv => TypeOK
    BY DEF TypeInv
<1>2. QED
    BY <1>1, TypeInit, TypeNext, PTL DEF Spec
-----------------------------------------------------------------------------
(* Files are append-only. *)

(* What may become of the lines of a file that exists *)
Grows(lines, new) ==
    \/ IsPrefix(lines, new)
    \/ Last(lines) = Torn /\ IsPrefix(Front(lines), new)
    \/ Load(lines) = <<>>

LEMMA SameGrows ==
    ASSUME NEW S, NEW lines \in Seq(S)
    PROVE  Grows(lines, lines)
<1>1. Len(lines) \in Nat
    BY LenProperties
<1>2. IsPrefix(lines, lines)
    BY <1>1, PrefixBy
<1>3. QED
    BY <1>2 DEF Grows

LEMMA PutGrows ==
    ASSUME NEW n \in Nat, NEW lines \in Seq(LineOf(n)), NEW new \in Seq(LineOf(n))
    PROVE  Grows(lines, PutLines(lines, new))
<1> DEFINE S == LineOf(n)
<1>1. Torn \in S /\ Garbage \in S /\ lines \in Seq(S) /\ new \in Seq(S)
    BY EntryIs
<1> HIDE DEF S
<1>2. CASE new = <<>> \/ lines = <<>> \/ Last(lines) # Torn
    BY <1>1, <1>2, PutFollows DEF Grows
<1>3. CASE ~(new = <<>> \/ lines = <<>> \/ Last(lines) # Torn)
    BY <1>1, <1>3, PutJoins DEF Grows
<1>4. QED
    BY <1>2, <1>3

LEMMA KilledPuts ==
    ASSUME TypeInv, NEW g \in Files, NEW new, NEW n \in Nat, new \in Seq(LineOf(n)),
           KilledWriting(g, new)
    PROVE  \E lines \in Seq(LineOf(n)) : disk' = [disk EXCEPT ![g] = PutLines(disk[g], lines)]
<1>1. PICK k \in 0 .. Len(new) - 1, torn \in BOOLEAN :
          LET lines == SubSeq(new, 1, k) \o (IF torn THEN <<Torn>> ELSE <<>>)
          IN  disk' = [disk EXCEPT ![g] = PutLines(@, lines)]
    BY DEF KilledWriting
<1> DEFINE lines == SubSeq(new, 1, k) \o (IF torn THEN <<Torn>> ELSE <<>>)
<1>2. lines \in Seq(LineOf(n))
    BY CutLines
<1>3. disk' = [disk EXCEPT ![g] = PutLines(disk[g], lines)]
    BY <1>1
<1> HIDE DEF lines
<1>4. QED
    BY <1>2, <1>3

(* A call writes to no file, to the one of the session, to one that did    *)
(* not exist, or it truncates one without a header.                        *)
LEMMA StepWrites ==
    ASSUME TypeInv, [Next]_vars
    PROVE  \/ disk' = disk
           \/ \E g \in Files \ onDisk : \E lines : disk' = [disk EXCEPT ![g] = lines]
           \/ \E g \in onDisk : /\ Load(disk[g]) = <<>> /\ sessionFile' = g
                                /\ disk' = [disk EXCEPT ![g] = <<Header>>]
           \/ /\ sessionFile \in Files
              /\ disk[sessionFile] \in Seq(LineOf(nextId + 1))
              /\ \E lines \in Seq(LineOf(nextId + 1)) :
                    disk' = [disk EXCEPT ![sessionFile] = PutLines(disk[sessionFile], lines)]
<1> DEFINE Fresh == \E g \in Files \ onDisk : \E lines : disk' = [disk EXCEPT ![g] = lines]
           Appended == /\ sessionFile \in Files
                       /\ disk[sessionFile] \in Seq(LineOf(nextId + 1))
                       /\ \E lines \in Seq(LineOf(nextId + 1)) :
                             disk' = [disk EXCEPT ![sessionFile] = PutLines(disk[sessionFile], lines)]
<1>1. nextId \in Nat /\ nextId + 1 \in Nat /\ leafId \in 0 .. nextId - 1 /\ 0 \in Ids /\ nextId \in Nat \ {0}
      /\ nextId \in 1 .. MaxId + 1 /\ nextId <= nextId
    BY SessionAssumption DEF TypeInv, TypeOK, Shaped, Ids
<1>2. ASSUME NEW f \in Files, NewSession(f) PROVE disk' = disk
    BY <1>2 DEF NewSession
<1>3. ASSUME NEW f \in Files, Open(f)
      PROVE  \/ disk' = disk
             \/ \E g \in onDisk : /\ Load(disk[g]) = <<>> /\ sessionFile' = g
                                  /\ disk' = [disk EXCEPT ![g] = <<Header>>]
    BY <1>3 DEF Open, Hold
<1>4. ASSUME NEW f \in Files, NEW g \in Files, Fork(f, g) PROVE Fresh
    BY <1>4 DEF Fork, CanFork
<1>5. ASSUME NEW g \in Files \ onDisk, NEW new, KilledWriting(g, new) PROVE Fresh
  <2>1. \E lines : disk' = [disk EXCEPT ![g] = lines]
      BY <1>5 DEF KilledWriting
  <2>2. QED
      BY <2>1
<1>6. ASSUME NEW f \in Files, NEW g \in Files, ForkInterrupted(f, g) PROVE Fresh
  <2>1. g \in Files \ onDisk /\ KilledWriting(g, ForkLines(f))
      BY <1>6 DEF ForkInterrupted, CanFork
  <2>2. QED
      BY <2>1, <1>5
<1>7. ASSUME NEW tip \in Ids, NEW g \in Files, CreateBranchedSession(tip, g)
      PROVE  disk' = disk \/ Fresh
  <2>1. /\ g \in Files \ onDisk
        /\ \/ disk' = [disk EXCEPT ![g] = BranchedEntries(tip)]
           \/ disk' = disk
      BY <1>7 DEF CreateBranchedSession, CanExtract
  <2>2. QED
      BY <2>1
<1>8. ASSUME NEW tip \in Ids, NEW g \in Files, ExtractInterrupted(tip, g) PROVE Fresh
  <2>1. g \in Files \ onDisk /\ KilledWriting(g, BranchedEntries(tip))
      BY <1>8 DEF ExtractInterrupted, CanExtract
  <2>2. QED
      BY <2>1, <1>5
<1>9. ASSUME CanAppend, NEW e \in Entry(nextId + 1), e.kind \in EntryKinds,
             \/ Store(e)
             \/ KilledWriting(sessionFile, ToWrite(Append(fileEntries, e), e))
      PROVE  Appended
  <2> DEFINE new == ToWrite(Append(fileEntries, e), e)
  <2>1. up /\ nextId <= MaxId
      BY <1>9 DEF CanAppend
  <2>2. /\ sessionFile \in Files /\ disk[sessionFile] \in Seq(LineOf(nextId + 1))
        /\ new \in Seq(LineOf(nextId + 1))
      BY <1>9, <2>1, StoreIs
  <2>3. ASSUME Store(e)
        PROVE  disk' = [disk EXCEPT ![sessionFile] = PutLines(disk[sessionFile], new)]
      BY <2>3 DEF Store
  <2> HIDE DEF new
  <2>4. CASE Store(e)
      BY <2>2, <2>3, <2>4
  <2>5. CASE KilledWriting(sessionFile, new)
      BY <1>1, <2>2, <2>5, KilledPuts
  <2>6. QED
      BY <1>9, <2>4, <2>5 DEF new
<1>10. ASSUME NEW kind \in {"plain", "assistant"}, AppendEntry(kind) \/ AppendInterrupted(kind)
       PROVE  Appended
  <2> DEFINE e == NewEntry(kind, leafId, 0)
  <2>1. kind \in EntryKinds /\ kind \notin LabelKinds
      BY DEF EntryKinds, LabelKinds
  <2>2. /\ CanAppend /\ nextId <= MaxId
        /\ Store(e) \/ KilledWriting(sessionFile, ToWrite(Append(fileEntries, e), e))
      BY <1>10 DEF AppendEntry, AppendInterrupted, CanAppend
  <2>3. e \in Entry(nextId + 1) /\ e.kind = kind
      BY <1>1, <2>1, <2>2, NewEntryType
  <2> HIDE DEF e, Appended
  <2>4. QED
      BY <1>9, <2>1, <2>2, <2>3
<1>11. ASSUME NEW t \in Ids, NEW kind \in LabelKinds, AppendLabelChange(t, kind) PROVE Appended
  <2> DEFINE e == NewEntry(kind, leafId, t)
  <2>1. kind \in EntryKinds
      BY DEF EntryKinds
  <2>2. CanAppend /\ nextId <= MaxId /\ t \in IdsOf(fileEntries) /\ Store(e)
      BY <1>11 DEF AppendLabelChange, CanAppend
  <2>3. t > 0
      BY <2>2, IdsGiven
  <2>4. e \in Entry(nextId + 1) /\ e.kind = kind
      BY <1>1, <2>1, <2>2, <2>3, NewEntryType
  <2> HIDE DEF e, Appended
  <2>5. QED
      BY <1>9, <2>1, <2>2, <2>4
<1>12. ASSUME NEW from \in Ids, BranchWithSummary(from) PROVE Appended
  <2> DEFINE e == NewEntry("plain", from, 0)
  <2>1. "plain" \in EntryKinds /\ "plain" \notin LabelKinds
      BY DEF EntryKinds, LabelKinds
  <2>2. CanAppend /\ nextId <= MaxId /\ from \in IdsOf(fileEntries) \cup {0} /\ Store(e)
      BY <1>12 DEF BranchWithSummary, CanAppend
  <2>3. from \in 0 .. nextId - 1
      BY <1>1, <2>2, IdsGiven
  <2>4. e \in Entry(nextId + 1) /\ e.kind = "plain"
      BY <1>1, <2>1, <2>2, <2>3, NewEntryType
  <2> HIDE DEF e, Appended
  <2>5. QED
      BY <1>9, <2>1, <2>2, <2>4
<1>13. ASSUME NEW to, MoveLeaf(to) PROVE disk' = disk
    BY <1>13 DEF MoveLeaf
<1>14. ASSUME Quit PROVE disk' = disk
    BY <1>14 DEF Quit
<1>15. ASSUME UNCHANGED vars PROVE disk' = disk
    BY <1>15 DEF vars
<1> DEFINE Truncated == \E g \in onDisk : /\ Load(disk[g]) = <<>> /\ sessionFile' = g
                                          /\ disk' = [disk EXCEPT ![g] = <<Header>>]
           Writes == disk' = disk \/ Fresh \/ Truncated \/ Appended
<1> HIDE DEF Appended, Fresh, Truncated
<1>16. Writes
  <2>1. ASSUME NEW f \in Files, NewSession(f) \/ Open(f) PROVE Writes
      BY <2>1, <1>2, <1>3 DEF Truncated
  <2>2. ASSUME NEW f \in Files, NEW g \in Files, Fork(f, g) \/ ForkInterrupted(f, g) PROVE Writes
      BY <2>2, <1>4, <1>6
  <2>3. ASSUME NEW kind \in {"plain", "assistant"}, AppendEntry(kind) \/ AppendInterrupted(kind)
        PROVE  Writes
      BY <2>3, <1>10
  <2>4. ASSUME NEW t \in Ids, NEW kind \in LabelKinds, AppendLabelChange(t, kind) PROVE Writes
      BY <2>4, <1>11
  <2>5. ASSUME NEW id \in Ids, BranchWithSummary(id) \/ BranchFrom(id) PROVE Writes
      BY <2>5, <1>12, <1>13 DEF BranchFrom
  <2>6. CASE ResetLeaf
      BY <2>6, <1>13 DEF ResetLeaf
  <2>7. ASSUME NEW id \in Ids, NEW g \in Files,
               CreateBranchedSession(id, g) \/ ExtractInterrupted(id, g)
        PROVE  Writes
      BY <2>7, <1>7, <1>8
  <2>8. Quit \/ UNCHANGED vars => Writes
      BY <1>14, <1>15
  <2> HIDE DEF Writes
  <2>9. QED
      BY <2>1, <2>2, <2>3, <2>4, <2>5, <2>6, <2>7, <2>8 DEF Next
<1>17. QED
    BY <1>16 DEF Fresh, Appended, Truncated

LEMMA StepGrows ==
    ASSUME TypeInv, [Next]_vars, NEW f \in onDisk
    PROVE  /\ f # sessionFile /\ f # sessionFile' => disk'[f] = disk[f]
           /\ Grows(disk[f], disk'[f])
<1>1. f \in Files /\ disk \in [Files -> Seq(LineOf(nextId))] /\ nextId + 1 \in Nat
    BY SessionAssumption DEF TypeInv, TypeOK, Shaped
<1>2. Grows(disk[f], disk[f])
    BY <1>1, SameGrows
<1>3. CASE disk'[f] = disk[f]
    BY <1>2, <1>3
<1>4. CASE disk'[f] # disk[f]
  <2>1. \A g, x : disk' = [disk EXCEPT ![g] = x] => g = f /\ disk'[f] = x
      BY <1>1, <1>4
  <2>2. \/ Load(disk[f]) = <<>> /\ sessionFile' = f
        \/ /\ sessionFile = f
           /\ disk[f] \in Seq(LineOf(nextId + 1))
           /\ \E lines \in Seq(LineOf(nextId + 1)) : disk'[f] = PutLines(disk[f], lines)
      BY <1>1, <1>4, <2>1, StepWrites
  <2>3. Grows(disk[f], disk'[f])
      BY <1>1, <2>2, PutGrows DEF Grows
  <2>4. QED
      BY <2>2, <2>3
<1>5. QED
    BY <1>3, <1>4

(* Whatever is opened, forked, extracted and killed, no line of a session  *)
(* file is changed or removed but a torn one or those of a file without a  *)
(* header, and a call touches its own file only.                           *)
THEOREM FilesAppendOnly == Spec => AppendOnly
<1>1. TypeInv /\ [Next]_vars =>
          [\A f \in onDisk :
              /\ f # sessionFile /\ f # sessionFile' => disk'[f] = disk[f]
              /\ \/ IsPrefix(disk[f], disk'[f])
                 \/ Last(disk[f]) = Torn /\ IsPrefix(Front(disk[f]), disk'[f])
                 \/ Load(disk[f]) = <<>>]_vars
    BY StepGrows DEF Grows
<1>2. QED
    BY <1>1, TypeInit, TypeNext, PTL DEF Spec, AppendOnly
-----------------------------------------------------------------------------
(* The label map *)

LEMMA LabelsInit == Init => LabelsExact
BY DEF Init, LabelsExact

LEMMA LabelsStore ==
    ASSUME TypeInv, LabelsExact, CanAppend, NEW e \in Entry(nextId + 1), e.kind \in EntryKinds,
           Store(e),
           labelsById' = IF e.kind = "label" THEN labelsById \cup {e.target}
                         ELSE IF e.kind = "unlabel" THEN labelsById \ {e.target} ELSE labelsById
    PROVE  LabelsExact'
<1>1. up /\ nextId <= MaxId
    BY DEF CanAppend
<1>2. fileEntries \in Seq(Entry(nextId + 1)) /\ nextId + 1 \in Nat
    BY <1>1, StoreIs
<1>3. fileEntries' = Append(fileEntries, e) /\ labelsById = LabelsOf(fileEntries)
    BY <1>1 DEF Store, LabelsExact
<1>4. labelsById' = LabelsOf(Append(fileEntries, e))
    BY <1>2, <1>3, LabelsAppend
<1>5. QED
    BY <1>3, <1>4 DEF LabelsExact

LEMMA LabelsNext == TypeInv /\ LabelsExact /\ [Next]_vars => LabelsExact'
<1> SUFFICES ASSUME TypeInv, LabelsExact, [Next]_vars PROVE LabelsExact'
    OBVIOUS
<1>1. nextId \in Nat \ {0} /\ leafId \in 0 .. nextId - 1 /\ 0 \in Ids
    BY SessionAssumption DEF TypeInv, TypeOK, Shaped, Ids
<1>2. ASSUME NEW f, NEW s, Hold(f, s) PROVE LabelsExact'
    BY <1>2 DEF Hold, LabelsExact
<1>3. ASSUME Down PROVE LabelsExact'
    BY <1>3 DEF Down, LabelsExact
<1>4. ASSUME NEW f \in Files, NewSession(f) \/ Open(f) PROVE LabelsExact'
    BY <1>2, <1>4 DEF NewSession, Open
<1>5. ASSUME NEW f \in Files, NEW g \in Files, Fork(f, g) \/ ForkInterrupted(f, g)
      PROVE  LabelsExact'
    BY <1>2, <1>3, <1>5 DEF Fork, ForkInterrupted, KilledWriting
<1>6. ASSUME NEW kind \in {"plain", "assistant"}, AppendEntry(kind) PROVE LabelsExact'
  <2> DEFINE e == NewEntry(kind, leafId, 0)
  <2>1. kind \in EntryKinds /\ kind \notin LabelKinds
      BY DEF EntryKinds, LabelKinds
  <2>2. CanAppend /\ nextId <= MaxId /\ Store(e) /\ labelsById' = labelsById
      BY <1>6 DEF AppendEntry, CanAppend
  <2>3. e \in Entry(nextId + 1) /\ e.kind = kind
      BY <1>1, <2>1, <2>2, NewEntryType
  <2> HIDE DEF e
  <2>4. QED
      BY <2>1, <2>2, <2>3, LabelsStore DEF LabelKinds
<1>7. ASSUME NEW kind \in {"plain", "assistant"}, AppendInterrupted(kind) PROVE LabelsExact'
    BY <1>3, <1>7 DEF AppendInterrupted, KilledWriting
<1>8. ASSUME NEW t \in Ids, NEW kind \in LabelKinds, AppendLabelChange(t, kind) PROVE LabelsExact'
  <2> DEFINE e == NewEntry(kind, leafId, t)
  <2>1. kind \in EntryKinds
      BY DEF EntryKinds
  <2>2. /\ CanAppend /\ nextId <= MaxId /\ t \in IdsOf(fileEntries) /\ Store(e)
        /\ labelsById' = IF kind = "label" THEN labelsById \cup {t} ELSE labelsById \ {t}
      BY <1>8 DEF AppendLabelChange, CanAppend
  <2>3. t > 0
      BY <2>2, IdsGiven
  <2>4. e \in Entry(nextId + 1) /\ e.kind = kind /\ e.target = t
      BY <1>1, <2>1, <2>2, <2>3, NewEntryType
  <2> HIDE DEF e
  <2>5. QED
      BY <2>1, <2>2, <2>4, LabelsStore DEF LabelKinds
<1>9. ASSUME NEW from \in Ids, BranchWithSummary(from) PROVE LabelsExact'
  <2> DEFINE e == NewEntry("plain", from, 0)
  <2>1. "plain" \in EntryKinds /\ "plain" \notin LabelKinds
      BY DEF EntryKinds, LabelKinds
  <2>2. /\ CanAppend /\ nextId <= MaxId /\ from \in IdsOf(fileEntries) \cup {0} /\ Store(e)
        /\ labelsById' = labelsById
      BY <1>9 DEF BranchWithSummary, CanAppend
  <2>3. from \in 0 .. nextId - 1
      BY <1>1, <2>2, IdsGiven
  <2>4. e \in Entry(nextId + 1) /\ e.kind = "plain"
      BY <1>1, <2>1, <2>2, <2>3, NewEntryType
  <2> HIDE DEF e
  <2>5. QED
      BY <2>1, <2>2, <2>4, LabelsStore
<1>10. ASSUME NEW to, MoveLeaf(to) PROVE LabelsExact'
    BY <1>10 DEF MoveLeaf, LabelsExact
<1>11. ASSUME NEW id \in Ids, NEW g \in Files,
              CreateBranchedSession(id, g) \/ ExtractInterrupted(id, g)
       PROVE  LabelsExact'
    BY <1>2, <1>3, <1>11 DEF CreateBranchedSession, ExtractInterrupted, KilledWriting
<1>12. CASE Quit
    BY <1>3, <1>12 DEF Quit
<1>13. CASE UNCHANGED vars
    BY <1>13 DEF vars, memory, LabelsExact
<1>14. QED
    BY <1>4, <1>5, <1>6, <1>7, <1>8, <1>9, <1>10, <1>11, <1>12, <1>13
       DEF Next, BranchFrom, ResetLeaf

(* The label map that is kept entry by entry is the one that a reader of   *)
(* the entries rebuilds.                                                   *)
THEOREM LabelMapExact == Spec => []LabelsExact
BY TypeInit, TypeNext, LabelsInit, LabelsNext, PTL DEF Spec

-----------------------------------------------------------------------------
(* The file of the session *)

(* Nothing is in the file that the manager does not hold.  Once the file   *)
(* is up to date it lacks an entry at most, whose line joined a torn one,  *)
(* and it ends with the entries the manager holds unless a line is         *)
(* damaged.  (What precedes them: the entries of the file are written      *)
(* again when the first answer comes after others that were not.)          *)
Lost == EntriesOf(fileEntries) \ EntriesOf(disk[sessionFile])
Saved ==
    up =>
        /\ HasAssistant(fileEntries) => flushed
        /\ sessionFile \in onDisk =>
              /\ Begins(disk[sessionFile])
              /\ EntriesOf(disk[sessionFile]) \subseteq EntriesOf(fileEntries)
        /\ flushed =>
              /\ sessionFile \in onDisk
              /\ \A x, y \in Lost : x = y
              /\ Lost # {} => Damaged(disk[sessionFile]) # {} /\ Last(disk[sessionFile]) # Torn
              /\ Damaged(disk[sessionFile]) = {} => EndsWith(disk[sessionFile], fileEntries)

LEMMA EndsSelf ==
    ASSUME NEW S, NEW s \in Seq(S)
    PROVE  EndsWith(s, s)
<1>1. Len(s) \in Nat
    BY LenProperties
<1>2. 0 \in 0 .. Len(s) /\ Len(s) = 0 + Len(s) /\ \A i \in 1 .. Len(s) : s[0 + i] = s[i]
    BY <1>1
<1>3. QED
    BY <1>2 DEF EndsWith

LEMMA BeginsHeader ==
    ASSUME NEW S, NEW s \in Seq(S), s # <<>>, s[1] = Header
    PROVE  Begins(s)
<1>1. 1 \in DOMAIN s
    BY LenProperties, EmptySeq
<1>2. Header.kind = "session"
    BY DEF Header, Mark
<1>3. \A j \in 1 .. 1 - 1 : s[j].kind \in Damage
    OBVIOUS
<1>4. QED
    BY <1>1, <1>2, <1>3 DEF Begins

(* A session that is the file it is held from *)
LEMMA HoldSaved ==
    ASSUME NEW f \in Files, NEW s, NEW n \in Nat, Hold(f, s), s \in Seq(Entry(n)), s # <<>>,
           s[1] = Header, flushed', f \in onDisk', disk'[f] = s
    PROVE  Saved'
<1>1. up' = TRUE /\ sessionFile' = f /\ fileEntries' = s
    BY DEF Hold
<1>2. Begins(s) /\ EndsWith(s, s)
    BY BeginsHeader, EndsSelf
<1>3. (Lost = {})'
    BY <1>1 DEF Lost
<1>4. Saved'
    BY <1>1, <1>2, <1>3 DEF Saved
<1>5. QED
    BY <1>4

(* A session that has not been written *)
LEMMA HoldUnsaved ==
    ASSUME NEW f, NEW s, Hold(f, s), ~flushed', f \notin onDisk', ~HasAssistant(s)
    PROVE  Saved'
BY DEF Hold, Saved
(* The file and the session both end with what was written last. *)
LEMMA EndsAppend ==
    ASSUME NEW S, NEW lines \in Seq(S), NEW s \in Seq(S), NEW e \in S, EndsWith(lines, s),
           NEW u \in Seq(S), Len(u) = Len(lines) + 1,
           \A i \in 1 .. Len(lines) : u[i] = lines[i], u[Len(lines) + 1] = e
    PROVE  EndsWith(u, Append(s, e))
<1>1. /\ Append(s, e) \in Seq(S) /\ Len(Append(s, e)) = Len(s) + 1
      /\ \A i \in 1 .. Len(s) : Append(s, e)[i] = s[i]
      /\ Append(s, e)[Len(s) + 1] = e
    BY AppendProperties
<1>2. Len(lines) \in Nat /\ Len(s) \in Nat
    BY LenProperties
<1>3. PICK k \in 0 .. Len(lines) : Len(lines) = k + Len(s) /\ \A i \in 1 .. Len(s) : lines[k + i] = s[i]
    BY DEF EndsWith
<1> DEFINE t == Append(s, e)
<1> HIDE DEF t
<1>4. k \in 0 .. Len(u) /\ Len(u) = k + Len(t)
    BY <1>1, <1>2, <1>3 DEF t
<1>5. ASSUME NEW i \in 1 .. Len(t) PROVE u[k + i] = t[i]
  <2>1. CASE i = Len(s) + 1
    <3>1. k + i = Len(lines) + 1
        BY <2>1, <1>2, <1>3
    <3>2. QED
        BY <2>1, <3>1, <1>1 DEF t
  <2>2. CASE i # Len(s) + 1
    <3>1. i \in 1 .. Len(s) /\ k + i \in 1 .. Len(lines)
        BY <2>2, <1>1, <1>2, <1>3 DEF t
    <3>2. QED
        BY <3>1, <1>1, <1>3 DEF t
  <2>3. QED
      BY <2>1, <2>2
<1>6. QED
    BY <1>4, <1>5 DEF EndsWith, t

LEMMA StoreSaved ==
    ASSUME TypeInv, Saved, CanAppend, NEW e \in Entry(nextId + 1), e.kind \in EntryKinds, Store(e)
    PROVE  Saved'
<1> DEFINE n == nextId + 1
           s == Append(fileEntries, e)
           new == ToWrite(s, e)
           lines == disk[sessionFile]
           put == PutLines(lines, new)
<1>1. up /\ nextId <= MaxId
    BY DEF CanAppend
<1>2. /\ n \in Nat /\ sessionFile \in Files /\ lines \in Seq(LineOf(n))
      /\ fileEntries \in Seq(Entry(n))
      /\ s \in Seq(Entry(n)) /\ s # <<>> /\ s[1] = Header
      /\ Len(s) = Len(fileEntries) + 1
      /\ s[Len(fileEntries) + 1] = e
      /\ new \in Seq(LineOf(n))
      /\ EntriesOf(s) = EntriesOf(fileEntries) \cup {e}
      /\ n \in 1 .. MaxId + 1
    BY <1>1, StoreIs
<1>3. /\ fileEntries' = s /\ up' = up /\ sessionFile' = sessionFile
      /\ disk'[sessionFile] = put
      /\ onDisk' = IF new = <<>> THEN onDisk ELSE onDisk \cup {sessionFile}
      /\ flushed' = HasAssistant(s)
  <2>1. disk \in [Files -> Seq(LineOf(nextId))]
      BY DEF TypeInv, Shaped
  <2>2. QED
      BY <1>2, <2>1 DEF Store
<1>4. /\ HasAssistant(fileEntries) => flushed
      /\ sessionFile \in onDisk => Begins(lines) /\ EntriesOf(lines) \subseteq EntriesOf(fileEntries)
      /\ flushed =>
            /\ sessionFile \in onDisk
            /\ \A x, y \in Lost : x = y
            /\ Lost # {} => Damaged(lines) # {} /\ Last(lines) # Torn
            /\ Damaged(lines) = {} => EndsWith(lines, fileEntries)
    BY <1>1 DEF Saved
<1>5. sessionFile \notin onDisk => lines = <<>>
    BY <1>2 DEF TypeInv, Shaped
<1>6. new = IF ~HasAssistant(s) THEN <<>> ELSE IF flushed THEN <<e>> ELSE s
    BY DEF ToWrite
<1>7. e \in Entry(n) /\ e \in LineOf(n) /\ e # Torn /\ e.kind \notin Damage
    BY <1>2, EntryIs DEF LineOf
<1>8. Lost = EntriesOf(fileEntries) \ EntriesOf(lines)
    BY DEF Lost
<1> HIDE DEF n, new, lines
<1>9. Len(fileEntries) \in Nat /\ Len(lines) \in Nat /\ s[Len(s)] = e
    BY <1>2, LenProperties
<1> HIDE DEF s
<1>10. ASSUME new # <<>>, lines = <<>> \/ Last(lines) # Torn
      PROVE  /\ EntriesOf(put) = EntriesOf(lines) \cup EntriesOf(new)
             /\ Damaged(put) = {} <=> Damaged(lines) = {} /\ Damaged(new) = {}
             /\ Last(put) = Last(new)
             /\ Begins(lines) => Begins(put)
             /\ lines = <<>> /\ Begins(new) => Begins(put)
             /\ Len(put) = Len(lines) + Len(new)
             /\ \A i \in 1 .. Len(lines) : put[i] = lines[i]
             /\ \A i \in 1 .. Len(new) : put[Len(lines) + i] = new[i]
  <2>1. EntriesOf(put) = EntriesOf(lines) \cup EntriesOf(new)
      BY <1>10, <1>2, PutFollowsEntries
  <2>2. Damaged(put) = {} <=> Damaged(lines) = {} /\ Damaged(new) = {}
      BY <1>10, <1>2, PutFollowsEntries
  <2>3. Last(put) = Last(new)
      BY <1>10, <1>2, PutFollowsEntries
  <2>4. Begins(lines) => Begins(put)
      BY <1>10, <1>2, PutFollowsEntries
  <2>5. lines = <<>> /\ Begins(new) => Begins(put)
      BY <1>10, <1>2, PutFollowsEntries
  <2>6. Len(put) = Len(lines) + Len(new)
      BY <1>10, <1>2, PutFollowsEntries
  <2>7. \A i \in 1 .. Len(lines) : put[i] = lines[i]
      BY <1>10, <1>2, PutFollowsEntries
  <2>8. \A i \in 1 .. Len(new) : put[Len(lines) + i] = new[i]
      BY <1>10, <1>2, PutFollowsEntries
  <2>9. QED
      BY <2>1, <2>2, <2>3, <2>4, <2>5, <2>6, <2>7, <2>8
<1> HIDE DEF put
<1>11. Lost' = EntriesOf(s) \ EntriesOf(put)
    BY <1>3 DEF Lost
<1>12. CASE ~HasAssistant(s)
  <2>1. put = lines /\ onDisk' = onDisk
    <3>1. new = <<>>
        BY <1>6, <1>12
    <3>2. put = lines \o <<>> /\ lines \o <<>> = lines
        BY <3>1, <1>2, ConcatEmptySeq DEF put, PutLines
    <3>3. QED
        BY <3>1, <3>2, <1>3
  <2>2. QED
      BY <2>1, <1>2, <1>3, <1>4, <1>12 DEF Saved
<1>13. CASE HasAssistant(s) /\ flushed
  <2>1. new = <<e>> /\ sessionFile \in onDisk
      BY <1>4, <1>6, <1>13
  <2>2. Len(new) = 1 /\ new[1] = e /\ new # <<>> /\ Last(new) = e
      BY <2>1 DEF Last
  <2>3. EntriesOf(new) = {e} /\ Damaged(new) = {}
    <3>1. \A x : x \in EntriesOf(new) <=> \E i \in 1 .. Len(new) : new[i] = x /\ x.kind \in EntryKinds
        BY <1>2, EntriesAt, Zenon
    <3>2. Damaged(new) = {} <=> \A i \in 1 .. Len(new) : new[i].kind \notin Damage
        BY <1>2, EntriesAt, Zenon
    <3>3. \A i \in 1 .. 1 : i = 1
        OBVIOUS
    <3>4. Damaged(new) = {}
        BY <3>2, <3>3, <2>2, <1>7
    <3>5. QED
        BY <3>1, <3>3, <3>4, <2>2
  <2>4. CASE lines = <<>> \/ Last(lines) # Torn
    <3>1. /\ EntriesOf(put) = EntriesOf(lines) \cup EntriesOf(new)
          /\ Damaged(put) = {} <=> Damaged(lines) = {} /\ Damaged(new) = {}
          /\ Last(put) = Last(new)
          /\ Begins(lines) => Begins(put)
          /\ Len(put) = Len(lines) + Len(new)
          /\ \A i \in 1 .. Len(lines) : put[i] = lines[i]
          /\ \A i \in 1 .. Len(new) : put[Len(lines) + i] = new[i]
        BY <2>2, <2>4, <1>10
    <3>2. Begins(put) /\ EntriesOf(put) \subseteq EntriesOf(s)
        BY <3>1, <2>1, <2>3, <1>2, <1>4
    <3>3. Lost' \subseteq Lost
        BY <3>1, <2>3, <1>2, <1>8, <1>11
    <3>4. Last(put) # Torn
        BY <3>1, <2>2, <1>7
    <3>5. ASSUME Damaged(put) = {} PROVE EndsWith(put, s)
      <4>1. EndsWith(lines, fileEntries)
          BY <3>1, <3>5, <1>4, <1>13
      <4>2. put \in Seq(LineOf(n)) /\ fileEntries \in Seq(LineOf(n))
          BY <1>2, PutType, ShapeTypes DEF put
      <4>3. Len(put) = Len(lines) + 1 /\ put[Len(lines) + 1] = e
          BY <3>1, <2>2
      <4>4. QED
          BY <4>1, <4>2, <4>3, <3>1, <1>2, <1>7, EndsAppend DEF s
    <3>6. sessionFile \in onDisk'
        BY <2>1, <1>3
    <3>7. (\A x, y \in Lost' : x = y) /\ (Lost' # {} => Damaged(put) # {})
        BY <3>1, <3>3, <1>4, <1>13
    <3>8. QED
        BY <3>2, <3>4, <3>5, <3>6, <3>7, <1>3 DEF Saved
  <2>5. CASE ~(lines = <<>> \/ Last(lines) # Torn)
    <3>1. /\ EntriesOf(lines) \subseteq EntriesOf(put)
          /\ EntriesOf(put) \subseteq EntriesOf(lines) \cup EntriesOf(new)
          /\ Damaged(put) # {}
          /\ Last(new) # Torn => Last(put) # Torn
          /\ Begins(lines) => Begins(put)
        BY <2>2, <2>5, <1>2, PutJoinsEntries DEF put
    <3>2. Begins(put) /\ EntriesOf(put) \subseteq EntriesOf(s)
        BY <3>1, <2>1, <2>3, <1>2, <1>4
    <3>3. Lost = {}
        BY <2>5, <1>4, <1>13
    <3>4. Lost' \subseteq {e}
        BY <3>1, <3>3, <1>2, <1>8, <1>11
    <3>5. Last(put) # Torn
        BY <3>1, <2>2, <1>7
    <3>6. sessionFile \in onDisk'
        BY <2>1, <1>3
    <3>7. \A x, y \in Lost' : x = y
        BY <3>4
    <3>8. QED
        BY <3>1, <3>2, <3>5, <3>6, <3>7, <1>3 DEF Saved
  <2>6. QED
      BY <2>4, <2>5
<1>14. CASE HasAssistant(s) /\ ~flushed
  <2>1. new = s /\ new # <<>> /\ sessionFile \in onDisk'
      BY <1>2, <1>3, <1>6, <1>14
  <2>2. Last(new) = e
      BY <2>1, <1>9 DEF Last
  <2>3. Header \notin EntriesOf(s) /\ Begins(s)
    <3>1. Header.kind \notin EntryKinds
        BY DEF Header, Mark, EntryKinds, LabelKinds
    <3>2. QED
        BY <3>1, <1>2, BeginsHeader DEF EntriesOf
  <2>4. EntriesOf(lines) \subseteq EntriesOf(s)
    <3>1. CASE sessionFile \in onDisk
        BY <3>1, <1>2, <1>4
    <3>2. CASE sessionFile \notin onDisk
      <4>1. EntriesOf(<<>>) = {}
          BY DEF EntriesOf, ToSet
      <4>2. QED
          BY <3>2, <4>1, <1>5
    <3>3. QED
        BY <3>1, <3>2
  <2>5. CASE lines = <<>> \/ Last(lines) # Torn
    <3>1. /\ EntriesOf(put) = EntriesOf(lines) \cup EntriesOf(new)
          /\ Damaged(put) = {} <=> Damaged(lines) = {} /\ Damaged(new) = {}
          /\ Last(put) = Last(new)
          /\ Begins(lines) => Begins(put)
          /\ lines = <<>> /\ Begins(new) => Begins(put)
          /\ Len(put) = Len(lines) + Len(new)
          /\ \A i \in 1 .. Len(new) : put[Len(lines) + i] = new[i]
        BY <2>1, <2>5, <1>10
    <3>2. Begins(put)
        BY <3>1, <2>1, <2>3, <1>4, <1>5
    <3>3. EntriesOf(put) = EntriesOf(s)
        BY <3>1, <2>1, <2>4
    <3>4. Lost' = {}
        BY <3>3, <1>11
    <3>5. EndsWith(put, s)
      <4>1. Len(lines) \in 0 .. Len(put)
        <5>1. Len(s) \in Nat
            BY <1>2, LenProperties
        <5>2. QED
            BY <5>1, <3>1, <2>1, <1>9
      <4>2. QED
          BY <4>1, <3>1, <2>1 DEF EndsWith
    <3>6. QED
        BY <3>2, <3>3, <3>4, <3>5, <2>1, <1>3 DEF Saved
  <2>6. CASE ~(lines = <<>> \/ Last(lines) # Torn)
    <3>1. /\ EntriesOf(put) \subseteq EntriesOf(lines) \cup EntriesOf(new)
          /\ EntriesOf(new) \subseteq EntriesOf(put) \cup {new[1]}
          /\ Damaged(put) # {}
          /\ Begins(lines) => Begins(put)
        BY <2>1, <2>6, <1>2, PutJoinsEntries DEF put
    <3>2. Begins(put)
        BY <3>1, <2>6, <1>4, <1>5
    <3>3. EntriesOf(put) = EntriesOf(s)
        BY <3>1, <2>1, <2>3, <2>4, <1>2
    <3>4. Lost' = {}
        BY <3>3, <1>11
    <3>5. QED
        BY <3>1, <3>2, <3>3, <3>4, <2>1, <1>3 DEF Saved
  <2>7. QED
      BY <2>5, <2>6
<1>15. QED
    BY <1>12, <1>13, <1>14
LEMMA SavedInit == Init => Saved
BY DEF Init, Saved

LEMMA SavedNext == TypeInv /\ Saved /\ [Next]_vars => Saved'
<1> SUFFICES ASSUME TypeInv, Saved, [Next]_vars PROVE Saved'
    OBVIOUS
<1>1. /\ nextId \in Nat \ {0} /\ leafId \in 0 .. nextId - 1 /\ 0 \in Ids /\ nextId \in Nat
      /\ disk \in [Files -> Seq(LineOf(nextId))]
      /\ nextId \in 1 .. MaxId + 1
    BY SessionAssumption DEF TypeInv, TypeOK, Shaped, Ids
<1>2. <<Header>> \in Seq(Entry(nextId)) /\ <<Header>> # <<>> /\ <<Header>>[1] = Header /\ ~HasAssistant(<<Header>>)
    BY <1>1, HeaderAlone
<1>3. ASSUME Down PROVE Saved'
    BY <1>3 DEF Down, Saved
<1>4. ASSUME NEW f \in Files, NewSession(f) PROVE Saved'
  <2>1. Hold(f, <<Header>>) /\ ~flushed' /\ f \notin onDisk'
      BY <1>4 DEF NewSession
  <2>2. QED
      BY <2>1, <1>2, HoldUnsaved
<1>5. ASSUME NEW f \in Files, Open(f) PROVE Saved'
  <2>1. f \in onDisk /\ onDisk' = onDisk /\ flushed' = TRUE
      BY <1>5 DEF Open
  <2>2. CASE Load(disk[f]) = <<>>
    <3>1. Hold(f, <<Header>>) /\ disk' = [disk EXCEPT ![f] = <<Header>>]
        BY <1>5, <2>2 DEF Open
    <3>2. disk'[f] = <<Header>>
        BY <3>1, <1>1
    <3>3. QED
        BY <2>1, <3>1, <3>2, <1>1, <1>2, HoldSaved
  <2>3. CASE Load(disk[f]) # <<>>
    <3> DEFINE s == Load(disk[f])
               lines == disk[f]
    <3>1. Hold(f, s) /\ disk' = disk
        BY <1>5, <2>3 DEF Open
    <3>2. /\ lines \in Seq(LineOf(nextId)) /\ s \in Seq(Entry(nextId)) /\ Begins(lines)
          /\ EntriesOf(s) = EntriesOf(lines) /\ (Damaged(lines) = {} => s = lines)
        BY <1>1, <2>3, LoadIs
    <3>3. /\ up' = TRUE /\ sessionFile' = f /\ fileEntries' = s
        BY <3>1 DEF Hold
    <3> HIDE DEF s, lines
    <3>4. disk'[f] = lines
        BY <3>1 DEF lines
    <3>5. Lost' = {}
        BY <3>2, <3>3, <3>4 DEF Lost
    <3>6. Damaged(lines) = {} => EndsWith(lines, s)
        BY <3>2, EndsSelf
    <3>7. QED
        BY <2>1, <3>2, <3>3, <3>4, <3>5, <3>6 DEF Saved
  <2>4. QED
      BY <2>2, <2>3
<1>6. ASSUME NEW f \in Files, NEW g \in Files, Fork(f, g) PROVE Saved'
  <2>1. /\ disk' = [disk EXCEPT ![g] = ForkLines(f)] /\ g \in onDisk' /\ flushed'
        /\ Hold(g, ForkLines(f))
      BY <1>6 DEF Fork
  <2>2. disk'[g] = ForkLines(f)
      BY <2>1, <1>1
  <2>3. ForkLines(f) \in Seq(Entry(nextId)) /\ ForkLines(f) # <<>> /\ ForkLines(f)[1] = Header
      BY ForkType
  <2>4. QED
      BY <2>1, <2>2, <2>3, <1>1, HoldSaved
<1>7. ASSUME NEW f \in Files, NEW g \in Files, ForkInterrupted(f, g) PROVE Saved'
    BY <1>3, <1>7 DEF ForkInterrupted, KilledWriting
<1>8. ASSUME NEW kind \in {"plain", "assistant"}, AppendEntry(kind) PROVE Saved'
  <2> DEFINE e == NewEntry(kind, leafId, 0)
  <2>1. kind \in EntryKinds /\ kind \notin LabelKinds
      BY DEF EntryKinds, LabelKinds
  <2>2. CanAppend /\ nextId <= MaxId /\ Store(e)
      BY <1>8 DEF AppendEntry, CanAppend
  <2>3. e \in Entry(nextId + 1) /\ e.kind = kind
      BY <1>1, <2>1, <2>2, NewEntryType
  <2> HIDE DEF e
  <2>4. QED
      BY <2>1, <2>2, <2>3, StoreSaved
<1>9. ASSUME NEW kind \in {"plain", "assistant"}, AppendInterrupted(kind) PROVE Saved'
    BY <1>3, <1>9 DEF AppendInterrupted, KilledWriting
<1>10. ASSUME NEW t \in Ids, NEW kind \in LabelKinds, AppendLabelChange(t, kind) PROVE Saved'
  <2> DEFINE e == NewEntry(kind, leafId, t)
  <2>1. kind \in EntryKinds
      BY DEF EntryKinds
  <2>2. CanAppend /\ nextId <= MaxId /\ t \in IdsOf(fileEntries) /\ Store(e)
      BY <1>10 DEF AppendLabelChange, CanAppend
  <2>3. t > 0
      BY <2>2, IdsGiven
  <2>4. e \in Entry(nextId + 1) /\ e.kind = kind
      BY <1>1, <2>1, <2>2, <2>3, NewEntryType
  <2> HIDE DEF e
  <2>5. QED
      BY <2>1, <2>2, <2>4, StoreSaved
<1>11. ASSUME NEW from \in Ids, BranchWithSummary(from) PROVE Saved'
  <2> DEFINE e == NewEntry("plain", from, 0)
  <2>1. "plain" \in EntryKinds /\ "plain" \notin LabelKinds
      BY DEF EntryKinds, LabelKinds
  <2>2. CanAppend /\ nextId <= MaxId /\ from \in IdsOf(fileEntries) \cup {0} /\ Store(e)
      BY <1>11 DEF BranchWithSummary, CanAppend
  <2>3. from \in 0 .. nextId - 1
      BY <1>1, <2>2, IdsGiven
  <2>4. e \in Entry(nextId + 1) /\ e.kind = "plain"
      BY <1>1, <2>1, <2>2, <2>3, NewEntryType
  <2> HIDE DEF e
  <2>5. QED
      BY <2>1, <2>2, <2>4, StoreSaved
<1>12. ASSUME NEW to, MoveLeaf(to) PROVE Saved'
    BY <1>12 DEF MoveLeaf, Saved, Lost
<1>13. ASSUME NEW tip \in Ids, NEW g \in Files, CreateBranchedSession(tip, g) PROVE Saved'
  <2> DEFINE s == BranchedEntries(tip)
             n == nextId + Cardinality(Marked(tip))
  <2>1. n <= MaxId + 1
      BY <1>13 DEF CreateBranchedSession, CanExtract
  <2>2. n \in nextId .. MaxId + 1 /\ s \in Seq(Entry(n)) /\ s # <<>> /\ s[1] = Header
      BY <2>1, BranchedType
  <2>3. /\ Hold(g, s) /\ flushed' = HasAssistant(s) /\ g \notin onDisk
        /\ disk' = IF HasAssistant(s) THEN [disk EXCEPT ![g] = s] ELSE disk
        /\ onDisk' = IF HasAssistant(s) THEN onDisk \cup {g} ELSE onDisk
      BY <1>13 DEF CreateBranchedSession, CanExtract
  <2> HIDE DEF s, n
  <2>4. n \in Nat
      BY <2>2, <1>1
  <2>5. CASE HasAssistant(s)
    <3>1. disk'[g] = s /\ g \in onDisk' /\ flushed'
        BY <2>3, <2>5, <1>1
    <3>2. QED
        BY <2>2, <2>3, <2>4, <3>1, HoldSaved
  <2>6. CASE ~HasAssistant(s)
      BY <2>3, <2>6, HoldUnsaved
  <2>7. QED
      BY <2>5, <2>6
<1>14. ASSUME NEW tip \in Ids, NEW g \in Files, ExtractInterrupted(tip, g) PROVE Saved'
    BY <1>3, <1>14 DEF ExtractInterrupted, KilledWriting
<1>15. CASE Quit
    BY <1>3, <1>15 DEF Quit
<1>16. CASE UNCHANGED vars
    BY <1>16 DEF vars, memory, Saved, Lost
<1>17. QED
    BY <1>4, <1>5, <1>6, <1>7, <1>8, <1>9, <1>10, <1>11, <1>12, <1>13, <1>14, <1>15, <1>16
       DEF Next, BranchFrom, ResetLeaf

(* What a process that opens the file would find *)
LEMMA SavedReread == TypeInv /\ Saved /\ LabelsExact => SavedOnceAnswered
<1> SUFFICES ASSUME TypeInv, Saved, LabelsExact, up, HasAssistant(fileEntries)
             PROVE  LET lines == disk[sessionFile]
                        reread == Load(lines)
                    IN  /\ EntriesOf(reread) \subseteq EntriesOf(fileEntries)
                        /\ Cardinality(EntriesOf(fileEntries) \ EntriesOf(reread))
                              <= Cardinality(Damaged(lines))
                        /\ Damaged(lines) = {} => LabelsOf(reread) = labelsById
    BY DEF SavedOnceAnswered
<1> DEFINE lines == disk[sessionFile]
<1>1. /\ nextId \in Nat /\ lines \in Seq(LineOf(nextId)) /\ fileEntries \in Seq(Entry(nextId))
      /\ nextId \in 1 .. MaxId + 1
    BY SessionAssumption DEF TypeInv, TypeOK, Shaped
<1>2. /\ Begins(lines) /\ EntriesOf(lines) \subseteq EntriesOf(fileEntries)
      /\ \A x, y \in Lost : x = y
      /\ Lost # {} => Damaged(lines) # {}
      /\ Damaged(lines) = {} => EndsWith(lines, fileEntries)
    BY DEF Saved
<1>3. Lost = EntriesOf(fileEntries) \ EntriesOf(lines)
    BY DEF Lost
<1>4. labelsById = LabelsOf(fileEntries)
    BY DEF LabelsExact
<1> HIDE DEF lines
<1>5. /\ Load(lines) # <<>> /\ EntriesOf(Load(lines)) = EntriesOf(lines)
      /\ Damaged(lines) = {} => Load(lines) = lines
    BY <1>1, <1>2, LoadIs
<1>6. Cardinality(Lost) <= Cardinality(Damaged(lines))
  <2>1. IsFiniteSet(Damaged(lines))
    <3>1. DOMAIN lines = 1 .. Len(lines) /\ Len(lines) \in Nat
        BY <1>1, LenProperties
    <3>2. IsFiniteSet(1 .. Len(lines))
        BY <3>1, FS_Interval
    <3>3. Damaged(lines) \subseteq 1 .. Len(lines)
        BY <3>1 DEF Damaged
    <3>4. QED
        BY <3>2, <3>3, FS_Subset
  <2>2. Cardinality(Damaged(lines)) \in Nat /\ (Damaged(lines) # {} => Cardinality(Damaged(lines)) # 0)
      BY <2>1, FS_CardinalityType, FS_EmptySet
  <2>3. CASE Lost = {}
      BY <2>2, <2>3, FS_EmptySet
  <2>4. CASE Lost # {}
    <3>1. PICK x \in Lost : Lost = {x}
        BY <2>4, <1>2
    <3>2. Cardinality(Lost) = 1
        BY <3>1, FS_Singleton
    <3>3. QED
        BY <3>2, <2>2, <2>4, <1>2
  <2>5. QED
      BY <2>3, <2>4
<1>7. ASSUME Damaged(lines) = {} PROVE LabelsOf(Load(lines)) = labelsById
  <2>1. Load(lines) = lines /\ EndsWith(lines, fileEntries)
      BY <1>2, <1>5, <1>7
  <2>2. fileEntries \in Seq(LineOf(nextId))
      BY <1>1, ShapeTypes
  <2>3. LabelsOf(lines) = LabelsOf(fileEntries)
      BY <2>1, <2>2, <1>1, <1>2, LabelsEnd
  <2>4. QED
      BY <2>1, <2>3, <1>4
<1>8. QED
    BY <1>2, <1>3, <1>5, <1>6, <1>7 DEF lines

(* From the first assistant message on, a process that opens the file      *)
(* finds the session the manager holds: its entries, but for one at most   *)
(* and that only if a line is damaged, and its labels.                     *)
THEOREM SessionIsSaved == Spec => []SavedOnceAnswered
BY TypeInit, TypeNext, LabelsInit, LabelsNext, SavedInit, SavedNext, SavedReread, PTL DEF Spec

-----------------------------------------------------------------------------
(* Compaction: paths.  What Path computes, as an operator of the entries, so *)
(* that it can be spoken of before and after a step.                         *)

Link(f, es, i) == IF i = 0 THEN <<>> ELSE Append(f[es[i].parent], i)

PathsOf(es) == CHOOSE f : f = [i \in 0 .. Len(es) |-> Link(f, es, i)]

(* A tree of entries: each but the roots comes after its parent. *)
Tree(es) ==
    /\ Len(es) \in Nat
    /\ DOMAIN es = 1 .. Len(es)
    /\ \A i \in 1 .. Len(es) : es[i].parent \in 0 .. i - 1

(* the entries on the path to an entry *)
Lineage(es, id) == ToSet(PathsOf(es)[id])

LEMMA PathIs == \A id : Path(id) = PathsOf(entries)[id]
BY DEF Path, PathsOf, Link

LEMMA LinksExist ==
    ASSUME NEW es, Tree(es)
    PROVE  \A n \in Nat : n <= Len(es) =>
              \E f \in [0 .. n -> Seq(Nat)] : \A i \in 0 .. n : f[i] = Link(f, es, i)
<1> DEFINE T == {n \in Nat : n <= Len(es) =>
              \E f \in [0 .. n -> Seq(Nat)] : \A i \in 0 .. n : f[i] = Link(f, es, i)}
<1>1. 0 \in T
  <2> DEFINE k == [i \in 0 .. 0 |-> <<>>]
  <2>1. k \in [0 .. 0 -> Seq(Nat)] /\ \A i \in 0 .. 0 : k[i] = Link(k, es, i)
      BY DEF Link
  <2>2. QED
      BY <2>1
<1>2. ASSUME NEW n \in Nat, n \in T PROVE n + 1 \in T
  <2> SUFFICES ASSUME n + 1 <= Len(es)
               PROVE  \E f \in [0 .. n + 1 -> Seq(Nat)] : \A i \in 0 .. n + 1 : f[i] = Link(f, es, i)
      OBVIOUS
  <2>1. PICK f \in [0 .. n -> Seq(Nat)] : \A i \in 0 .. n : f[i] = Link(f, es, i)
    <3>1. Len(es) \in Nat
        BY DEF Tree
    <3>2. n <= Len(es)
        BY <3>1
    <3>3. QED
        BY <3>2, <1>2, Zenon
  <2> DEFINE new == Append(f[es[n + 1].parent], n + 1)
             h == [i \in 0 .. n + 1 |-> IF i = n + 1 THEN new ELSE f[i]]
  <2>2. es[n + 1].parent \in 0 .. n
      BY DEF Tree
  <2>3. f[es[n + 1].parent] \in Seq(Nat)
      BY <2>2
  <2>4. new \in Seq(Nat)
      BY <2>3, AppendProperties
  <2>5. h \in [0 .. n + 1 -> Seq(Nat)]
      BY <2>4
  <2>6. ASSUME NEW i \in 0 .. n + 1
        PROVE  h[i] = Link(h, es, i)
    <3>1. CASE i = n + 1
      <4>1. h[i] = new /\ i # 0 /\ h[es[i].parent] = f[es[i].parent]
          BY <3>1, <2>2
      <4>2. QED
          BY <4>1, <3>1 DEF Link
    <3>2. CASE i # n + 1
      <4>1. i \in 0 .. n /\ h[i] = f[i]
          BY <3>2
      <4>2. i # 0 => es[i].parent \in 0 .. n /\ h[es[i].parent] = f[es[i].parent]
        <5>1. i # 0 => es[i].parent \in 0 .. i - 1
            BY <4>1 DEF Tree
        <5>2. i # 0 => es[i].parent \in 0 .. n /\ es[i].parent \in 0 .. n + 1 /\ es[i].parent # n + 1
            BY <5>1, <4>1
        <5>3. QED
            BY <5>2
      <4>3. QED
          BY <4>1, <4>2, <2>1 DEF Link
    <3>3. QED
        BY <3>1, <3>2
  <2>7. QED
      BY <2>5, <2>6
<1> HIDE DEF T
<1>3. Nat \subseteq T
    BY <1>1, <1>2, Induct
<1>4. QED
    BY <1>3 DEF T

LEMMA PathsLink ==
    ASSUME NEW es, Tree(es)
    PROVE  /\ PathsOf(es)[0] = <<>>
           /\ \A i \in 1 .. Len(es) : PathsOf(es)[i] = Append(PathsOf(es)[es[i].parent], i)
<1>1. Len(es) \in Nat /\ Len(es) <= Len(es)
    BY DEF Tree
<1>2. PICK f \in [0 .. Len(es) -> Seq(Nat)] : \A i \in 0 .. Len(es) : f[i] = Link(f, es, i)
    BY <1>1, LinksExist
<1>3. f = [i \in 0 .. Len(es) |-> Link(f, es, i)]
    BY <1>2
<1>4. PathsOf(es) = [i \in 0 .. Len(es) |-> Link(PathsOf(es), es, i)]
    BY <1>3 DEF PathsOf
<1>5. \A i \in 0 .. Len(es) : PathsOf(es)[i] = Link(PathsOf(es), es, i)
  <2> DEFINE body(i) == Link(PathsOf(es), es, i)
             g == PathsOf(es)
  <2>1. g = [i \in 0 .. Len(es) |-> body(i)]
      BY <1>4
  <2> HIDE DEF body, g
  <2>2. \A i \in 0 .. Len(es) : g[i] = body(i)
      BY <2>1
  <2>3. QED
      BY <2>2 DEF body, g
<1>6. 0 \in 0 .. Len(es) /\ \A i \in 1 .. Len(es) : i \in 0 .. Len(es) /\ i # 0
    BY <1>1
<1>7. QED
    BY <1>5, <1>6, Zenon DEF Link

(* A path ascends to its last entry, link by link, and the path to an entry  *)
(* on it is its part up to there.                                            *)
Ascends(es, p, id) ==
    /\ p \in Seq(Nat)
    /\ id = 0 <=> p = <<>>
    /\ id # 0 => Len(p) > 0 /\ p[Len(p)] = id
    /\ \A a \in 1 .. Len(p) : p[a] \in 1 .. id
    /\ \A a \in 1 .. Len(p) : es[p[a]].parent = IF a = 1 THEN 0 ELSE p[a - 1]
    /\ \A a, b \in 1 .. Len(p) : a < b => p[a] < p[b]
    /\ \A a \in 1 .. Len(p) :
          /\ Len(PathsOf(es)[p[a]]) = a
          /\ \A b \in 1 .. a : PathsOf(es)[p[a]][b] = p[b]

LEMMA AscendsOn ==
    ASSUME NEW es, Tree(es), NEW i \in 1 .. Len(es),
           NEW q, Ascends(es, q, es[i].parent),
           PathsOf(es)[i] = Append(q, i)
    PROVE  Ascends(es, PathsOf(es)[i], i)
<1> DEFINE p == Append(q, i)
           d == es[i].parent
<1>1. d \in 0 .. i - 1 /\ i \in Nat /\ i > 0
    BY DEF Tree
<1>2. q \in Seq(Nat) /\ Len(q) \in Nat
    BY LenProperties DEF Ascends
<1>3. /\ p \in Seq(Nat) /\ Len(p) = Len(q) + 1
      /\ \A a \in 1 .. Len(q) : p[a] = q[a]
      /\ p[Len(q) + 1] = i
    BY <1>1, <1>2, AppendProperties
<1>4. \A a \in 1 .. Len(p) : a \in 1 .. Len(q) \/ a = Len(q) + 1
    BY <1>2, <1>3
<1>5. d = 0 => Len(q) = 0
    BY EmptySeq DEF Ascends
<1>6. d # 0 => Len(q) > 0 /\ q[Len(q)] = d
    BY DEF Ascends
<1>7. \A a \in 1 .. Len(q) : q[a] \in 1 .. d
    BY DEF Ascends
<1> HIDE DEF p
<1>8. i # 0 /\ p # <<>> /\ Len(p) > 0 /\ p[Len(p)] = i
    BY <1>1, <1>2, <1>3, EmptySeq
<1>9. \A a \in 1 .. Len(p) : p[a] \in 1 .. i
    BY <1>1, <1>3, <1>4, <1>7
<1>10. ASSUME NEW a \in 1 .. Len(p)
       PROVE  es[p[a]].parent = IF a = 1 THEN 0 ELSE p[a - 1]
  <2>1. CASE a \in 1 .. Len(q)
    <3>1. p[a] = q[a] /\ (a # 1 => p[a - 1] = q[a - 1])
      <4>1. a # 1 => a - 1 \in 1 .. Len(q)
          BY <2>1, <1>2
      <4>2. QED
          BY <2>1, <4>1, <1>3
    <3>2. es[q[a]].parent = IF a = 1 THEN 0 ELSE q[a - 1]
        BY <2>1 DEF Ascends
    <3>3. QED
        BY <3>1, <3>2
  <2>2. CASE a = Len(q) + 1
    <3>1. p[a] = i
        BY <2>2, <1>3
    <3>2. CASE d = 0
        BY <3>1, <3>2, <2>2, <1>5
    <3>3. CASE d # 0
      <4>1. Len(q) \in 1 .. Len(q) /\ a - 1 = Len(q) /\ a # 1
          BY <3>3, <2>2, <1>2, <1>6
      <4>2. p[a - 1] = d
          BY <4>1, <3>3, <1>3, <1>6
      <4>3. QED
          BY <4>1, <4>2, <3>1
    <3>4. QED
        BY <3>2, <3>3
  <2>3. QED
      BY <2>1, <2>2, <1>4
<1>11. ASSUME NEW a \in 1 .. Len(p), NEW b \in 1 .. Len(p), a < b
       PROVE  p[a] < p[b]
  <2>1. a \in 1 .. Len(q)
      BY <1>11, <1>2, <1>3
  <2>2. p[a] = q[a] /\ q[a] \in 1 .. d
      BY <2>1, <1>3, <1>7
  <2>3. CASE b \in 1 .. Len(q)
    <3>1. p[b] = q[b] /\ q[a] < q[b]
        BY <2>1, <2>3, <1>3, <1>11 DEF Ascends
    <3>2. QED
        BY <3>1, <2>2
  <2>4. CASE b = Len(q) + 1
      BY <2>2, <2>4, <1>1, <1>3
  <2>5. QED
      BY <2>3, <2>4, <1>4
<1>12. ASSUME NEW a \in 1 .. Len(p)
       PROVE  Len(PathsOf(es)[p[a]]) = a /\ \A b \in 1 .. a : PathsOf(es)[p[a]][b] = p[b]
  <2>1. CASE a \in 1 .. Len(q)
    <3>1. p[a] = q[a] /\ \A b \in 1 .. a : p[b] = q[b]
        BY <2>1, <1>2, <1>3
    <3>2. Len(PathsOf(es)[q[a]]) = a /\ \A b \in 1 .. a : PathsOf(es)[q[a]][b] = q[b]
        BY <2>1 DEF Ascends
    <3>3. QED
        BY <3>1, <3>2
  <2>2. CASE a = Len(q) + 1
    <3>1. p[a] = i /\ Len(p) = a
        BY <2>2, <1>3
    <3>2. PathsOf(es)[p[a]] = p
        BY <3>1 DEF p
    <3>3. QED
        BY <3>1, <3>2
  <2>3. QED
      BY <2>1, <2>2, <1>4
<1>13. Ascends(es, p, i)
    BY <1>3, <1>8, <1>9, <1>10, <1>11, <1>12 DEF Ascends
<1>14. QED
    BY <1>13 DEF p

LEMMA PathAscends ==
    ASSUME NEW es, Tree(es)
    PROVE  \A id \in 0 .. Len(es) : Ascends(es, PathsOf(es)[id], id)
<1> DEFINE T == {n \in Nat : \A id \in 0 .. Len(es) : id <= n => Ascends(es, PathsOf(es)[id], id)}
<1>1. Ascends(es, PathsOf(es)[0], 0)
  <2>1. PathsOf(es)[0] = <<>> /\ <<>> \in Seq(Nat) /\ Len(<<>>) = 0
      BY PathsLink, EmptySeq
  <2>2. QED
      BY <2>1 DEF Ascends
<1>2. 0 \in T
    BY <1>1
<1>3. ASSUME NEW n \in Nat, n \in T PROVE n + 1 \in T
  <2> SUFFICES ASSUME NEW id \in 0 .. Len(es), id <= n + 1
               PROVE  Ascends(es, PathsOf(es)[id], id)
      OBVIOUS
  <2>1. CASE id <= n
      BY <2>1, <1>3
  <2>2. CASE id = n + 1
    <3>1. id \in 1 .. Len(es)
        BY <2>2
    <3>2. es[id].parent \in 0 .. n /\ es[id].parent \in 0 .. Len(es)
        BY <3>1, <2>2 DEF Tree
    <3>3. Ascends(es, PathsOf(es)[es[id].parent], es[id].parent)
        BY <3>2, <1>3
    <3>4. PathsOf(es)[id] = Append(PathsOf(es)[es[id].parent], id)
        BY <3>1, PathsLink
    <3>5. QED
        BY <3>1, <3>3, <3>4, AscendsOn
  <2>3. QED
      BY <2>1, <2>2
<1> HIDE DEF T
<1>4. Nat \subseteq T
    BY <1>2, <1>3, Induct
<1>5. Len(es) \in Nat
    BY DEF Tree
<1>6. Len(es) \in T
    BY <1>4, <1>5
<1>7. \A id \in 0 .. Len(es) : id <= Len(es) => Ascends(es, PathsOf(es)[id], id)
    BY <1>6 DEF T
<1>8. \A id \in 0 .. Len(es) : id <= Len(es)
    BY <1>5
<1>9. QED
    BY <1>7, <1>8


-----------------------------------------------------------------------------
(* Compaction: the entries on a path *)

LEMMA LineIs ==
    ASSUME NEW es, Tree(es), NEW id \in 0 .. Len(es)
    PROVE  \A x : x \in Lineage(es, id) <=> \E a \in 1 .. Len(PathsOf(es)[id]) : PathsOf(es)[id][a] = x
<1> DEFINE p == PathsOf(es)[id]
<1>1. p \in Seq(Nat)
    BY PathAscends DEF Ascends
<1> HIDE DEF p
<1>2. DOMAIN p = 1 .. Len(p)
    BY <1>1, LenProperties
<1>3. \A x : x \in ToSet(p) <=> \E a \in 1 .. Len(p) : p[a] = x
    BY <1>2 DEF ToSet
<1>4. QED
    BY <1>3 DEF Lineage, p

LEMMA LineStep ==
    ASSUME NEW es, Tree(es)
    PROVE  /\ Lineage(es, 0) = {}
           /\ \A i \in 1 .. Len(es) : Lineage(es, i) = Lineage(es, es[i].parent) \cup {i}
<1>1. Len(es) \in Nat
    BY DEF Tree
<1>2. Lineage(es, 0) = {}
  <2>1. PathsOf(es)[0] = <<>> /\ 0 \in 0 .. Len(es) /\ Len(<<>>) = 0
      BY <1>1, PathsLink, EmptySeq
  <2>2. QED
      BY <2>1, LineIs
<1>3. ASSUME NEW i \in 1 .. Len(es)
      PROVE  Lineage(es, i) = Lineage(es, es[i].parent) \cup {i}
  <2> DEFINE d == es[i].parent
             q == PathsOf(es)[d]
             p == PathsOf(es)[i]
  <2>1. d \in 0 .. i - 1 /\ d \in 0 .. Len(es) /\ i \in 0 .. Len(es)
      BY <1>1 DEF Tree
  <2>2. q \in Seq(Nat)
      BY <2>1, PathAscends DEF Ascends
  <2>3. p = Append(q, i) /\ Len(q) \in Nat /\ i \in Nat
      BY <2>2, PathsLink, LenProperties
  <2>4. /\ Len(p) = Len(q) + 1 /\ p[Len(q) + 1] = i
        /\ \A a \in 1 .. Len(q) : p[a] = q[a]
      BY <2>2, <2>3, AppendProperties
  <2>5. \A x : x \in Lineage(es, d) <=> \E a \in 1 .. Len(q) : q[a] = x
      BY <2>1, LineIs
  <2>6. \A x : x \in Lineage(es, i) <=> \E a \in 1 .. Len(p) : p[a] = x
      BY <2>1, LineIs
  <2> HIDE DEF d, q, p
  <2>7. /\ \A a \in 1 .. Len(p) : a \in 1 .. Len(q) \/ a = Len(q) + 1
        /\ \A a \in 1 .. Len(q) : a \in 1 .. Len(p)
        /\ Len(q) + 1 \in 1 .. Len(p)
      BY <2>3, <2>4
  <2>8. \A x : x \in Lineage(es, i) <=> x \in Lineage(es, d) \/ x = i
      BY <2>4, <2>5, <2>6, <2>7
  <2>9. QED
      BY <2>8 DEF d
<1>4. QED
    BY <1>2, <1>3

(* The path to an entry of a path is the part of the path that is not later. *)
LEMMA LineOrder ==
    ASSUME NEW es, Tree(es), NEW id \in 0 .. Len(es)
    PROVE  /\ id # 0 => id \in Lineage(es, id)
           /\ \A m \in Lineage(es, id) :
                 /\ m \in 1 .. id /\ m \in 1 .. Len(es)
                 /\ \A x : x \in Lineage(es, m) <=> x \in Lineage(es, id) /\ x <= m
<1> DEFINE p == PathsOf(es)[id]
<1>1. Ascends(es, p, id)
    BY PathAscends
<1>2. \A x : x \in Lineage(es, id) <=> \E a \in 1 .. Len(p) : p[a] = x
    BY LineIs
<1>3. Len(es) \in Nat
    BY DEF Tree
<1> HIDE DEF p
<1>4. p \in Seq(Nat) /\ Len(p) \in Nat
    BY <1>1, LenProperties DEF Ascends
<1>5. id # 0 => id \in Lineage(es, id)
  <2>1. id # 0 => Len(p) \in 1 .. Len(p) /\ p[Len(p)] = id
      BY <1>1, <1>4 DEF Ascends
  <2>2. QED
      BY <2>1, <1>2
<1>6. ASSUME NEW m \in Lineage(es, id)
      PROVE  /\ m \in 1 .. id /\ m \in 1 .. Len(es)
             /\ \A x : x \in Lineage(es, m) <=> x \in Lineage(es, id) /\ x <= m
  <2>1. PICK a \in 1 .. Len(p) : p[a] = m
      BY <1>2
  <2>2. m \in 1 .. id
      BY <2>1, <1>1 DEF Ascends
  <2>3. m \in 1 .. Len(es) /\ m \in 0 .. Len(es)
      BY <2>2, <1>3
  <2> DEFINE q == PathsOf(es)[m]
  <2>4. Len(q) = a /\ \A b \in 1 .. a : q[b] = p[b]
      BY <2>1, <1>1 DEF Ascends
  <2>5. \A x : x \in Lineage(es, m) <=> \E b \in 1 .. Len(q) : q[b] = x
      BY <2>3, LineIs
  <2>6. \A x : x \in Lineage(es, m) <=> \E b \in 1 .. a : p[b] = x
      BY <2>4, <2>5
  <2>7. \A b \in 1 .. Len(p) : b \in 1 .. a <=> p[b] <= m
    <3> SUFFICES ASSUME NEW b \in 1 .. Len(p) PROVE b \in 1 .. a <=> p[b] <= m
        OBVIOUS
    <3>1. p[b] \in Nat /\ m \in Nat
        BY <1>4, <2>2, ElementOfSeq
    <3>2. b < a => p[b] < p[a]
        BY <1>1 DEF Ascends
    <3>3. a < b => p[a] < p[b]
        BY <1>1 DEF Ascends
    <3>4. b < a \/ b = a \/ a < b
        BY <1>4
    <3>5. QED
        BY <3>1, <3>2, <3>3, <3>4, <2>1, <1>4
  <2>8. \A b \in 1 .. a : b \in 1 .. Len(p)
      BY <1>4
  <2>9. \A x : x \in Lineage(es, m) <=> x \in Lineage(es, id) /\ x <= m
      BY <2>6, <2>7, <2>8, <1>2
  <2>10. QED
      BY <2>2, <2>3, <2>9
<1>7. QED
    BY <1>5, <1>6

(* A root on a path is its first entry. *)
LEMMA LineRoot ==
    ASSUME NEW es, Tree(es), NEW id \in 0 .. Len(es),
           NEW r \in Lineage(es, id), es[r].parent = 0
    PROVE  \A x \in Lineage(es, id) : r <= x
<1> SUFFICES ASSUME NEW x \in Lineage(es, id) PROVE r <= x
    OBVIOUS
<1>1. x \in Nat /\ r \in 1 .. Len(es) /\ Len(es) \in Nat
    BY LineOrder DEF Tree
<1>2. CASE x <= r
  <2>1. x \in Lineage(es, r)
      BY <1>2, LineOrder
  <2>2. Lineage(es, r) = Lineage(es, 0) \cup {r} /\ Lineage(es, 0) = {}
      BY <1>1, LineStep
  <2>3. QED
      BY <2>1, <2>2, <1>1
<1>3. CASE ~ (x <= r)
    BY <1>1, <1>3
<1>4. QED
    BY <1>2, <1>3

(* Appending an entry changes no path that there was. *)
LEMMA PathsKept ==
    ASSUME NEW es, Tree(es), NEW fs, Tree(fs), Len(es) <= Len(fs),
           \A i \in 1 .. Len(es) : fs[i] = es[i]
    PROVE  \A id \in 0 .. Len(es) : PathsOf(fs)[id] = PathsOf(es)[id]
<1>0. Len(es) \in Nat /\ Len(fs) \in Nat
    BY DEF Tree
<1> DEFINE T == {n \in Nat : \A id \in 0 .. Len(es) : id <= n => PathsOf(fs)[id] = PathsOf(es)[id]}
<1>1. PathsOf(fs)[0] = PathsOf(es)[0]
    BY PathsLink
<1>2. 0 \in T
    BY <1>1
<1>3. ASSUME NEW n \in Nat, n \in T PROVE n + 1 \in T
  <2> SUFFICES ASSUME NEW id \in 0 .. Len(es), id <= n + 1
               PROVE  PathsOf(fs)[id] = PathsOf(es)[id]
      OBVIOUS
  <2>1. CASE id <= n
      BY <2>1, <1>3
  <2>2. CASE id = n + 1
    <3>1. id \in 1 .. Len(es) /\ id \in 1 .. Len(fs)
        BY <2>2, <1>0
    <3>2. fs[id] = es[id] /\ es[id].parent \in 0 .. n /\ es[id].parent \in 0 .. Len(es)
        BY <3>1, <2>2 DEF Tree
    <3>3. PathsOf(fs)[es[id].parent] = PathsOf(es)[es[id].parent]
        BY <3>2, <1>3
    <3>4. PathsOf(es)[id] = Append(PathsOf(es)[es[id].parent], id)
        BY <3>1, PathsLink
    <3>5. PathsOf(fs)[id] = Append(PathsOf(fs)[fs[id].parent], id)
        BY <3>1, PathsLink
    <3>6. QED
        BY <3>2, <3>3, <3>4, <3>5
  <2>3. QED
      BY <2>1, <2>2
<1> HIDE DEF T
<1>4. Nat \subseteq T
    BY <1>2, <1>3, Induct
<1>5. QED
    BY <1>0, <1>4 DEF T

-----------------------------------------------------------------------------
(* Compaction: the first and the last of a set of places *)

LEMMA MinIs ==
    ASSUME NEW S \in SUBSET Nat, S # {}
    PROVE  Min(S) \in S /\ \A x \in S : Min(S) <= x
<1>1. \E m \in S : \A y \in S : m <= y
    BY NatMin
<1>2. QED
    BY <1>1, Zenon DEF Min

LEMMA MaxIs ==
    ASSUME NEW S \in SUBSET Nat, S # {}, NEW n \in Nat, \A x \in S : x <= n
    PROVE  Max(S) \in S /\ \A x \in S : x <= Max(S)
<1> DEFINE B == {k \in Nat : \A x \in S : x <= k}
<1>1. n \in B
    OBVIOUS
<1>2. PICK m \in B : \A k \in B : m <= k
    BY <1>1, NatMin
<1>3. m \in S
  <2> SUFFICES ASSUME m \notin S PROVE FALSE
      OBVIOUS
  <2>1. \A x \in S : x < m
    <3> SUFFICES ASSUME NEW x \in S PROVE x < m
        OBVIOUS
    <3>1. m \in Nat /\ x <= m
        BY <1>2
    <3>2. x \in Nat /\ x # m
        OBVIOUS
    <3> HIDE DEF B
    <3>3. QED
        BY <3>1, <3>2
  <2>2. m # 0 /\ m - 1 \in Nat
    <3>1. PICK x \in S : TRUE
        OBVIOUS
    <3>2. x \in Nat /\ m \in Nat /\ x < m
        BY <2>1, <1>2
    <3> HIDE DEF B
    <3>3. QED
        BY <3>2
  <2>3. m - 1 \in B
    <3>1. ASSUME NEW x \in S PROVE x <= m - 1
      <4>1. x \in Nat /\ m \in Nat /\ x < m
          BY <2>1, <1>2
      <4> HIDE DEF B
      <4>2. QED
          BY <4>1
    <3>2. QED
        BY <3>1, <2>2
  <2>4. QED
      BY <1>2, <2>2, <2>3
<1>4. \E y \in S : \A x \in S : y >= x
    BY <1>2, <1>3
<1>5. Max(S) \in S /\ \A x \in S : Max(S) >= x
    BY <1>4, Zenon DEF Max
<1>6. QED
    BY <1>5

(* The largest place with a property, or 0. *)
LEMMA LastIs ==
    ASSUME NEW n \in Nat, NEW S \in SUBSET (1 .. n)
    PROVE  /\ Max({0} \cup S) \in 0 .. n
           /\ Max({0} \cup S) # 0 => Max({0} \cup S) \in S
           /\ \A x \in S : x <= Max({0} \cup S)
<1> DEFINE T == {0} \cup S
<1>1. T \in SUBSET Nat /\ T # {} /\ \A x \in T : x <= n
    OBVIOUS
<1> HIDE DEF T
<1>2. Max(T) \in T /\ \A x \in T : x <= Max(T)
    BY <1>1, MaxIs
<1> DEFINE m == Max(T)
<1> HIDE DEF m
<1>3. m \in T /\ \A x \in T : x <= m
    BY <1>2 DEF m
<1>4. m \in 0 .. n /\ (m # 0 => m \in S) /\ \A x \in S : x <= m
    BY <1>3 DEF T
<1>5. QED
    BY <1>4 DEF m, T

-----------------------------------------------------------------------------
(* Compaction: places on a path *)

LEMMA TypeTree == CompactionTypeOK => Tree(entries)
<1> SUFFICES ASSUME CompactionTypeOK PROVE Tree(entries)
    OBVIOUS
<1>1. entries \in Seq(SessionEntry)
    BY DEF CompactionTypeOK
<1>2. Len(entries) \in Nat /\ DOMAIN entries = 1 .. Len(entries)
    BY <1>1, LenProperties
<1>3. \A i \in 1 .. Len(entries) : entries[i].parent \in Nat /\ entries[i].parent < i
  <2>1. \A i \in 1 .. Len(entries) : entries[i] \in SessionEntry
      BY <1>1, ElementOfSeq
  <2>2. EntryIds \subseteq Nat
      BY CompactionAssumption DEF EntryIds
  <2>3. QED
      BY <2>1, <2>2, <1>2 DEF CompactionTypeOK, SessionEntry
<1>4. QED
    BY <1>2, <1>3 DEF Tree

(* p is the path to the entry id. *)
Leads(p, id) ==
    /\ p \in Seq(Nat)
    /\ Len(p) \in Nat
    /\ DOMAIN p = 1 .. Len(p)
    /\ id \in 0 .. Len(entries)
    /\ id # 0 => Len(p) > 0 /\ p[Len(p)] = id
    /\ \A a \in 1 .. Len(p) : p[a] \in 1 .. Len(entries) /\ p[a] \in Lineage(entries, id)
    /\ \A x \in Lineage(entries, id) : \E a \in 1 .. Len(p) : p[a] = x
    /\ \A a, b \in 1 .. Len(p) : a < b <=> p[a] < p[b]
    /\ Len(p) > 0 => entries[p[1]].parent = 0

LEMMA PathLeads ==
    ASSUME CompactionTypeOK, NEW id \in 0 .. Len(entries)
    PROVE  Leads(Path(id), id)
<1> DEFINE p == PathsOf(entries)[id]
<1>1. Tree(entries)
    BY TypeTree
<1>2. Ascends(entries, p, id)
    BY <1>1, PathAscends
<1>3. \A x : x \in Lineage(entries, id) <=> \E a \in 1 .. Len(p) : p[a] = x
    BY <1>1, LineIs
<1>4. \A x \in Lineage(entries, id) : x \in 1 .. Len(entries)
    BY <1>1, LineOrder
<1>5. Path(id) = p
    BY PathIs
<1> HIDE DEF p
<1>6. p \in Seq(Nat) /\ Len(p) \in Nat /\ DOMAIN p = 1 .. Len(p)
    BY <1>2, LenProperties DEF Ascends
<1>7. \A a, b \in 1 .. Len(p) : a < b <=> p[a] < p[b]
  <2> SUFFICES ASSUME NEW a \in 1 .. Len(p), NEW b \in 1 .. Len(p)
               PROVE  a < b <=> p[a] < p[b]
      OBVIOUS
  <2>1. p[a] \in Nat /\ p[b] \in Nat
      BY <1>6, ElementOfSeq
  <2>2. (a < b => p[a] < p[b]) /\ (b < a => p[b] < p[a])
      BY <1>2 DEF Ascends
  <2>3. a < b \/ a = b \/ b < a
      BY <1>6
  <2>4. QED
      BY <2>1, <2>2, <2>3
<1>8. id # 0 => Len(p) > 0 /\ p[Len(p)] = id
    BY <1>2 DEF Ascends
<1>9. Len(p) > 0 => entries[p[1]].parent = 0
  <2>1. Len(p) > 0 => 1 \in 1 .. Len(p)
      BY <1>6
  <2>2. QED
      BY <2>1, <1>2 DEF Ascends
<1>10. Leads(p, id)
    BY <1>3, <1>4, <1>6, <1>7, <1>8, <1>9 DEF Leads
<1>11. QED
    BY <1>5, <1>10

LEMMA PlacesAre ==
    ASSUME NEW p, NEW id, Leads(p, id), NEW K
    PROVE  /\ Places(p, K) \subseteq 1 .. Len(p)
           /\ \A a : a \in Places(p, K) <=> a \in 1 .. Len(p) /\ entries[p[a]].kind \in K
BY DEF Leads, Places, Kind

LEMMA LastCompactionIs ==
    ASSUME NEW p, NEW id, Leads(p, id)
    PROVE  /\ LastCompaction(p) \in 0 .. Len(p)
           /\ LastCompaction(p) # 0 => entries[p[LastCompaction(p)]].kind = "compaction"
           /\ \A a \in 1 .. Len(p) : entries[p[a]].kind = "compaction" => a <= LastCompaction(p)
<1> DEFINE S == Places(p, {"compaction"})
<1>1. S \in SUBSET (1 .. Len(p)) /\ \A a : a \in S <=> a \in 1 .. Len(p) /\ entries[p[a]].kind \in {"compaction"}
    BY PlacesAre
<1>2. Len(p) \in Nat
    BY DEF Leads
<1>3. LastCompaction(p) = Max({0} \cup S)
    BY DEF LastCompaction
<1> HIDE DEF S
<1>4. /\ Max({0} \cup S) \in 0 .. Len(p)
      /\ Max({0} \cup S) # 0 => Max({0} \cup S) \in S
      /\ \A x \in S : x <= Max({0} \cup S)
    BY <1>1, <1>2, LastIs
<1>5. QED
    BY <1>1, <1>3, <1>4

LEMMA IndexIs ==
    ASSUME NEW p, NEW id, Leads(p, id), NEW x
    PROVE  /\ \A a \in 1 .. Len(p) : p[a] = x => Index(p, x) = a
           /\ x \notin Lineage(entries, id) => Index(p, x) = 0
<1> DEFINE S == {i \in DOMAIN p : p[i] = x}
<1>1. Len(p) \in Nat /\ DOMAIN p = 1 .. Len(p) /\ p \in Seq(Nat)
    BY DEF Leads
<1>2. S \in SUBSET (1 .. Len(p)) /\ \A a : a \in S <=> a \in 1 .. Len(p) /\ p[a] = x
    BY <1>1
<1>3. Index(p, x) = Max({0} \cup S)
    BY DEF Index
<1> HIDE DEF S
<1>4. /\ Max({0} \cup S) \in 0 .. Len(p)
      /\ Max({0} \cup S) # 0 => Max({0} \cup S) \in S
      /\ \A y \in S : y <= Max({0} \cup S)
    BY <1>1, <1>2, LastIs
<1>5. ASSUME NEW a \in 1 .. Len(p), p[a] = x PROVE Index(p, x) = a
  <2> DEFINE m == Max({0} \cup S)
  <2>1. a \in S /\ m \in 0 .. Len(p) /\ a <= m
      BY <1>2, <1>4, <1>5
  <2>2. m \in S
      BY <2>1, <1>4
  <2> HIDE DEF m
  <2>3. m \in 1 .. Len(p) /\ p[m] = x
      BY <2>2, <1>2
  <2>4. ~ (a < m)
    <3>1. a < m => p[a] < p[m]
        BY <2>3 DEF Leads
    <3>2. p[m] \in Nat
        BY <2>3, <1>1, ElementOfSeq
    <3>3. QED
        BY <3>1, <3>2, <2>3, <1>5
  <2>5. m = a
      BY <2>1, <2>3, <2>4
  <2>6. QED
      BY <2>5, <1>3 DEF m
<1>6. ASSUME x \notin Lineage(entries, id) PROVE Index(p, x) = 0
  <2>1. \A a \in 1 .. Len(p) : p[a] # x
      BY <1>6 DEF Leads
  <2>2. S = {}
      BY <2>1, <1>2
  <2>3. QED
      BY <2>2, <1>3, <1>4
<1>7. QED
    BY <1>5, <1>6

-----------------------------------------------------------------------------
(* Compaction: what is invariant *)

(* what may come between a call and an answer to it *)
AfterCall == {"result", "setting", "compaction"}

(* a is a reply on the path to id whose calls may still be answered there. *)
Awaited(es, id, a) ==
    /\ a \in Lineage(es, id)
    /\ es[a].kind = "assistant"
    /\ \A x \in Lineage(es, id) : x > a => es[x].kind \in AfterCall

(* A result answers the last reply before it; the awaited reply is the last. *)
AnswersInv ==
    \A r \in DOMAIN entries :
        entries[r].kind = "result" => Awaited(entries, r, entries[r].call)

CallInv ==
    /\ AnswersInv
    /\ awaiting # 0 => Awaited(entries, leaf, awaiting)

(* To keep the path to n from f on takes no result from its call: f is the   *)
(* first entry, or something that is no result, nor follows a call, stands   *)
(* behind f before any result does.                                          *)
CutSound(es, n, f) ==
    /\ f \in Lineage(es, n)
    /\ \/ es[f].parent = 0
       \/ \E c \in Lineage(es, n) :
             /\ f <= c
             /\ es[c].kind \in SpokenKinds \ {"result"}
             /\ \A x \in Lineage(es, n) : f <= x /\ x < c => es[x].kind # "result"

(* What was said on the path to n before f is in C or was summarized there. *)
Accounted(es, n, f, C) ==
    \A m \in Lineage(es, n) :
        m < f /\ es[m].kind \in SpokenKinds =>
            \/ m \in C
            \/ \E c \in Lineage(es, n) : es[c].kind = "compaction" /\ m \in es[c].covers

(* A compaction, and one that is being prepared, on a path without strayed   *)
(* ones keeps from a sound cut on, and what is before it is accounted for.   *)
KeptInv ==
    \A n \in DOMAIN entries :
        entries[n].kind = "compaction" /\ Lineage(entries, n) \cap strayed = {} =>
            /\ CutSound(entries, n, entries[n].firstKept)
            /\ Accounted(entries, n, entries[n].firstKept, {})

PreparedInv ==
    \A x \in Compactors : preparing[x] # Nothing =>
        LET q == preparing[x]
        IN  /\ q.on \in DOMAIN entries
            /\ q.summarize \cup q.turnPrefix \subseteq DOMAIN entries
            /\ Lineage(entries, q.on) \cap strayed = {} =>
                  /\ CutSound(entries, q.on, q.firstKept)
                  /\ Accounted(entries, q.on, q.firstKept, q.summarize \cup q.turnPrefix)

(* What was shown on a branch being left is in its summary or on the way to  *)
(* the target.                                                               *)
LeavingInv ==
    leaving # Staying =>
        /\ leaving.target \in DOMAIN entries
        /\ leaving.collected \subseteq DOMAIN entries
        /\ \A m \in leaving.shown :
              /\ m \in DOMAIN entries
              /\ \/ m \in leaving.collected
                 \/ entries[m].kind = "result"
                 \/ m \in Lineage(entries, leaving.target)

CompactionInv == CompactionTypeOK /\ CallInv /\ KeptInv /\ PreparedInv /\ LeavingInv

-----------------------------------------------------------------------------
(* Compaction: where it cuts *)

LEMMA BoundaryIs ==
    ASSUME CompactionTypeOK, KeptInv, NEW p, NEW id, Leads(p, id), CanPrepare(p),
           Lineage(entries, id) \cap strayed = {}
    PROVE  /\ BoundaryStart(p) \in 1 .. Len(p)
           /\ LastCompaction(p) = 0 => BoundaryStart(p) = 1
           /\ LastCompaction(p) # 0 =>
                 /\ BoundaryStart(p) <= LastCompaction(p)
                 /\ p[BoundaryStart(p)] = entries[p[LastCompaction(p)]].firstKept
                 /\ CutSound(entries, p[LastCompaction(p)], p[BoundaryStart(p)])
                 /\ Accounted(entries, p[LastCompaction(p)], p[BoundaryStart(p)], {})
<1> DEFINE c == LastCompaction(p)
           f == entries[p[c]].firstKept
<1>1. Tree(entries)
    BY TypeTree
<1>2. c \in 0 .. Len(p) /\ (c # 0 => entries[p[c]].kind = "compaction")
    BY LastCompactionIs
<1>3. Len(p) \in Nat /\ id \in 0 .. Len(entries) /\ p \in Seq(Nat)
    BY DEF Leads
<1>4. Len(p) > 0
  <2>1. p # <<>>
      BY DEF CanPrepare
  <2>2. QED
      BY <2>1, <1>3, EmptySeq
<1>5. BoundaryStart(p) = LET k == IF c = 0 THEN 0 ELSE Index(p, f)
                         IN  IF k > 0 THEN k ELSE c + 1
    BY DEF BoundaryStart
<1> HIDE DEF c
<1>6. c = 0 => BoundaryStart(p) = 1
    BY <1>5
<1>7. ASSUME c # 0
      PROVE  /\ BoundaryStart(p) \in 1 .. Len(p)
             /\ BoundaryStart(p) <= c
             /\ p[BoundaryStart(p)] = f
             /\ CutSound(entries, p[c], f)
             /\ Accounted(entries, p[c], f, {})
  <2> DEFINE n == p[c]
  <2>1. c \in 1 .. Len(p)
      BY <1>2, <1>3, <1>7
  <2>2. n \in 1 .. Len(entries) /\ n \in Lineage(entries, id) /\ entries[n].kind = "compaction"
      BY <2>1, <1>2 DEF Leads
  <2>3. \A x : x \in Lineage(entries, n) <=> x \in Lineage(entries, id) /\ x <= n
      BY <1>1, <1>3, <2>2, LineOrder
  <2>4. n \in DOMAIN entries /\ Lineage(entries, n) \cap strayed = {}
      BY <2>2, <2>3, <1>1 DEF Tree
  <2>5. CutSound(entries, n, f) /\ Accounted(entries, n, f, {})
      BY <2>2, <2>4 DEF KeptInv
  <2>6. f \in Lineage(entries, id) /\ f <= n
      BY <2>5, <2>3 DEF CutSound
  <2>7. PICK k \in 1 .. Len(p) : p[k] = f
      BY <2>6 DEF Leads
  <2>8. Index(p, f) = k
      BY <2>7, IndexIs
  <2>9. BoundaryStart(p) = k
      BY <2>8, <1>5, <1>7
  <2>10. k <= c
    <3>1. c < k <=> p[c] < p[k]
        BY <2>1 DEF Leads
    <3>2. p[c] \in Nat /\ p[k] \in Nat
        BY <2>1, <1>3, ElementOfSeq
    <3>3. ~ (p[c] < p[k])
        BY <3>2, <2>6, <2>7
    <3>4. QED
        BY <3>1, <3>3, <2>1, <1>3
  <2>11. QED
      BY <2>5, <2>7, <2>9, <2>10
<1>8. BoundaryStart(p) \in 1 .. Len(p)
    BY <1>3, <1>4, <1>6, <1>7
<1>9. QED
    BY <1>6, <1>7, <1>8 DEF c

LEMMA ClosestCutIs ==
    ASSUME NEW p, NEW id, Leads(p, id), NEW start \in 1 .. Len(p), CutPoints(p, start) # {}
    PROVE  ClosestCut(p, start) \in CutPoints(p, start)
<1> DEFINE cuts  == CutPoints(p, start)
           full  == {i \in From(p, start) \cap Places(p, MessageKinds) :
                       TokensFrom(p, i) >= KeepRecent}
           later == {c \in cuts : full # {} /\ c >= Max(full)}
<1>1. cuts \in SUBSET Nat
    BY DEF CutPoints, From, Leads
<1>2. ClosestCut(p, start) = IF later = {} THEN Min(cuts) ELSE Min(later)
    BY DEF ClosestCut
<1>3. later \in SUBSET Nat /\ later \subseteq cuts
    BY <1>1
<1> HIDE DEF cuts, later
<1>4. later # {} => Min(later) \in later
    BY <1>3, MinIs
<1>5. cuts # {}
    BY DEF cuts
<1>6. Min(cuts) \in cuts
    BY <1>1, <1>5, MinIs
<1>7. QED
    BY <1>2, <1>3, <1>4, <1>6 DEF cuts

LEMMA ScanBackIs ==
    ASSUME NEW p, NEW start \in Nat, NEW cut \in Nat, start <= cut
    PROVE  /\ ScanBack(p, start, cut) \in start .. cut
           /\ \A j \in ScanBack(p, start, cut) .. cut - 1 :
                 Kind(p, j) \notin MessageKinds \cup {"compaction"}
<1> DEFINE S == {c \in start .. cut : \A j \in c .. cut - 1 :
                    Kind(p, j) \notin MessageKinds \cup {"compaction"}}
<1>1. S \in SUBSET Nat
    OBVIOUS
<1>2. cut \in S
    OBVIOUS
<1>3. ScanBack(p, start, cut) = Min(S)
    BY DEF ScanBack
<1> HIDE DEF S
<1>4. Min(S) \in S
    BY <1>1, <1>2, MinIs
<1>5. QED
    BY <1>3, <1>4 DEF S

LEMMA FirstKeptIs ==
    ASSUME NEW p, NEW id, Leads(p, id), NEW start \in 1 .. Len(p)
    PROVE  /\ FirstKept(p, start) \in start .. Len(p)
           /\ \/ CutPoints(p, start) = {} /\ FirstKept(p, start) = start
              \/ \E c \in CutPoints(p, start) :
                    /\ FirstKept(p, start) <= c
                    /\ \A j \in FirstKept(p, start) .. c - 1 : entries[p[j]].kind # "result"
<1>1. Len(p) \in Nat
    BY DEF Leads
<1>2. CASE CutPoints(p, start) = {}
  <2>1. FirstKept(p, start) = start
      BY <1>2 DEF FirstKept
  <2>2. QED
      BY <2>1, <1>1, <1>2
<1>3. CASE CutPoints(p, start) # {}
  <2> DEFINE c == ClosestCut(p, start)
             k == ScanBack(p, start, c)
  <2>1. c \in CutPoints(p, start)
      BY <1>3, ClosestCutIs
  <2>2. FirstKept(p, start) = k
      BY <1>3 DEF FirstKept
  <2>3. c \in 1 .. Len(p) /\ start <= c
      BY <2>1 DEF CutPoints, From, Leads
  <2> HIDE DEF c
  <2>4. start \in Nat /\ c \in Nat
      BY <2>3, <1>1
  <2>5. k \in start .. c /\ \A j \in k .. c - 1 : Kind(p, j) \notin MessageKinds \cup {"compaction"}
      BY <2>3, <2>4, ScanBackIs
  <2> HIDE DEF k
  <2>6. \A j \in k .. c - 1 : entries[p[j]].kind # "result"
      BY <2>5 DEF Kind, MessageKinds
  <2>7. k \in start .. Len(p) /\ k <= c
      BY <2>3, <2>5, <1>1
  <2>8. QED
      BY <2>1, <2>2, <2>6, <2>7
<1>4. QED
    BY <1>2, <1>3

LEMMA TurnStartIs ==
    ASSUME NEW p, NEW id, Leads(p, id), NEW start \in 1 .. Len(p), NEW cut \in start .. Len(p)
    PROVE  TurnStart(p, start, cut) = 0 \/ TurnStart(p, start, cut) \in start .. cut
<1> DEFINE S == (start .. cut) \cap Places(p, {"user", "bash"} \cup CustomKinds)
<1>1. Len(p) \in Nat
    BY DEF Leads
<1>2. S \in SUBSET (1 .. Len(p)) /\ S \subseteq start .. cut
    BY <1>1
<1>3. TurnStart(p, start, cut) = 0 \/ TurnStart(p, start, cut) = Max({0} \cup S)
    BY DEF TurnStart
<1> HIDE DEF S
<1>4. Max({0} \cup S) # 0 => Max({0} \cup S) \in S
    BY <1>1, <1>2, LastIs
<1>5. QED
    BY <1>2, <1>3, <1>4

LEMMA SpokenIs ==
    ASSUME NEW p, NEW id, Leads(p, id), NEW i \in Nat, NEW j \in Int
    PROVE  /\ Spoken(p, i, j) \subseteq Lineage(entries, id)
           /\ \A a \in 1 .. Len(p) :
                 i <= a /\ a <= j /\ entries[p[a]].kind \in SpokenKinds => p[a] \in Spoken(p, i, j)
<1>1. /\ Places(p, SpokenKinds) \subseteq 1 .. Len(p)
      /\ \A a : a \in Places(p, SpokenKinds) <=> a \in 1 .. Len(p) /\ entries[p[a]].kind \in SpokenKinds
    BY PlacesAre
<1>2. \A a \in 1 .. Len(p) : p[a] \in Lineage(entries, id)
    BY DEF Leads
<1>3. Spoken(p, i, j) \subseteq Lineage(entries, id)
    BY <1>1, <1>2 DEF Spoken
<1>4. \A a \in 1 .. Len(p) : i <= a /\ a <= j => a \in i .. j
    BY DEF Leads
<1>5. QED
    BY <1>1, <1>3, <1>4 DEF Spoken

(* What is prepared on a path without strayed compactions cuts soundly, and  *)
(* the messages it leaves out and has not collected were summarized before.  *)
LEMMA PreparationSound ==
    ASSUME CompactionTypeOK, KeptInv, NEW p, NEW id, Leads(p, id), CanPrepare(p),
           Lineage(entries, id) \cap strayed = {}
    PROVE  LET q == Preparation(p)
           IN  /\ CutSound(entries, id, q.firstKept)
               /\ Accounted(entries, id, q.firstKept, q.summarize \cup q.turnPrefix)
<1> DEFINE c     == LastCompaction(p)
           start == BoundaryStart(p)
           cut   == FirstKept(p, start)
           turn  == TurnStart(p, start, cut)
           q     == Preparation(p)
           f     == p[cut]
<1>1. Tree(entries)
    BY TypeTree
<1>2. Len(p) \in Nat /\ id \in 0 .. Len(entries) /\ p \in Seq(Nat)
    BY DEF Leads
<1>3. c \in 0 .. Len(p)
    BY LastCompactionIs
<1>4. /\ start \in 1 .. Len(p)
      /\ c = 0 => start = 1
      /\ c # 0 => /\ start <= c
                  /\ CutSound(entries, p[c], p[start])
                  /\ Accounted(entries, p[c], p[start], {})
    BY BoundaryIs
<1>5. /\ cut \in start .. Len(p)
      /\ \/ CutPoints(p, start) = {} /\ cut = start
         \/ \E d \in CutPoints(p, start) :
               cut <= d /\ \A j \in cut .. d - 1 : entries[p[j]].kind # "result"
    BY <1>4, FirstKeptIs
<1>6. /\ q.firstKept = f
      /\ q.summarize = Spoken(p, start, (IF turn = 0 THEN cut ELSE turn) - 1)
      /\ q.turnPrefix = IF turn = 0 THEN {} ELSE Spoken(p, turn, cut - 1)
    BY DEF Preparation
<1> HIDE DEF c, start
<1>7. turn = 0 \/ turn \in start .. cut
    BY <1>4, <1>5, TurnStartIs
<1> HIDE DEF cut, turn, q
<1>8. cut \in 1 .. Len(p) /\ start \in Nat /\ cut \in Nat
    BY <1>2, <1>4, <1>5
<1>9. f \in Lineage(entries, id) /\ p[start] \in Lineage(entries, id)
    BY <1>4, <1>8 DEF Leads
<1>10. c # 0 => /\ p[c] \in Lineage(entries, id)
                /\ \A x : x \in Lineage(entries, p[c]) <=> x \in Lineage(entries, id) /\ x <= p[c]
  <2>1. c # 0 => c \in 1 .. Len(p)
      BY <1>2, <1>3
  <2>2. c # 0 => p[c] \in Lineage(entries, id)
      BY <2>1 DEF Leads
  <2>3. QED
      BY <2>2, <1>1, <1>2, LineOrder
<1>11. CutSound(entries, id, f)
  <2>1. CASE CutPoints(p, start) = {} /\ cut = start
    <3>1. CASE c = 0
      <4>1. cut = 1 /\ Len(p) > 0
          BY <2>1, <3>1, <1>4, <1>2
      <4>2. entries[f].parent = 0
          BY <4>1 DEF Leads
      <4>3. QED
          BY <4>2, <1>9 DEF CutSound
    <3>2. CASE c # 0
      <4>1. CutSound(entries, p[c], f)
          BY <2>1, <3>2, <1>4
      <4>2. ASSUME NEW d \in Lineage(entries, p[c]), f <= d, entries[d].kind \in SpokenKinds \ {"result"}
            PROVE  FALSE
        <5>1. d \in Lineage(entries, id)
            BY <3>2, <1>10
        <5>2. PICK a \in 1 .. Len(p) : p[a] = d
            BY <5>1 DEF Leads
        <5>3. ~ (a < start)
          <6>1. a < start <=> p[a] < p[start]
              BY <1>4 DEF Leads
          <6>2. p[a] \in Nat /\ p[start] \in Nat
              BY <1>2, <1>4, ElementOfSeq
          <6>3. p[start] <= p[a]
              BY <2>1, <4>2, <5>2
          <6>4. QED
              BY <6>1, <6>2, <6>3
        <5>4. a \in From(p, start)
            BY <5>3, <1>2, <1>8 DEF From, Leads
        <5>5. a \in Places(p, SpokenKinds \ {"result"})
            BY <5>2, <4>2, PlacesAre
        <5>6. QED
            BY <5>4, <5>5, <2>1 DEF CutPoints
      <4>3. QED
          BY <4>1, <4>2, <1>9 DEF CutSound
    <3>3. QED
        BY <3>1, <3>2
  <2>2. CASE \E d \in CutPoints(p, start) :
                cut <= d /\ \A j \in cut .. d - 1 : entries[p[j]].kind # "result"
    <3>1. PICK d \in CutPoints(p, start) :
                cut <= d /\ \A j \in cut .. d - 1 : entries[p[j]].kind # "result"
        BY <2>2
    <3>2. d \in 1 .. Len(p) /\ entries[p[d]].kind \in SpokenKinds \ {"result"}
        BY <3>1, PlacesAre DEF CutPoints
    <3>3. p[d] \in Lineage(entries, id)
        BY <3>2 DEF Leads
    <3>4. f <= p[d]
      <4>1. cut < d <=> p[cut] < p[d]
          BY <1>8, <3>2 DEF Leads
      <4>2. p[cut] \in Nat /\ p[d] \in Nat
          BY <1>2, <1>8, <3>2, ElementOfSeq
      <4>3. cut = d \/ cut < d
          BY <3>1, <3>2, <1>8
      <4>4. QED
          BY <4>1, <4>2, <4>3
    <3>5. ASSUME NEW x \in Lineage(entries, id), f <= x, x < p[d]
          PROVE  entries[x].kind # "result"
      <4>1. PICK a \in 1 .. Len(p) : p[a] = x
          BY DEF Leads
      <4>2. a < cut <=> p[a] < p[cut]
          BY <1>8 DEF Leads
      <4>3. a < d <=> p[a] < p[d]
          BY <3>2 DEF Leads
      <4>4. p[cut] \in Nat /\ p[a] \in Nat /\ p[d] \in Nat
          BY <1>2, <1>8, <3>2, ElementOfSeq
      <4>5. ~ (a < cut) /\ a < d
          BY <3>5, <4>1, <4>2, <4>3, <4>4
      <4>6. a \in cut .. d - 1
          BY <4>5, <1>8, <1>2, <3>2
      <4>7. QED
          BY <4>1, <4>6, <3>1
    <3>6. QED
        BY <1>9, <3>2, <3>3, <3>4, <3>5 DEF CutSound
  <2>3. QED
      BY <2>1, <2>2, <1>5
<1>12. ASSUME NEW m \in Lineage(entries, id), m < f, entries[m].kind \in SpokenKinds
       PROVE  \/ m \in q.summarize \cup q.turnPrefix
              \/ \E d \in Lineage(entries, id) : entries[d].kind = "compaction" /\ m \in entries[d].covers
  <2>1. PICK a \in 1 .. Len(p) : p[a] = m
      BY DEF Leads
  <2>2. p[a] \in Nat /\ p[cut] \in Nat /\ p[start] \in Nat
      BY <1>2, <1>4, <1>8, ElementOfSeq
  <2>3. a < cut
    <3>1. a < cut <=> p[a] < p[cut]
        BY <1>8 DEF Leads
    <3>2. QED
        BY <3>1, <2>1, <1>12
  <2>4. CASE a < start
    <3>1. p[a] < p[start]
        BY <2>4, <1>4 DEF Leads
    <3>2. c # 0
        BY <2>4, <1>4, <1>2
    <3>3. p[c] \in Nat
      <4>1. c \in 1 .. Len(p)
          BY <3>2, <1>2, <1>3
      <4>2. QED
          BY <4>1, <1>2, ElementOfSeq
    <3>4. p[start] \in Lineage(entries, p[c])
        BY <3>2, <1>4 DEF CutSound
    <3>5. p[start] <= p[c]
        BY <3>2, <3>4, <1>10
    <3>6. m <= p[c] /\ m < p[start]
        BY <2>1, <2>2, <3>1, <3>3, <3>5
    <3>7. m \in Lineage(entries, p[c])
        BY <3>2, <3>6, <1>10
    <3>8. \E d \in Lineage(entries, p[c]) : entries[d].kind = "compaction" /\ m \in entries[d].covers
        BY <3>2, <3>6, <3>7, <1>4, <1>12 DEF Accounted
    <3>9. QED
        BY <3>2, <3>8, <1>10
  <2>5. CASE ~ (a < start)
    <3>1. start <= a /\ a <= cut - 1 /\ a \in Nat
        BY <2>3, <2>5, <1>2, <1>8
    <3>2. CASE turn = 0
      <4>1. q.summarize = Spoken(p, start, cut - 1)
          BY <3>2, <1>6
      <4>2. p[a] \in Spoken(p, start, cut - 1)
          BY <3>1, <1>8, <2>1, <1>12, SpokenIs
      <4>3. QED
          BY <4>1, <4>2, <2>1
    <3>3. CASE turn # 0 /\ a < turn
      <4>1. q.summarize = Spoken(p, start, turn - 1)
          BY <3>3, <1>6
      <4>2. turn \in Nat /\ a <= turn - 1
          BY <3>1, <3>3, <1>7, <1>8
      <4>3. p[a] \in Spoken(p, start, turn - 1)
          BY <4>2, <3>1, <1>8, <2>1, <1>12, SpokenIs
      <4>4. QED
          BY <4>1, <4>3, <2>1
    <3>4. CASE turn # 0 /\ ~ (a < turn)
      <4>1. q.turnPrefix = Spoken(p, turn, cut - 1)
          BY <3>4, <1>6
      <4>2. turn \in Nat /\ turn <= a
          BY <3>1, <3>4, <1>7, <1>8
      <4>3. p[a] \in Spoken(p, turn, cut - 1)
          BY <4>2, <3>1, <1>8, <2>1, <1>12, SpokenIs
      <4>4. QED
          BY <4>1, <4>3, <2>1
    <3>5. QED
        BY <3>2, <3>3, <3>4
  <2>6. QED
      BY <2>4, <2>5
<1>13. Accounted(entries, id, f, q.summarize \cup q.turnPrefix)
    BY <1>12 DEF Accounted
<1>14. QED
    BY <1>6, <1>11, <1>13 DEF q

-----------------------------------------------------------------------------
(* Compaction: what the model is shown *)

(* The place from which the context begins *)
LEMMA ContextIs ==
    ASSUME CompactionTypeOK, KeptInv, NEW p, NEW id, Leads(p, id),
           Lineage(entries, id) \cap strayed = {}
    PROVE  \E k \in Nat :
              /\ \A a : a \in Context(p) <=> a \in 1 .. Len(p) /\ k <= a /\ entries[p[a]].kind \in SpokenKinds
              /\ \/ k = 1
                 \/ \E c \in 1 .. Len(p) :
                       /\ entries[p[c]].kind = "compaction"
                       /\ k \in 1 .. c
                       /\ p[k] = entries[p[c]].firstKept
                       /\ CutSound(entries, p[c], p[k])
                       /\ Accounted(entries, p[c], p[k], {})
<1> DEFINE c    == LastCompaction(p)
           f    == entries[p[c]].firstKept
           kept == IF c = 0 THEN 1
                   ELSE LET k == Index(p, f) IN IF k \in 1 .. c THEN k ELSE c
<1>1. Context(p) = {i \in From(p, kept) : Kind(p, i) \in SpokenKinds}
    BY DEF Context
<1>2. Tree(entries)
    BY TypeTree
<1>3. c \in 0 .. Len(p) /\ (c # 0 => entries[p[c]].kind = "compaction")
    BY LastCompactionIs
<1>4. Len(p) \in Nat /\ id \in 0 .. Len(entries) /\ p \in Seq(Nat) /\ DOMAIN p = 1 .. Len(p)
    BY DEF Leads
<1> HIDE DEF c
<1>5. CASE c = 0
  <2>1. kept = 1
      BY <1>5
  <2> HIDE DEF kept
  <2>2. \A a : a \in Context(p) <=> a \in 1 .. Len(p) /\ 1 <= a /\ entries[p[a]].kind \in SpokenKinds
      BY <2>1, <1>1, <1>4 DEF From, Kind
  <2>3. QED
      BY <2>2
<1>6. CASE c # 0
  <2> DEFINE n == p[c]
  <2>1. c \in 1 .. Len(p)
      BY <1>3, <1>4, <1>6
  <2>2. n \in 1 .. Len(entries) /\ n \in Lineage(entries, id) /\ entries[n].kind = "compaction"
      BY <2>1, <1>3, <1>6 DEF Leads
  <2>3. \A x : x \in Lineage(entries, n) <=> x \in Lineage(entries, id) /\ x <= n
      BY <1>2, <1>4, <2>2, LineOrder
  <2>4. n \in DOMAIN entries /\ Lineage(entries, n) \cap strayed = {}
      BY <2>2, <2>3, <1>2 DEF Tree
  <2>5. CutSound(entries, n, f) /\ Accounted(entries, n, f, {})
      BY <2>2, <2>4 DEF KeptInv
  <2>6. f \in Lineage(entries, id) /\ f <= n
      BY <2>5, <2>3 DEF CutSound
  <2>7. PICK k \in 1 .. Len(p) : p[k] = f
      BY <2>6 DEF Leads
  <2>8. Index(p, f) = k
      BY <2>7, IndexIs
  <2>9. k <= c
    <3>1. c < k <=> p[c] < p[k]
        BY <2>1 DEF Leads
    <3>2. p[c] \in Nat /\ p[k] \in Nat
        BY <2>1, <1>4, ElementOfSeq
    <3>3. ~ (p[c] < p[k])
        BY <3>2, <2>6, <2>7
    <3>4. QED
        BY <3>1, <3>3, <2>1, <1>4
  <2>10. k \in 1 .. c /\ kept = k /\ k \in Nat
      BY <2>8, <2>9, <2>1, <1>4, <1>6
  <2> HIDE DEF kept
  <2>11. \A a : a \in Context(p) <=> a \in 1 .. Len(p) /\ k <= a /\ entries[p[a]].kind \in SpokenKinds
      BY <2>10, <1>1, <1>4 DEF From, Kind
  <2>12. QED
      BY <2>1, <2>2, <2>5, <2>7, <2>10, <2>11
<1>7. QED
    BY <1>5, <1>6

LEMMA OnCourseIs ==
    ASSUME CompactionTypeOK, OnCourse
    PROVE  Leads(Here, leaf) /\ Lineage(entries, leaf) \cap strayed = {}
<1>1. leaf \in 0 .. Len(entries)
    BY DEF CompactionTypeOK
<1>2. Leads(Here, leaf)
    BY <1>1, PathLeads DEF Here
<1>3. ToSet(Here) = Lineage(entries, leaf)
    BY PathIs DEF Here, Lineage
<1>4. QED
    BY <1>2, <1>3 DEF OnCourse

(* No sound cut parts a result from its call. *)
LEMMA CutKeepsCalls ==
    ASSUME NEW es, Tree(es), NEW id \in 0 .. Len(es),
           NEW n \in Lineage(es, id), NEW f, CutSound(es, n, f),
           NEW r \in Lineage(es, id), f <= r, es[r].kind = "result",
           NEW a, Awaited(es, r, a)
    PROVE  f <= a
<1>1. n \in 1 .. Len(es) /\ r \in 1 .. Len(es) /\ Len(es) \in Nat
    BY LineOrder DEF Tree
<1>2. \A x : x \in Lineage(es, n) <=> x \in Lineage(es, id) /\ x <= n
    BY LineOrder
<1>3. \A x : x \in Lineage(es, r) <=> x \in Lineage(es, id) /\ x <= r
    BY LineOrder
<1>4. a \in Lineage(es, id) /\ f \in Lineage(es, id)
    BY <1>2, <1>3 DEF Awaited, CutSound
<1>5. \A x \in Lineage(es, id) : x \in Nat
    BY LineOrder
<1>6. CASE es[f].parent = 0
    BY <1>4, <1>6, LineRoot
<1>7. CASE \E c \in Lineage(es, n) :
             /\ f <= c
             /\ es[c].kind \in SpokenKinds \ {"result"}
             /\ \A x \in Lineage(es, n) : f <= x /\ x < c => es[x].kind # "result"
  <2>1. PICK c \in Lineage(es, n) :
             /\ f <= c
             /\ es[c].kind \in SpokenKinds \ {"result"}
             /\ \A x \in Lineage(es, n) : f <= x /\ x < c => es[x].kind # "result"
      BY <1>7
  <2>2. c \in Lineage(es, id) /\ c \in Nat /\ r \in Nat /\ f \in Nat /\ a \in Nat /\ n \in Nat /\ c <= n
      BY <1>2, <1>4, <1>5
  <2>3. ~ (r < c)
    <3>1. r < c => r \in Lineage(es, n)
        BY <2>2, <1>2
    <3>2. QED
        BY <3>1, <2>1
  <2>4. c # r
      BY <2>1
  <2>5. c \in Lineage(es, r)
      BY <2>2, <2>3, <1>3
  <2>6. ~ (c > a)
      BY <2>1, <2>5 DEF Awaited, AfterCall, SpokenKinds, MessageKinds, CustomKinds
  <2>7. QED
      BY <2>1, <2>2, <2>6
<1>8. QED
    BY <1>6, <1>7 DEF CutSound

LEMMA ContextKeepsCalls ==
    ASSUME CompactionInv PROVE CallsKept
<1> SUFFICES ASSUME OnCourse, NEW i \in Context(Here), Kind(Here, i) = "result"
             PROVE  \E j \in Context(Here) : j < i /\ Here[j] = entries[Here[i]].call
    BY DEF CallsKept
<1> DEFINE p == Here
           r == p[i]
           a == entries[r].call
<1>1. CompactionTypeOK /\ KeptInv /\ CallInv /\ Tree(entries)
    BY TypeTree DEF CompactionInv
<1>2. Leads(p, leaf) /\ Lineage(entries, leaf) \cap strayed = {}
    BY <1>1, OnCourseIs
<1> HIDE DEF p
<1>3. PICK k \in Nat :
              /\ \A x : x \in Context(p) <=> x \in 1 .. Len(p) /\ k <= x /\ entries[p[x]].kind \in SpokenKinds
              /\ \/ k = 1
                 \/ \E c \in 1 .. Len(p) :
                       /\ entries[p[c]].kind = "compaction"
                       /\ k \in 1 .. c
                       /\ p[k] = entries[p[c]].firstKept
                       /\ CutSound(entries, p[c], p[k])
                       /\ Accounted(entries, p[c], p[k], {})
    BY <1>1, <1>2, ContextIs
<1>4. i \in 1 .. Len(p) /\ k <= i /\ entries[r].kind = "result"
    BY <1>3 DEF Kind, p
<1>5. Len(p) \in Nat /\ p \in Seq(Nat) /\ leaf \in 0 .. Len(entries)
    BY <1>2 DEF Leads
<1>6. r \in 1 .. Len(entries) /\ r \in Lineage(entries, leaf) /\ r \in DOMAIN entries
    BY <1>1, <1>2, <1>4 DEF Leads, Tree
<1>7. Awaited(entries, r, a)
    BY <1>1, <1>4, <1>6 DEF CallInv, AnswersInv
<1>8. \A x : x \in Lineage(entries, r) <=> x \in Lineage(entries, leaf) /\ x <= r
    BY <1>1, <1>5, <1>6, LineOrder
<1>9. a \in Lineage(entries, leaf) /\ a <= r /\ entries[a].kind = "assistant"
    BY <1>7, <1>8 DEF Awaited
<1>10. PICK j \in 1 .. Len(p) : p[j] = a
    BY <1>2, <1>9 DEF Leads
<1>11. p[j] \in Nat /\ p[i] \in Nat
    BY <1>4, <1>5, <1>10, ElementOfSeq
<1>12. j < i
  <2>1. j < i <=> p[j] < p[i]
      BY <1>2, <1>4, <1>10 DEF Leads
  <2>2. a # r
      BY <1>4, <1>9
  <2>3. QED
      BY <2>1, <2>2, <1>9, <1>10, <1>11
<1>13. k <= j
  <2>1. CASE k = 1
      BY <2>1, <1>10, <1>5
  <2>2. CASE \E c \in 1 .. Len(p) :
                       /\ k \in 1 .. c
                       /\ CutSound(entries, p[c], p[k])
    <3>1. PICK c \in 1 .. Len(p) :
                       /\ k \in 1 .. c
                       /\ CutSound(entries, p[c], p[k])
        BY <2>2
    <3>2. k \in 1 .. Len(p)
        BY <3>1, <1>5
    <3>3. p[k] \in Nat
        BY <3>2, <1>5, ElementOfSeq
    <3>4. p[k] <= p[i]
      <4>1. i < k <=> p[i] < p[k]
          BY <3>2, <1>2, <1>4 DEF Leads
      <4>2. QED
          BY <4>1, <3>2, <3>3, <1>4, <1>5, <1>11
    <3>5. p[c] \in Lineage(entries, leaf)
        BY <3>1, <1>2 DEF Leads
    <3>6. p[k] <= r
        BY <3>4
    <3>7. p[k] <= a
      <4> DEFINE n == p[c]
                 f == p[k]
      <4>1. n \in Lineage(entries, leaf) /\ CutSound(entries, n, f) /\ f <= r
          BY <3>1, <3>5, <3>6
      <4> HIDE DEF n, f, r, a
      <4>2. entries[r].kind = "result" /\ r \in Lineage(entries, leaf)
          BY <1>4, <1>6
      <4>3. f <= a
          BY <4>1, <4>2, <1>1, <1>5, <1>7, CutKeepsCalls
      <4>4. QED
          BY <4>3 DEF f
    <3>8. ~ (j < k)
      <4>1. j < k <=> p[j] < p[k]
          BY <3>2, <1>2, <1>10 DEF Leads
      <4>2. QED
          BY <4>1, <3>3, <3>7, <1>10, <1>11
    <3>9. QED
        BY <3>8, <1>10, <1>5
  <2>3. QED
      BY <2>1, <2>2, <1>3
<1>14. j \in Context(p)
    BY <1>3, <1>9, <1>10, <1>13 DEF SpokenKinds, MessageKinds
<1>15. QED
    BY <1>10, <1>12, <1>14 DEF p

LEMMA ContextAccounts ==
    ASSUME CompactionInv PROVE NoneUnsummarized
<1> SUFFICES ASSUME OnCourse, NEW i \in Places(Here, SpokenKinds)
             PROVE  \/ i \in Context(Here)
                    \/ \E c \in Places(Here, {"compaction"}) : Here[i] \in entries[Here[c]].covers
    BY DEF NoneUnsummarized
<1> DEFINE p == Here
<1>1. CompactionTypeOK /\ KeptInv /\ Tree(entries)
    BY TypeTree DEF CompactionInv
<1>2. Leads(p, leaf) /\ Lineage(entries, leaf) \cap strayed = {}
    BY <1>1, OnCourseIs
<1>3. i \in 1 .. Len(p) /\ entries[p[i]].kind \in SpokenKinds
    BY <1>2, PlacesAre
<1> HIDE DEF p
<1>4. PICK k \in Nat :
              /\ \A x : x \in Context(p) <=> x \in 1 .. Len(p) /\ k <= x /\ entries[p[x]].kind \in SpokenKinds
              /\ \/ k = 1
                 \/ \E c \in 1 .. Len(p) :
                       /\ entries[p[c]].kind = "compaction"
                       /\ k \in 1 .. c
                       /\ p[k] = entries[p[c]].firstKept
                       /\ CutSound(entries, p[c], p[k])
                       /\ Accounted(entries, p[c], p[k], {})
    BY <1>1, <1>2, ContextIs
<1>5. Len(p) \in Nat /\ p \in Seq(Nat) /\ leaf \in 0 .. Len(entries)
    BY <1>2 DEF Leads
<1>6. CASE k <= i
    BY <1>3, <1>4, <1>6 DEF p
<1>7. CASE ~ (k <= i)
  <2>1. i < k /\ k # 1
      BY <1>3, <1>5, <1>7
  <2>2. PICK c \in 1 .. Len(p) :
                       /\ k \in 1 .. c
                       /\ Accounted(entries, p[c], p[k], {})
      BY <1>4, <2>1
  <2>3. k \in 1 .. Len(p) /\ i < c
      BY <2>1, <2>2, <1>3, <1>5
  <2>4. p[i] < p[k] /\ p[i] < p[c]
      BY <2>1, <2>2, <2>3, <1>2, <1>3 DEF Leads
  <2>5. p[i] \in Nat /\ p[c] \in Nat /\ p[i] \in Lineage(entries, leaf) /\ p[c] \in Lineage(entries, leaf)
      BY <1>2, <1>3, <1>5, <2>2, ElementOfSeq DEF Leads
  <2>6. \A x : x \in Lineage(entries, p[c]) <=> x \in Lineage(entries, leaf) /\ x <= p[c]
      BY <1>1, <1>5, <2>5, LineOrder
  <2>7. p[i] \in Lineage(entries, p[c])
      BY <2>4, <2>5, <2>6
  <2>8. PICK d \in Lineage(entries, p[c]) : entries[d].kind = "compaction" /\ p[i] \in entries[d].covers
      BY <2>2, <2>4, <2>7, <1>3 DEF Accounted
  <2>9. PICK b \in 1 .. Len(p) : p[b] = d
      BY <2>6, <2>8, <1>2 DEF Leads
  <2>10. b \in Places(p, {"compaction"})
      BY <2>8, <2>9, <1>2, PlacesAre
  <2>11. QED
      BY <2>8, <2>9, <2>10 DEF p
<1>8. QED
    BY <1>6, <1>7

-----------------------------------------------------------------------------
(* Compaction: what an appended entry leaves as it was *)

(* fs has the entries of es and perhaps more, and so the same paths to them. *)
Extends(es, fs) ==
    /\ Tree(es) /\ Tree(fs)
    /\ Len(es) <= Len(fs)
    /\ \A i \in 1 .. Len(es) : fs[i] = es[i]
    /\ \A i \in 0 .. Len(es) : Lineage(fs, i) = Lineage(es, i)

LEMMA EntryAppended ==
    ASSUME NEW S, NEW es \in Seq(S), Tree(es), NEW e \in S, e.parent \in 0 .. Len(es)
    PROVE  LET fs == Append(es, e)
               n  == Len(es) + 1
           IN  /\ Extends(es, fs)
               /\ fs \in Seq(S) /\ Len(fs) = n /\ fs[n] = e
               /\ Lineage(fs, n) = Lineage(es, e.parent) \cup {n}
               /\ Lineage(fs, n) = Lineage(fs, e.parent) \cup {n}
               /\ \A i \in 0 .. Len(es) : n \notin Lineage(es, i)
<1> DEFINE fs == Append(es, e)
           n  == Len(es) + 1
<1>1. Len(es) \in Nat
    BY LenProperties
<1>2. fs \in Seq(S) /\ Len(fs) = n /\ (\A i \in 1 .. Len(es) : fs[i] = es[i]) /\ fs[n] = e
    BY AppendProperties
<1> HIDE DEF fs
<1>3. DOMAIN fs = 1 .. Len(fs) /\ Len(fs) \in Nat
    BY <1>2, LenProperties
<1>4. \A i \in 1 .. Len(fs) : fs[i].parent \in 0 .. i - 1
  <2> SUFFICES ASSUME NEW i \in 1 .. Len(fs) PROVE fs[i].parent \in 0 .. i - 1
      OBVIOUS
  <2>1. CASE i \in 1 .. Len(es)
      BY <2>1, <1>2 DEF Tree
  <2>2. CASE i = n
      BY <2>2, <1>1, <1>2
  <2>3. QED
      BY <2>1, <2>2, <1>1, <1>2
<1>5. Tree(fs)
    BY <1>3, <1>4 DEF Tree
<1>6. Len(es) <= Len(fs)
    BY <1>1, <1>2
<1>7. \A i \in 0 .. Len(es) : PathsOf(fs)[i] = PathsOf(es)[i]
    BY <1>2, <1>5, <1>6, PathsKept
<1>8. \A i \in 0 .. Len(es) : Lineage(fs, i) = Lineage(es, i)
    BY <1>7 DEF Lineage
<1>9. Extends(es, fs)
    BY <1>2, <1>5, <1>6, <1>8 DEF Extends
<1>10. n \in 1 .. Len(fs)
    BY <1>1, <1>2
<1>11. Lineage(fs, n) = Lineage(fs, e.parent) \cup {n}
    BY <1>2, <1>5, <1>10, LineStep
<1>12. Lineage(fs, e.parent) = Lineage(es, e.parent)
    BY <1>8
<1>13. \A i \in 0 .. Len(es) : n \notin Lineage(es, i)
  <2> SUFFICES ASSUME NEW i \in 0 .. Len(es), n \in Lineage(es, i) PROVE FALSE
      OBVIOUS
  <2>1. n \in 1 .. Len(es)
      BY LineOrder
  <2>2. QED
      BY <2>1, <1>1
<1>14. QED
    BY <1>2, <1>9, <1>11, <1>12, <1>13 DEF fs

LEMMA SameThere ==
    ASSUME NEW es, NEW fs, Extends(es, fs), NEW id \in 0 .. Len(es)
    PROVE  /\ \A a : Awaited(es, id, a) => Awaited(fs, id, a)
           /\ \A f : CutSound(es, id, f) => CutSound(fs, id, f)
           /\ \A f, C : Accounted(es, id, f, C) => Accounted(fs, id, f, C)
<1>1. Tree(es) /\ Lineage(fs, id) = Lineage(es, id)
    BY DEF Extends
<1>2. \A x \in Lineage(es, id) : x \in 1 .. Len(es)
    BY <1>1, LineOrder
<1>3. \A x \in Lineage(es, id) : fs[x] = es[x]
    BY <1>2 DEF Extends
<1>4. \A a : Awaited(es, id, a) => Awaited(fs, id, a)
    BY <1>1, <1>3 DEF Awaited
<1>5. \A f : CutSound(es, id, f) => CutSound(fs, id, f)
    BY <1>1, <1>3 DEF CutSound
<1>6. \A f, C : Accounted(es, id, f, C) => Accounted(fs, id, f, C)
    BY <1>1, <1>3 DEF Accounted
<1>7. QED
    BY <1>4, <1>5, <1>6

(* What holds of a path holds of the longer one. *)
LEMMA FurtherOn ==
    ASSUME NEW es, Tree(es), NEW id \in 0 .. Len(es), NEW on \in Lineage(es, id), NEW f
    PROVE  /\ CutSound(es, on, f) => CutSound(es, id, f)
           /\ \A C : CutSound(es, on, f) /\ Accounted(es, on, f, C) => Accounted(es, id, f, C)
<1>1. \A x : x \in Lineage(es, on) <=> x \in Lineage(es, id) /\ x <= on
    BY LineOrder
<1>2. \A x \in Lineage(es, id) : x \in Nat
    BY LineOrder
<1>3. ASSUME CutSound(es, on, f) PROVE CutSound(es, id, f)
  <2>1. f \in Lineage(es, id)
      BY <1>1, <1>3 DEF CutSound
  <2>2. CASE es[f].parent = 0
      BY <2>1, <2>2 DEF CutSound
  <2>3. CASE \E c \in Lineage(es, on) :
             /\ f <= c
             /\ es[c].kind \in SpokenKinds \ {"result"}
             /\ \A x \in Lineage(es, on) : f <= x /\ x < c => es[x].kind # "result"
    <3>1. PICK c \in Lineage(es, on) :
             /\ f <= c
             /\ es[c].kind \in SpokenKinds \ {"result"}
             /\ \A x \in Lineage(es, on) : f <= x /\ x < c => es[x].kind # "result"
        BY <2>3
    <3>2. c \in Lineage(es, id) /\ c <= on /\ c \in Nat /\ on \in Nat
        BY <1>1, <1>2
    <3>3. \A x \in Lineage(es, id) : x < c => x \in Lineage(es, on)
        BY <3>2, <1>1, <1>2
    <3>4. QED
        BY <2>1, <3>1, <3>2, <3>3 DEF CutSound
  <2>4. QED
      BY <1>3, <2>2, <2>3 DEF CutSound
<1>4. ASSUME NEW C, CutSound(es, on, f), Accounted(es, on, f, C) PROVE Accounted(es, id, f, C)
  <2>1. f \in Nat /\ on \in Nat /\ f <= on
      BY <1>1, <1>2, <1>4 DEF CutSound
  <2>2. \A m \in Lineage(es, id) : m < f => m \in Lineage(es, on)
      BY <2>1, <1>1, <1>2
  <2>3. \A x \in Lineage(es, on) : x \in Lineage(es, id)
      BY <1>1
  <2>4. QED
      BY <2>2, <2>3, <1>4 DEF Accounted
<1>5. QED
    BY <1>3, <1>4

-----------------------------------------------------------------------------
(* Compaction: steps *)

LEMMA PutIs ==
    ASSUME CompactionTypeOK, NEW e \in SessionEntry, e.parent \in 0 .. Len(entries), Put(e)
    PROVE  /\ Len(entries) \in Nat /\ DOMAIN entries = 1 .. Len(entries)
           /\ leaf' = Len(entries) + 1
           /\ Extends(entries, entries')
           /\ entries' \in Seq(SessionEntry)
           /\ Len(entries') = Len(entries) + 1
           /\ Len(entries') <= MaxEntries
           /\ DOMAIN entries' = 1 .. Len(entries) + 1
           /\ entries'[Len(entries) + 1] = e
           /\ Lineage(entries', Len(entries) + 1) = Lineage(entries, e.parent) \cup {Len(entries) + 1}
           /\ Lineage(entries', Len(entries) + 1) = Lineage(entries', e.parent) \cup {Len(entries) + 1}
           /\ \A i \in 0 .. Len(entries) : Len(entries) + 1 \notin Lineage(entries, i)
<1>1. entries \in Seq(SessionEntry) /\ Tree(entries)
    BY TypeTree DEF CompactionTypeOK
<1>2. Len(entries) \in Nat /\ DOMAIN entries = 1 .. Len(entries)
    BY <1>1, LenProperties
<1> PICK fs : fs = Append(entries, e)
    OBVIOUS
<1>3. entries' = fs /\ leaf' = Len(entries) + 1 /\ Len(entries) < MaxEntries
    BY DEF Put
<1>4. /\ Extends(entries, fs)
      /\ fs \in Seq(SessionEntry) /\ Len(fs) = Len(entries) + 1 /\ fs[Len(entries) + 1] = e
      /\ Lineage(fs, Len(entries) + 1) = Lineage(entries, e.parent) \cup {Len(entries) + 1}
      /\ Lineage(fs, Len(entries) + 1) = Lineage(fs, e.parent) \cup {Len(entries) + 1}
      /\ \A i \in 0 .. Len(entries) : Len(entries) + 1 \notin Lineage(entries, i)
    BY <1>1, EntryAppended
<1>5. DOMAIN fs = 1 .. Len(entries) + 1
    BY <1>4 DEF Extends, Tree
<1>6. Len(fs) <= MaxEntries
    BY <1>2, <1>3, <1>4, CompactionAssumption
<1>7. QED
    BY <1>2, <1>3, <1>4, <1>5, <1>6

(* An entry that is put leaves what is known of the others. *)
LEMMA PutKeeps ==
    ASSUME CompactionInv,
           NEW e \in SessionEntry, e.parent \in 0 .. Len(entries), Put(e),
           strayed' = strayed \/ strayed' = strayed \cup {Len(entries) + 1},
           \A x \in Compactors : preparing'[x] = preparing[x] \/ preparing'[x] = Nothing,
           leaving' = leaving \/ leaving' = Staying,
           e.kind = "result" => Awaited(entries', Len(entries) + 1, e.call),
           e.kind = "compaction" /\ Lineage(entries', Len(entries) + 1) \cap strayed' = {} =>
               /\ CutSound(entries', Len(entries) + 1, e.firstKept)
               /\ Accounted(entries', Len(entries) + 1, e.firstKept, {})
    PROVE  AnswersInv' /\ KeptInv' /\ PreparedInv' /\ LeavingInv'
<1> DEFINE es == entries
<1>0. PICK fs : fs = entries'
    OBVIOUS
<1>1. PICK n : n = Len(entries) + 1
    OBVIOUS
<1>2. /\ Len(es) \in Nat /\ DOMAIN es = 1 .. Len(es)
      /\ Extends(es, fs)
      /\ Len(fs) = n
      /\ DOMAIN fs = 1 .. n
      /\ fs[n] = e
      /\ \A i \in 0 .. Len(es) : n \notin Lineage(es, i)
  <2>1. CompactionTypeOK
      BY DEF CompactionInv
  <2>2. /\ Len(entries) \in Nat /\ DOMAIN entries = 1 .. Len(entries)
        /\ Extends(entries, entries')
        /\ Len(entries') = Len(entries) + 1
        /\ DOMAIN entries' = 1 .. Len(entries) + 1
        /\ entries'[Len(entries) + 1] = e
        /\ \A i \in 0 .. Len(entries) : Len(entries) + 1 \notin Lineage(entries, i)
      BY <2>1, PutIs
  <2>3. QED
      BY <2>2, <1>0, <1>1
<1>3. \A i \in DOMAIN fs :
          \/ i = n
          \/ i \in DOMAIN es /\ i \in 0 .. Len(es) /\ fs[i] = es[i] /\ Lineage(fs, i) = Lineage(es, i)
    BY <1>1, <1>2 DEF Extends
<1>4. \A i \in DOMAIN es : i \in DOMAIN fs /\ i \in 0 .. Len(es) /\ fs[i] = es[i] /\ Lineage(fs, i) = Lineage(es, i)
    BY <1>1, <1>2 DEF Extends
<1>5. PICK st : st = strayed'
    OBVIOUS
<1>6. \A i \in 0 .. Len(es) : Lineage(es, i) \cap st = {} => Lineage(es, i) \cap strayed = {}
    BY <1>5
<1>7. AnswersInv'
  <2> SUFFICES ASSUME NEW r \in DOMAIN fs, fs[r].kind = "result"
               PROVE  Awaited(fs, r, fs[r].call)
      BY <1>0 DEF AnswersInv
  <2>1. CASE r = n
      BY <2>1, <1>0, <1>1, <1>2
  <2>2. CASE r # n
    <3>1. r \in DOMAIN es /\ r \in 0 .. Len(es) /\ fs[r] = es[r]
        BY <2>2, <1>3
    <3>2. Awaited(es, r, es[r].call)
        BY <3>1 DEF CompactionInv, CallInv, AnswersInv
    <3>3. QED
        BY <3>1, <3>2, <1>2, SameThere
  <2>3. QED
      BY <2>1, <2>2
<1>8. KeptInv'
  <2> SUFFICES ASSUME NEW i \in DOMAIN fs, fs[i].kind = "compaction", Lineage(fs, i) \cap st = {}
               PROVE  CutSound(fs, i, fs[i].firstKept) /\ Accounted(fs, i, fs[i].firstKept, {})
      BY <1>0, <1>5 DEF KeptInv
  <2>1. CASE i = n
      BY <2>1, <1>0, <1>1, <1>2, <1>5
  <2>2. CASE i # n
    <3>1. i \in DOMAIN es /\ i \in 0 .. Len(es) /\ fs[i] = es[i] /\ Lineage(fs, i) = Lineage(es, i)
        BY <2>2, <1>3
    <3>2. Lineage(es, i) \cap strayed = {}
        BY <3>1, <1>6
    <3>3. CutSound(es, i, es[i].firstKept) /\ Accounted(es, i, es[i].firstKept, {})
        BY <3>1, <3>2 DEF CompactionInv, KeptInv
    <3>4. QED
        BY <3>1, <3>3, <1>2, SameThere
  <2>3. QED
      BY <2>1, <2>2
<1>9. PreparedInv'
  <2> SUFFICES ASSUME NEW x \in Compactors, preparing'[x] # Nothing
               PROVE  LET q == preparing'[x]
                      IN  /\ q.on \in DOMAIN fs
                          /\ q.summarize \cup q.turnPrefix \subseteq DOMAIN fs
                          /\ Lineage(fs, q.on) \cap st = {} =>
                                /\ CutSound(fs, q.on, q.firstKept)
                                /\ Accounted(fs, q.on, q.firstKept, q.summarize \cup q.turnPrefix)
      BY <1>0, <1>5 DEF PreparedInv
  <2>1. PICK q : q = preparing[x]
      OBVIOUS
  <2>2. preparing'[x] = q /\ q # Nothing
      BY <2>1
  <2>3. /\ q.on \in DOMAIN es
        /\ q.summarize \cup q.turnPrefix \subseteq DOMAIN es
        /\ Lineage(es, q.on) \cap strayed = {} =>
              /\ CutSound(es, q.on, q.firstKept)
              /\ Accounted(es, q.on, q.firstKept, q.summarize \cup q.turnPrefix)
      BY <2>1, <2>2 DEF CompactionInv, PreparedInv
  <2>4. PICK on, f, C : on = q.on /\ f = q.firstKept /\ C = q.summarize \cup q.turnPrefix
      OBVIOUS
  <2>5. /\ on \in DOMAIN fs /\ on \in 0 .. Len(es) /\ Lineage(fs, on) = Lineage(es, on)
        /\ C \subseteq DOMAIN fs
      BY <2>3, <2>4, <1>4
  <2>6. Lineage(fs, on) \cap st = {} => CutSound(es, on, f) /\ Accounted(es, on, f, C)
      BY <2>3, <2>4, <2>5, <1>6
  <2>7. Lineage(fs, on) \cap st = {} => CutSound(fs, on, f) /\ Accounted(fs, on, f, C)
      BY <2>5, <2>6, <1>2, SameThere
  <2>8. QED
      BY <2>2, <2>4, <2>5, <2>7
<1>10. LeavingInv'
  <2> SUFFICES ASSUME leaving' # Staying
               PROVE  LET g == leaving'
                      IN  /\ g.target \in DOMAIN fs
                          /\ g.collected \subseteq DOMAIN fs
                          /\ \A m \in g.shown :
                                /\ m \in DOMAIN fs
                                /\ \/ m \in g.collected
                                   \/ fs[m].kind = "result"
                                   \/ m \in Lineage(fs, g.target)
      BY <1>0 DEF LeavingInv
  <2>1. PICK g : g = leaving
      OBVIOUS
  <2>2. leaving' = g /\ g # Staying
      BY <2>1
  <2>3. /\ g.target \in DOMAIN es
        /\ g.collected \subseteq DOMAIN es
        /\ \A m \in g.shown :
              /\ m \in DOMAIN es
              /\ \/ m \in g.collected
                 \/ es[m].kind = "result"
                 \/ m \in Lineage(es, g.target)
      BY <2>1, <2>2 DEF CompactionInv, LeavingInv
  <2>4. /\ g.target \in DOMAIN fs /\ Lineage(fs, g.target) = Lineage(es, g.target)
        /\ g.collected \subseteq DOMAIN fs
        /\ \A m \in g.shown : m \in DOMAIN fs /\ fs[m] = es[m]
      BY <2>3, <1>4
  <2>5. QED
      BY <2>2, <2>3, <2>4
<1>11. QED
    BY <1>7, <1>8, <1>9, <1>10

(* The types after an entry is put. *)
LEMMA PutTypes ==
    ASSUME CompactionTypeOK,
           NEW e \in SessionEntry, e.parent \in 0 .. Len(entries), Put(e),
           strayed' = strayed \/ strayed' = strayed \cup {Len(entries) + 1},
           preparing' \in [Compactors -> CompactionPreparation],
           leaving' = leaving \/ leaving' = Staying,
           awaiting' \in {0, awaiting, Len(entries) + 1},
           moves' = moves
    PROVE  CompactionTypeOK'
<1>0. PICK fs : fs = entries'
    OBVIOUS
<1>1. /\ Len(entries) \in Nat /\ DOMAIN entries = 1 .. Len(entries)
      /\ leaf' = Len(entries) + 1
      /\ Extends(entries, fs)
      /\ fs \in Seq(SessionEntry)
      /\ Len(fs) = Len(entries) + 1
      /\ Len(fs) <= MaxEntries
      /\ DOMAIN fs = 1 .. Len(entries) + 1
    BY <1>0, PutIs
<1>2. \A i \in DOMAIN fs : fs[i].parent < i
  <2>1. \A i \in 1 .. Len(fs) : fs[i].parent \in 0 .. i - 1
      BY <1>1 DEF Extends, Tree
  <2>2. QED
      BY <2>1, <1>1
<1>3. leaf' \in 0 .. Len(fs) /\ awaiting' \in 0 .. Len(fs)
    BY <1>1 DEF CompactionTypeOK
<1>4. leaving' \in [target : EntryIds, collected : SUBSET EntryIds, shown : SUBSET EntryIds]
  <2>1. Staying \in [target : EntryIds, collected : SUBSET EntryIds, shown : SUBSET EntryIds]
      BY CompactionAssumption DEF Staying, EntryIds
  <2>2. QED
      BY <2>1 DEF CompactionTypeOK
<1>5. strayed' \subseteq DOMAIN fs
  <2>1. strayed \subseteq 1 .. Len(entries)
      BY <1>1 DEF CompactionTypeOK
  <2>2. PICK n : n = Len(entries)
      OBVIOUS
  <2>3. strayed' \subseteq strayed \cup {n + 1}
      BY <2>2
  <2>4. n \in Nat /\ strayed \subseteq 1 .. n /\ DOMAIN fs = 1 .. n + 1
      BY <2>1, <2>2, <1>1
  <2>5. QED
      BY <2>3, <2>4
<1>6. moves' \in 0 .. MaxMoves
    BY DEF CompactionTypeOK
<1>7. QED
    BY <1>0, <1>1, <1>2, <1>3, <1>4, <1>5, <1>6 DEF CompactionTypeOK

LEMMA StillAwaited ==
    ASSUME CompactionInv, NEW e \in SessionEntry, e.parent = leaf, Put(e),
           e.kind \in AfterCall, awaiting # 0
    PROVE  Awaited(entries', Len(entries) + 1, awaiting)
<1>1. CompactionTypeOK /\ leaf \in 0 .. Len(entries)
    BY DEF CompactionInv, CompactionTypeOK
<1>2. PICK fs : fs = entries'
    OBVIOUS
<1>3. PICK n : n = Len(entries) + 1
    OBVIOUS
<1>4. /\ Len(entries) \in Nat
      /\ Extends(entries, entries')
      /\ entries'[Len(entries) + 1] = e
      /\ Lineage(entries', Len(entries) + 1) = Lineage(entries, e.parent) \cup {Len(entries) + 1}
    BY <1>1, PutIs
<1>5. Extends(entries, fs) /\ fs[n] = e /\ Lineage(fs, n) = Lineage(entries, leaf) \cup {n}
    BY <1>2, <1>3, <1>4
<1>6. PICK a : a = awaiting
    OBVIOUS
<1>7. Awaited(entries, leaf, a)
    BY <1>6 DEF CompactionInv, CallInv
<1>8. Awaited(fs, leaf, a)
    BY <1>1, <1>5, <1>7, SameThere
<1>9. Lineage(fs, leaf) = Lineage(entries, leaf)
    BY <1>1, <1>5 DEF Extends
<1>10. Awaited(fs, n, a)
    BY <1>5, <1>8, <1>9 DEF Awaited
<1>11. QED
    BY <1>2, <1>3, <1>6, <1>10

LEMMA EntryForType ==
    ASSUME NEW kind \in SpokenKinds \cup {"setting", "compaction"},
           NEW parent \in EntryIds, NEW size \in Nat
    PROVE  /\ EntryFor(kind, parent, size) \in SessionEntry
           /\ EntryFor(kind, parent, size).kind = kind
           /\ EntryFor(kind, parent, size).parent = parent
           /\ EntryFor(kind, parent, size) =
                 [kind |-> kind, parent |-> parent, size |-> size, call |-> 0,
                  firstKept |-> 0, covers |-> {}]
BY CompactionAssumption DEF EntryFor, SessionEntry, EntryIds

LEMMA IdsAre ==
    ASSUME CompactionTypeOK
    PROVE  /\ Len(entries) \in Nat /\ DOMAIN entries = 1 .. Len(entries)
           /\ \A i \in 0 .. Len(entries) : i \in EntryIds /\ i \in Nat
           /\ \A i \in DOMAIN entries : i \in EntryIds /\ i \in 0 .. Len(entries)
           /\ \A i \in DOMAIN entries : entries[i] \in SessionEntry
           /\ \A i \in DOMAIN entries : entries[i].parent \in 0 .. Len(entries)
           /\ leaf \in EntryIds
<1>1. entries \in Seq(SessionEntry) /\ Len(entries) <= MaxEntries /\ leaf \in 0 .. Len(entries)
    BY DEF CompactionTypeOK
<1>2. Len(entries) \in Nat /\ DOMAIN entries = 1 .. Len(entries)
    BY <1>1, LenProperties
<1>3. \A i \in 0 .. Len(entries) : i \in EntryIds /\ i \in Nat
    BY <1>1, <1>2, CompactionAssumption DEF EntryIds
<1>4. \A i \in DOMAIN entries : entries[i] \in SessionEntry
    BY <1>1, <1>2, ElementOfSeq
<1>5. \A i \in DOMAIN entries : i \in 0 .. Len(entries)
    BY <1>2
<1>6. \A i \in DOMAIN entries : entries[i].parent \in 0 .. Len(entries)
  <2>1. \A i \in 1 .. Len(entries) : entries[i].parent \in 0 .. i - 1
      BY TypeTree DEF Tree
  <2>2. QED
      BY <2>1, <1>2
<1>7. QED
    BY <1>1, <1>2, <1>3, <1>4, <1>5, <1>6

LEMMA SayKeeps ==
    ASSUME CompactionInv, NEW kind \in Kinds, Say(kind)
    PROVE  CompactionInv'
<1>1. CompactionTypeOK
    BY DEF CompactionInv
<1>2. Len(entries) \in Nat /\ leaf \in EntryIds /\ leaf \in 0 .. Len(entries)
    BY <1>1, IdsAre DEF CompactionTypeOK
<1>3. PICK e, size : size = (IF kind \in MessageKinds THEN 1 ELSE 0) /\ e = EntryFor(kind, leaf, size)
    OBVIOUS
<1>4. Put(e) /\ size \in Nat
    BY <1>3 DEF Say
<1>5. /\ kind \in SpokenKinds \cup {"setting", "compaction"}
      /\ kind # "result" /\ kind # "compaction"
    BY CompactionAssumption DEF SpokenKinds, MessageKinds, CustomKinds
<1>6. e \in SessionEntry /\ e.kind = kind /\ e.parent = leaf
  <2>1. e = EntryFor(kind, leaf, size)
      BY <1>3
  <2>2. EntryFor(kind, leaf, size) \in SessionEntry
      BY <1>2, <1>4, <1>5, EntryForType
  <2>3. EntryFor(kind, leaf, size).kind = kind /\ EntryFor(kind, leaf, size).parent = leaf
      BY <1>2, <1>4, <1>5, EntryForType
  <2>4. QED
      BY <2>1, <2>2, <2>3
<1>7. e.parent \in 0 .. Len(entries)
    BY <1>2, <1>6
<1>8. /\ strayed' = strayed /\ preparing' = preparing /\ leaving' = leaving /\ moves' = moves
      /\ \/ kind = "assistant" /\ awaiting' = Len(entries) + 1
         \/ kind = "setting" /\ awaiting' = awaiting
         \/ awaiting' = 0
    BY DEF Say
<1>9. preparing' \in [Compactors -> CompactionPreparation]
    BY <1>1, <1>8 DEF CompactionTypeOK
<1>10. CompactionTypeOK'
    BY <1>1, <1>4, <1>6, <1>7, <1>8, <1>9, PutTypes
<1>11. AnswersInv' /\ KeptInv' /\ PreparedInv' /\ LeavingInv'
  <2>1. \A x \in Compactors : preparing'[x] = preparing[x] \/ preparing'[x] = Nothing
      BY <1>8
  <2>2. e.kind # "result" /\ e.kind # "compaction"
      BY <1>5, <1>6
  <2>3. QED
      BY <1>4, <1>6, <1>7, <1>8, <2>1, <2>2, PutKeeps
<1>12. awaiting' # 0 => Awaited(entries', leaf', awaiting')
  <2>1. /\ leaf' = Len(entries) + 1
        /\ entries'[Len(entries) + 1] = e
        /\ Lineage(entries', Len(entries) + 1) = Lineage(entries, e.parent) \cup {Len(entries) + 1}
      BY <1>1, <1>4, <1>6, <1>7, PutIs
  <2>2. CASE kind = "assistant" /\ awaiting' = Len(entries) + 1
    <3>1. PICK fs, n : fs = entries' /\ n = Len(entries) + 1
        OBVIOUS
    <3>2. n \in Lineage(fs, n) /\ fs[n].kind = "assistant" /\ leaf' = n /\ awaiting' = n
        BY <2>1, <2>2, <3>1, <1>6
    <3>3. \A x \in Lineage(entries, leaf) : ~ (x > n)
      <4>1. \A x \in Lineage(entries, leaf) : x \in 1 .. Len(entries)
          BY <1>1, <1>2, TypeTree, LineOrder
      <4>2. QED
          BY <4>1, <3>1, <1>2
    <3>4. \A x \in Lineage(fs, n) : ~ (x > n)
      <4>1. n \in Nat /\ Lineage(fs, n) = Lineage(entries, leaf) \cup {n}
          BY <2>1, <3>1, <1>2, <1>6
      <4>2. QED
          BY <4>1, <3>3
    <3>5. Awaited(fs, n, n)
        BY <3>2, <3>4 DEF Awaited
    <3>6. QED
        BY <3>1, <3>2, <3>5
  <2>3. CASE kind = "setting" /\ awaiting' = awaiting
    <3>1. e.kind \in AfterCall
        BY <2>3, <1>6 DEF AfterCall
    <3>2. awaiting # 0 => Awaited(entries', Len(entries) + 1, awaiting)
        BY <3>1, <1>4, <1>6, StillAwaited
    <3>3. QED
        BY <3>2, <2>1, <2>3
  <2>4. CASE awaiting' = 0
      BY <2>4
  <2>5. QED
      BY <2>2, <2>3, <2>4, <1>8
<1>13. QED
    BY <1>10, <1>11, <1>12 DEF CompactionInv, CallInv

LEMMA AnswerCallKeeps ==
    ASSUME CompactionInv, NEW size \in ResultSizes, AnswerCall(size)
    PROVE  CompactionInv'
<1>1. CompactionTypeOK
    BY DEF CompactionInv
<1>2. /\ Len(entries) \in Nat /\ leaf \in EntryIds /\ leaf \in 0 .. Len(entries)
      /\ awaiting \in EntryIds
    BY <1>1, IdsAre DEF CompactionTypeOK
<1>3. PICK e : e = [EntryFor("result", leaf, size) EXCEPT !.call = awaiting]
    OBVIOUS
<1>4. Put(e) /\ awaiting # 0
    BY <1>3 DEF AnswerCall
<1>5. size \in Nat /\ "result" \in SpokenKinds \cup {"setting", "compaction"}
    BY CompactionAssumption DEF SpokenKinds, MessageKinds
<1>6. /\ EntryFor("result", leaf, size) \in SessionEntry
      /\ EntryFor("result", leaf, size) =
                 [kind |-> "result", parent |-> leaf, size |-> size, call |-> 0,
                  firstKept |-> 0, covers |-> {}]
    BY <1>2, <1>5, EntryForType
<1>7. e = [kind |-> "result", parent |-> leaf, size |-> size, call |-> awaiting,
                  firstKept |-> 0, covers |-> {}]
    BY <1>3, <1>6
<1>8. e \in SessionEntry /\ e.kind = "result" /\ e.parent = leaf /\ e.call = awaiting
    BY <1>2, <1>3, <1>6, <1>7 DEF SessionEntry
<1>9. e.parent \in 0 .. Len(entries)
    BY <1>2, <1>8
<1>10. strayed' = strayed /\ preparing' = preparing /\ leaving' = leaving /\ moves' = moves /\ awaiting' = awaiting
    BY DEF AnswerCall
<1>11. preparing' \in [Compactors -> CompactionPreparation]
    BY <1>1, <1>10 DEF CompactionTypeOK
<1>12. CompactionTypeOK'
    BY <1>1, <1>4, <1>8, <1>9, <1>10, <1>11, PutTypes
<1>13. Awaited(entries', Len(entries) + 1, awaiting)
  <2>1. e.kind \in AfterCall
      BY <1>8 DEF AfterCall
  <2>2. QED
      BY <2>1, <1>4, <1>8, StillAwaited
<1>14. AnswersInv' /\ KeptInv' /\ PreparedInv' /\ LeavingInv'
  <2>1. \A x \in Compactors : preparing'[x] = preparing[x] \/ preparing'[x] = Nothing
      BY <1>10
  <2>2. e.kind = "result" => Awaited(entries', Len(entries) + 1, e.call)
      BY <1>8, <1>13
  <2>3. e.kind # "compaction"
      BY <1>8
  <2>4. QED
      BY <1>4, <1>8, <1>9, <1>10, <2>1, <2>2, <2>3, PutKeeps
<1>15. awaiting' # 0 => Awaited(entries', leaf', awaiting')
  <2>1. leaf' = Len(entries) + 1
      BY DEF AnswerCall, Put
  <2>2. QED
      BY <2>1, <1>10, <1>13
<1>16. QED
    BY <1>12, <1>14, <1>15 DEF CompactionInv, CallInv

LEMMA StartOnPath ==
    ASSUME NEW p, NEW id, Leads(p, id), CanPrepare(p)
    PROVE  BoundaryStart(p) \in 1 .. Len(p)
<1> DEFINE c == LastCompaction(p)
           f == entries[p[c]].firstKept
<1>1. c \in 0 .. Len(p) /\ (c # 0 => entries[p[c]].kind = "compaction")
    BY LastCompactionIs
<1>2. Len(p) \in Nat /\ p \in Seq(Nat) /\ DOMAIN p = 1 .. Len(p)
    BY DEF Leads
<1>3. Len(p) > 0 /\ entries[p[Len(p)]].kind # "compaction"
  <2>1. p # <<>>
      BY DEF CanPrepare
  <2>2. QED
      BY <2>1, <1>2, EmptySeq DEF CanPrepare, Kind
<1>4. BoundaryStart(p) = LET k == IF c = 0 THEN 0 ELSE Index(p, f)
                         IN  IF k > 0 THEN k ELSE c + 1
    BY DEF BoundaryStart
<1>5. Index(p, f) \in 0 .. Len(p)
  <2> DEFINE S == {i \in DOMAIN p : p[i] = f}
  <2>1. S \in SUBSET (1 .. Len(p))
      BY <1>2
  <2>2. Index(p, f) = Max({0} \cup S)
      BY DEF Index
  <2> HIDE DEF S
  <2>3. QED
      BY <2>1, <2>2, <1>2, LastIs
<1> HIDE DEF c, f
<1>6. c # Len(p)
  <2>1. SUFFICES ASSUME c = Len(p) PROVE FALSE
      OBVIOUS
  <2>2. c # 0 /\ entries[p[c]].kind # "compaction"
      BY <2>1, <1>2, <1>3
  <2>3. QED
      BY <2>2, <1>1
<1>7. c + 1 \in 1 .. Len(p)
  <2>1. PICK k, n : k = c /\ n = Len(p)
      OBVIOUS
  <2>2. k \in 0 .. n /\ n \in Nat /\ k # n
      BY <2>1, <1>1, <1>2, <1>6
  <2>3. k + 1 \in 1 .. n
      BY <2>2
  <2>4. QED
      BY <2>1, <2>3
<1>8. CASE c = 0
  <2>1. BoundaryStart(p) = c + 1
      BY <1>4, <1>8
  <2>2. QED
      BY <2>1, <1>7
<1>9. CASE c # 0
  <2>1. BoundaryStart(p) = IF Index(p, f) > 0 THEN Index(p, f) ELSE c + 1
      BY <1>4, <1>9
  <2>2. Index(p, f) > 0 => Index(p, f) \in 1 .. Len(p)
      BY <1>2, <1>5
  <2>3. QED
      BY <2>1, <2>2, <1>7
<1>10. QED
    BY <1>8, <1>9

LEMMA PreparationType ==
    ASSUME CompactionTypeOK, NEW p, NEW id, Leads(p, id), CanPrepare(p)
    PROVE  LET q == Preparation(p)
           IN  /\ q \in CompactionPreparation
               /\ q.on = id /\ id \in DOMAIN entries
               /\ q.summarize \cup q.turnPrefix \subseteq DOMAIN entries
<1> DEFINE c     == LastCompaction(p)
           start == BoundaryStart(p)
           cut   == FirstKept(p, start)
           turn  == TurnStart(p, start, cut)
           q     == Preparation(p)
           prev  == IF c = 0 THEN {} ELSE entries[p[c]].covers
           early == Spoken(p, start, (IF turn = 0 THEN cut ELSE turn) - 1)
           late  == IF turn = 0 THEN {} ELSE Spoken(p, turn, cut - 1)
<1>1. q = [on |-> Last(p), firstKept |-> p[cut], summarize |-> early,
           turnPrefix |-> late, previous |-> prev]
    BY DEF Preparation
<1>2. /\ Len(entries) \in Nat /\ DOMAIN entries = 1 .. Len(entries)
      /\ \A i \in DOMAIN entries : i \in EntryIds /\ entries[i] \in SessionEntry
    BY IdsAre
<1>3. Len(p) \in Nat /\ id \in 0 .. Len(entries) /\ Len(p) > 0
  <2>1. p # <<>> /\ p \in Seq(Nat)
      BY DEF CanPrepare, Leads
  <2>2. QED
      BY <2>1, EmptySeq, LenProperties DEF Leads
<1>4. start \in 1 .. Len(p)
    BY StartOnPath
<1>5. cut \in start .. Len(p)
    BY <1>4, FirstKeptIs
<1>6. turn = 0 \/ turn \in start .. cut
    BY <1>4, <1>5, TurnStartIs
<1>7. c \in 0 .. Len(p)
    BY LastCompactionIs
<1>8. \A x \in Lineage(entries, id) : x \in DOMAIN entries
    BY <1>2, <1>3, TypeTree, LineOrder
<1>9. Len(p) \in 1 .. Len(p)
    BY <1>3
<1>10. p[Len(p)] \in DOMAIN entries
    BY <1>2, <1>9 DEF Leads
<1>11. id # 0
  <2>1. p[Len(p)] \in Lineage(entries, id)
      BY <1>9 DEF Leads
  <2>2. Lineage(entries, 0) = {}
      BY TypeTree, LineStep
  <2>3. QED
      BY <2>1, <2>2
<1>12. Last(p) = id /\ id \in DOMAIN entries
    BY <1>2, <1>3, <1>11 DEF Last, Leads
<1> HIDE DEF c, start, cut, turn, q
<1>13. early \subseteq DOMAIN entries
  <2>1. start \in Nat /\ (IF turn = 0 THEN cut ELSE turn) - 1 \in Int
      BY <1>3, <1>4, <1>5, <1>6
  <2>2. early \subseteq Lineage(entries, id)
      BY <2>1, SpokenIs
  <2>3. QED
      BY <2>2, <1>8
<1>14. late \subseteq DOMAIN entries
  <2>1. CASE turn = 0
      BY <2>1
  <2>2. CASE turn # 0
    <3>1. turn \in Nat /\ cut - 1 \in Int
        BY <2>2, <1>3, <1>4, <1>5, <1>6
    <3>2. Spoken(p, turn, cut - 1) \subseteq Lineage(entries, id)
        BY <3>1, SpokenIs
    <3>3. QED
        BY <3>2, <1>8, <2>2
  <2>3. QED
      BY <2>1, <2>2
<1>15. prev \subseteq EntryIds
  <2>1. CASE c = 0
      BY <2>1
  <2>2. CASE c # 0
    <3>1. c \in 1 .. Len(p)
        BY <2>2, <1>3, <1>7
    <3>2. p[c] \in DOMAIN entries
        BY <3>1, <1>2 DEF Leads
    <3>3. entries[p[c]].covers \subseteq EntryIds
        BY <3>2, <1>2 DEF SessionEntry
    <3>4. QED
        BY <2>2, <3>3
  <2>3. QED
      BY <2>1, <2>2
<1>16. p[cut] \in EntryIds
  <2>1. cut \in 1 .. Len(p)
      BY <1>3, <1>4, <1>5
  <2>2. QED
      BY <2>1, <1>2 DEF Leads
<1> HIDE DEF early, late, prev
<1>17. early \subseteq EntryIds /\ late \subseteq EntryIds
    BY <1>2, <1>13, <1>14
<1>18. q \in CompactionPreparation
    BY <1>1, <1>2, <1>12, <1>15, <1>16, <1>17 DEF CompactionPreparation
<1>19. q.on = id /\ q.summarize \cup q.turnPrefix \subseteq DOMAIN entries
    BY <1>1, <1>12, <1>13, <1>14
<1>20. QED
    BY <1>12, <1>18, <1>19 DEF q

LEMMA PrepareKeeps ==
    ASSUME CompactionInv, NEW x \in Compactors, Prepare(x)
    PROVE  CompactionInv'
<1>1. CompactionTypeOK /\ KeptInv /\ leaf \in 0 .. Len(entries)
    BY DEF CompactionInv, CompactionTypeOK
<1>2. PICK p, q : p = Path(leaf) /\ q = Preparation(p)
    OBVIOUS
<1>3. Leads(p, leaf)
    BY <1>1, <1>2, PathLeads
<1>4. CanPrepare(p) /\ preparing' = [preparing EXCEPT ![x] = q]
    BY <1>2 DEF Prepare
<1>5. UNCHANGED <<entries, leaf, awaiting, leaving, moves, strayed>>
    BY DEF Prepare
<1>6. /\ q \in CompactionPreparation
      /\ q.on = leaf /\ leaf \in DOMAIN entries
      /\ q.summarize \cup q.turnPrefix \subseteq DOMAIN entries
    BY <1>1, <1>2, <1>3, <1>4, PreparationType
<1>7. Lineage(entries, leaf) \cap strayed = {} =>
          /\ CutSound(entries, leaf, q.firstKept)
          /\ Accounted(entries, leaf, q.firstKept, q.summarize \cup q.turnPrefix)
    BY <1>1, <1>2, <1>3, <1>4, PreparationSound
<1>8. preparing \in [Compactors -> CompactionPreparation]
    BY <1>1 DEF CompactionTypeOK
<1>9. preparing' \in [Compactors -> CompactionPreparation]
    BY <1>4, <1>6, <1>8
<1>10. CompactionTypeOK'
    BY <1>1, <1>5, <1>9 DEF CompactionTypeOK
<1>11. CallInv' /\ KeptInv' /\ LeavingInv'
    BY <1>5 DEF CompactionInv, CallInv, AnswersInv, KeptInv, LeavingInv
<1>12. PreparedInv'
  <2>1. PICK f : f = preparing'
      OBVIOUS
  <2> SUFFICES ASSUME NEW y \in Compactors, f[y] # Nothing
               PROVE  LET r == f[y]
                      IN  /\ r.on \in DOMAIN entries
                          /\ r.summarize \cup r.turnPrefix \subseteq DOMAIN entries
                          /\ Lineage(entries, r.on) \cap strayed = {} =>
                                /\ CutSound(entries, r.on, r.firstKept)
                                /\ Accounted(entries, r.on, r.firstKept, r.summarize \cup r.turnPrefix)
      BY <1>5, <2>1 DEF PreparedInv
  <2>2. CASE y = x
    <3>1. f[y] = q
        BY <2>1, <2>2, <1>4, <1>8
    <3>2. QED
        BY <3>1, <1>6, <1>7
  <2>3. CASE y # x
    <3>1. f[y] = preparing[y]
        BY <2>1, <2>3, <1>4, <1>8
    <3>2. QED
        BY <3>1 DEF CompactionInv, PreparedInv
  <2>4. QED
      BY <2>2, <2>3
<1>13. QED
    BY <1>10, <1>11, <1>12 DEF CompactionInv

LEMMA SaidIs ==
    ASSUME CompactionTypeOK, NEW ids \in SUBSET DOMAIN entries
    PROVE  Said(ids) \subseteq EntryIds /\ ids \subseteq Said(ids)
<1>1. \A i \in DOMAIN entries : i \in EntryIds /\ entries[i] \in SessionEntry
    BY IdsAre
<1>2. \A i \in ids : entries[i].covers \subseteq EntryIds /\ i \in EntryIds
    BY <1>1 DEF SessionEntry
<1>3. UNION {entries[i].covers : i \in ids} \subseteq EntryIds
    BY <1>2
<1>4. QED
    BY <1>2, <1>3 DEF Said

LEMMA SummaryIs ==
    ASSUME CompactionTypeOK, NEW q \in CompactionPreparation,
           q.summarize \cup q.turnPrefix \subseteq DOMAIN entries
    PROVE  Summary(q) \subseteq EntryIds /\ q.summarize \cup q.turnPrefix \subseteq Summary(q)
<1> DEFINE A == Said(q.summarize)
           B == Said(q.turnPrefix)
<1>1. q.summarize \in SUBSET DOMAIN entries /\ q.turnPrefix \in SUBSET DOMAIN entries
    OBVIOUS
<1>2. A \subseteq EntryIds /\ q.summarize \subseteq A
    BY <1>1, SaidIs
<1>3. B \subseteq EntryIds /\ q.turnPrefix \subseteq B
    BY <1>1, SaidIs
<1>4. q.previous \subseteq EntryIds
    BY DEF CompactionPreparation
<1>5. Summary(q) = (IF q.turnPrefix # {} /\ q.summarize = {} THEN {} ELSE A \cup q.previous) \cup B
    BY DEF Summary
<1> HIDE DEF A, B
<1>6. CASE q.turnPrefix # {} /\ q.summarize = {}
  <2>1. Summary(q) = B
      BY <1>5, <1>6
  <2>2. QED
      BY <2>1, <1>3, <1>6
<1>7. CASE ~ (q.turnPrefix # {} /\ q.summarize = {})
  <2>1. Summary(q) = (A \cup q.previous) \cup B
      BY <1>5, <1>7
  <2>2. QED
      BY <2>1, <1>2, <1>3, <1>4
<1>8. QED
    BY <1>6, <1>7

LEMMA NothingType == Nothing \in CompactionPreparation /\ {} \subseteq EntryIds
BY CompactionAssumption DEF Nothing, CompactionPreparation, EntryIds

(* What was prepared holds where the compaction comes to. *)
LEMMA ComesThere ==
    ASSUME NEW es, NEW fs, Extends(es, fs), NEW id \in 0 .. Len(es), NEW on \in Lineage(es, id),
           NEW n \in 1 .. Len(fs), id \in Lineage(fs, n),
           NEW f, NEW C, CutSound(es, on, f), Accounted(es, on, f, C)
    PROVE  CutSound(fs, n, f) /\ Accounted(fs, n, f, C)
<1>1. Tree(es) /\ Tree(fs) /\ Len(fs) \in Nat
    BY DEF Extends, Tree
<1>2. CutSound(es, id, f) /\ Accounted(es, id, f, C)
    BY <1>1, FurtherOn
<1>3. CutSound(fs, id, f) /\ Accounted(fs, id, f, C)
    BY <1>2, SameThere
<1>4. n \in 0 .. Len(fs)
    BY <1>1
<1>5. QED
    BY <1>1, <1>3, <1>4, FurtherOn

LEMMA CompactKeeps ==
    ASSUME CompactionInv, NEW x \in Compactors, Compact(x)
    PROVE  CompactionInv'
<1>1. CompactionTypeOK /\ Tree(entries)
    BY TypeTree DEF CompactionInv
<1>2. /\ Len(entries) \in Nat /\ leaf \in EntryIds /\ leaf \in 0 .. Len(entries)
    BY <1>1, IdsAre DEF CompactionTypeOK
<1>3. PICK q : q = preparing[x]
    OBVIOUS
<1>4. q # Nothing /\ preparing' = [preparing EXCEPT ![x] = Nothing]
    BY <1>3 DEF Compact
<1>5. preparing \in [Compactors -> CompactionPreparation] /\ q \in CompactionPreparation
    BY <1>1, <1>3 DEF CompactionTypeOK
<1>6. PICK f, C, S : f = q.firstKept /\ C = q.summarize \cup q.turnPrefix /\ S = Summary(q)
    OBVIOUS
<1>7. /\ q.on \in DOMAIN entries
      /\ C \subseteq DOMAIN entries
      /\ Lineage(entries, q.on) \cap strayed = {} =>
            CutSound(entries, q.on, f) /\ Accounted(entries, q.on, f, C)
    BY <1>3, <1>4, <1>6 DEF CompactionInv, PreparedInv
<1>8. S \subseteq EntryIds /\ C \subseteq S
    BY <1>1, <1>5, <1>6, <1>7, SummaryIs
<1>9. f \in EntryIds
    BY <1>5, <1>6 DEF CompactionPreparation
<1>10. PICK e : e = [EntryFor("compaction", leaf, 0) EXCEPT !.firstKept = f, !.covers = S]
    OBVIOUS
<1>11. Put(e)
    BY <1>3, <1>6, <1>10 DEF Compact
<1>12. e = [kind |-> "compaction", parent |-> leaf, size |-> 0, call |-> 0,
            firstKept |-> f, covers |-> S]
    BY <1>10 DEF EntryFor
<1>13. /\ e \in SessionEntry /\ e.kind = "compaction" /\ e.parent = leaf
       /\ e.firstKept = f /\ e.covers = S
  <2>1. 0 \in EntryIds
      BY CompactionAssumption DEF EntryIds
  <2>2. QED
      BY <2>1, <1>2, <1>8, <1>9, <1>12 DEF SessionEntry
<1>14. e.parent \in 0 .. Len(entries)
    BY <1>2, <1>13
<1>15. /\ leaving' = leaving /\ moves' = moves /\ awaiting' = awaiting
       /\ strayed' = IF Index(Path(leaf), q.on) > 0 THEN strayed
                     ELSE strayed \cup {Len(entries) + 1}
    BY <1>3 DEF Compact
<1>16. /\ preparing' \in [Compactors -> CompactionPreparation]
       /\ \A y \in Compactors : preparing'[y] = preparing[y] \/ preparing'[y] = Nothing
    BY <1>4, <1>5, NothingType
<1>17. CompactionTypeOK'
    BY <1>1, <1>11, <1>13, <1>14, <1>15, <1>16, PutTypes
<1>18. PICK fs, n, st : fs = entries' /\ n = Len(entries) + 1 /\ st = strayed'
    OBVIOUS
<1>19. /\ leaf' = n
       /\ Extends(entries, fs)
       /\ fs[n] = e
       /\ Lineage(fs, n) = Lineage(entries, leaf) \cup {n}
       /\ DOMAIN fs = 1 .. n /\ n \in Nat
       /\ Len(fs) = n
    BY <1>1, <1>2, <1>11, <1>13, <1>14, <1>18, PutIs
<1>20. ASSUME Lineage(fs, n) \cap st = {}
       PROVE  CutSound(fs, n, f) /\ Accounted(fs, n, f, {})
  <2>1. n \notin st
      BY <1>19, <1>20
  <2>2. Index(Path(leaf), q.on) > 0
      BY <2>1, <1>15, <1>18
  <2>3. Leads(Path(leaf), leaf)
      BY <1>1, <1>2, PathLeads
  <2>4. q.on \in Lineage(entries, leaf)
    <3>1. PICK p : p = Path(leaf)
        OBVIOUS
    <3>2. q.on \notin Lineage(entries, leaf) => Index(p, q.on) = 0
        BY <2>3, <3>1, IndexIs
    <3>3. QED
        BY <2>2, <3>1, <3>2
  <2>5. \A y \in Lineage(entries, q.on) : y \in Lineage(entries, leaf)
      BY <1>1, <1>2, <2>4, LineOrder
  <2>6. Lineage(entries, q.on) \cap strayed = {}
      BY <2>5, <1>15, <1>18, <1>19, <1>20
  <2>7. CutSound(entries, q.on, f) /\ Accounted(entries, q.on, f, C)
      BY <2>6, <1>7
  <2>8. leaf # 0
      BY <2>4, <1>1, LineStep
  <2>9. leaf \in Lineage(fs, n)
      BY <2>8, <1>1, <1>2, <1>19, LineOrder
  <2>10. n \in 1 .. Len(fs)
      BY <1>2, <1>18, <1>19
  <2>11. CutSound(fs, n, f) /\ Accounted(fs, n, f, C)
      BY <2>4, <2>7, <2>9, <2>10, <1>2, <1>19, ComesThere
  <2>12. Accounted(fs, n, f, {})
    <3>1. n \in Lineage(fs, n) /\ fs[n].kind = "compaction" /\ C \subseteq fs[n].covers
        BY <1>8, <1>13, <1>19
    <3>2. QED
        BY <2>11, <3>1 DEF Accounted
  <2>13. QED
      BY <2>11, <2>12
<1>21. AnswersInv' /\ KeptInv' /\ PreparedInv' /\ LeavingInv'
  <2>1. strayed' = strayed \/ strayed' = strayed \cup {Len(entries) + 1}
      BY <1>15
  <2>2. e.kind = "result" => Awaited(entries', Len(entries) + 1, e.call)
      BY <1>13
  <2>3. e.kind = "compaction" /\ Lineage(entries', Len(entries) + 1) \cap strayed' = {} =>
               /\ CutSound(entries', Len(entries) + 1, e.firstKept)
               /\ Accounted(entries', Len(entries) + 1, e.firstKept, {})
      BY <1>13, <1>18, <1>20
  <2>4. QED
      BY <1>11, <1>13, <1>14, <1>15, <1>16, <2>1, <2>2, <2>3, PutKeeps
<1>22. awaiting' # 0 => Awaited(entries', leaf', awaiting')
  <2>1. e.kind \in AfterCall
      BY <1>13 DEF AfterCall
  <2>2. awaiting # 0 => Awaited(entries', Len(entries) + 1, awaiting)
      BY <2>1, <1>11, <1>13, StillAwaited
  <2>3. leaf' = Len(entries) + 1
      BY <1>18, <1>19
  <2>4. QED
      BY <2>2, <2>3, <1>15
<1>23. QED
    BY <1>17, <1>21, <1>22 DEF CompactionInv, CallInv

LEMMA GiveUpKeeps ==
    ASSUME CompactionInv, NEW x \in Compactors, GiveUp(x)
    PROVE  CompactionInv'
<1>1. UNCHANGED <<entries, leaf, awaiting, leaving, moves, strayed>>
    BY DEF GiveUp
<1>2. preparing \in [Compactors -> CompactionPreparation]
    BY DEF CompactionInv, CompactionTypeOK
<1>3. /\ preparing' \in [Compactors -> CompactionPreparation]
      /\ \A y \in Compactors : preparing'[y] = preparing[y] \/ preparing'[y] = Nothing
    BY <1>2, NothingType DEF GiveUp
<1>4. CompactionTypeOK'
    BY <1>1, <1>3 DEF CompactionInv, CompactionTypeOK
<1>5. CallInv' /\ KeptInv' /\ LeavingInv'
    BY <1>1 DEF CompactionInv, CallInv, AnswersInv, KeptInv, LeavingInv
<1>6. PreparedInv'
  <2>1. PICK f : f = preparing'
      OBVIOUS
  <2> SUFFICES ASSUME NEW y \in Compactors, f[y] # Nothing
               PROVE  LET r == f[y]
                      IN  /\ r.on \in DOMAIN entries
                          /\ r.summarize \cup r.turnPrefix \subseteq DOMAIN entries
                          /\ Lineage(entries, r.on) \cap strayed = {} =>
                                /\ CutSound(entries, r.on, r.firstKept)
                                /\ Accounted(entries, r.on, r.firstKept, r.summarize \cup r.turnPrefix)
      BY <1>1, <2>1 DEF PreparedInv
  <2>2. f[y] = preparing[y]
      BY <2>1, <1>3
  <2>3. QED
      BY <2>2 DEF CompactionInv, PreparedInv
<1>7. QED
    BY <1>4, <1>5, <1>6 DEF CompactionInv

LEMMA NewLeafIs ==
    ASSUME CompactionTypeOK, NEW t \in DOMAIN entries
    PROVE  /\ NewLeaf(t) \in 0 .. Len(entries)
           /\ \A m \in Lineage(entries, t) : m = t \/ m \in Lineage(entries, NewLeaf(t))
<1>1. Tree(entries) /\ t \in 1 .. Len(entries) /\ Len(entries) \in Nat
    BY TypeTree DEF Tree
<1>2. entries[t].parent \in 0 .. Len(entries)
    BY IdsAre
<1>3. NewLeaf(t) = entries[t].parent \/ NewLeaf(t) = t
    BY DEF NewLeaf
<1>4. Lineage(entries, t) = Lineage(entries, entries[t].parent) \cup {t}
    BY <1>1, LineStep
<1>5. NewLeaf(t) \in 0 .. Len(entries)
    BY <1>1, <1>2, <1>3
<1>6. CASE NewLeaf(t) = t
    BY <1>5, <1>6
<1>7. CASE NewLeaf(t) = entries[t].parent
    BY <1>4, <1>5, <1>7
<1>8. QED
    BY <1>3, <1>6, <1>7

LEMMA NavigateKeeps ==
    ASSUME CompactionInv, NEW t \in DOMAIN entries, Navigate(t)
    PROVE  CompactionInv'
<1>1. CompactionTypeOK
    BY DEF CompactionInv
<1>2. /\ UNCHANGED <<entries, preparing, leaving, strayed>>
      /\ awaiting' = 0 /\ leaf' = NewLeaf(t)
      /\ moves < MaxMoves /\ moves' = moves + 1
    BY DEF Navigate, Navigable
<1>3. leaf' \in 0 .. Len(entries)
    BY <1>1, <1>2, NewLeafIs
<1>4. moves' \in 0 .. MaxMoves
    BY <1>1, <1>2, CompactionAssumption DEF CompactionTypeOK
<1>5. awaiting' \in 0 .. Len(entries)
    BY <1>1, <1>2, IdsAre
<1>6. CompactionTypeOK'
    BY <1>1, <1>2, <1>3, <1>4, <1>5 DEF CompactionTypeOK
<1>7. CallInv'
    BY <1>2 DEF CompactionInv, CallInv, AnswersInv
<1>8. KeptInv' /\ PreparedInv' /\ LeavingInv'
    BY <1>2 DEF CompactionInv, KeptInv, PreparedInv, LeavingInv
<1>9. QED
    BY <1>6, <1>7, <1>8 DEF CompactionInv

(* What the model is shown of a path is on it, and no setting. *)
LEMMA ShownIs ==
    ASSUME NEW p, NEW id, Leads(p, id)
    PROVE  \A m \in Shown(p) : m \in Lineage(entries, id) /\ entries[m].kind \in SpokenKinds
<1> SUFFICES ASSUME NEW m \in Shown(p)
             PROVE  m \in Lineage(entries, id) /\ entries[m].kind \in SpokenKinds
    OBVIOUS
<1>1. PICK i \in Context(p) : m = p[i]
    BY DEF Shown
<1>2. i \in DOMAIN p /\ Kind(p, i) \in SpokenKinds
    BY DEF Context, From
<1>3. QED
    BY <1>1, <1>2 DEF Leads, Kind

LEMMA StartLeavingKeeps ==
    ASSUME CompactionInv, NEW t \in DOMAIN entries, StartLeaving(t)
    PROVE  CompactionInv'
<1>1. CompactionTypeOK /\ Tree(entries) /\ leaf \in 0 .. Len(entries)
    BY TypeTree DEF CompactionInv, CompactionTypeOK
<1>2. /\ UNCHANGED <<entries, leaf, awaiting, preparing, strayed>>
      /\ moves < MaxMoves /\ moves' = moves + 1
      /\ leaving' = [target |-> t, collected |-> Collected(t), shown |-> Shown(Path(leaf))]
    BY DEF StartLeaving, Navigable
<1>3. t \in 0 .. Len(entries) /\ t \in EntryIds
    BY <1>1, IdsAre
<1>4. ToSet(Path(leaf)) = Lineage(entries, leaf) /\ ToSet(Path(t)) = Lineage(entries, t)
    BY PathIs DEF Lineage
<1>5. Collected(t) = {i \in Lineage(entries, leaf) \ Lineage(entries, t) :
                        entries[i].kind \notin {"result", "setting"}}
    BY <1>4 DEF Collected
<1>6. \A m \in Shown(Path(leaf)) : m \in Lineage(entries, leaf) /\ entries[m].kind \in SpokenKinds
  <2>1. PICK p : p = Path(leaf)
      OBVIOUS
  <2>2. Leads(p, leaf)
      BY <1>1, <2>1, PathLeads
  <2>3. \A m \in Shown(p) : m \in Lineage(entries, leaf) /\ entries[m].kind \in SpokenKinds
      BY <2>2, ShownIs
  <2>4. QED
      BY <2>1, <2>3
<1>7. \A m \in Lineage(entries, leaf) : m \in DOMAIN entries /\ m \in EntryIds
  <2>1. \A m \in Lineage(entries, leaf) : m \in 1 .. Len(entries)
      BY <1>1, LineOrder
  <2>2. QED
      BY <2>1, <1>1, IdsAre
<1>8. PICK g, sh : g = leaving' /\ sh = Shown(Path(leaf))
    OBVIOUS
<1>9. g.target = t /\ g.collected = Collected(t) /\ g.shown = sh
    BY <1>2, <1>8
<1>10. g \in [target : EntryIds, collected : SUBSET EntryIds, shown : SUBSET EntryIds]
  <2>1. Collected(t) \subseteq EntryIds /\ sh \subseteq EntryIds
      BY <1>5, <1>6, <1>7, <1>8
  <2>2. QED
      BY <2>1, <1>2, <1>3, <1>8
<1>11. moves' \in 0 .. MaxMoves
    BY <1>1, <1>2, CompactionAssumption DEF CompactionTypeOK
<1>12. CompactionTypeOK'
    BY <1>1, <1>2, <1>8, <1>10, <1>11 DEF CompactionTypeOK
<1>13. CallInv' /\ KeptInv' /\ PreparedInv'
    BY <1>2 DEF CompactionInv, CallInv, AnswersInv, KeptInv, PreparedInv
<1>14. \A m \in g.shown :
          /\ m \in DOMAIN entries
          /\ \/ m \in g.collected
             \/ entries[m].kind = "result"
             \/ m \in Lineage(entries, g.target)
    BY <1>5, <1>6, <1>7, <1>8, <1>9 DEF SpokenKinds, MessageKinds, CustomKinds
<1>15. g.collected \subseteq DOMAIN entries
    BY <1>5, <1>7, <1>9
<1>16. LeavingInv'
    BY <1>2, <1>8, <1>9, <1>14, <1>15 DEF LeavingInv
<1>17. QED
    BY <1>12, <1>13, <1>16 DEF CompactionInv

(* The entry with which a branch is left *)
LEMMA LeaveIs ==
    ASSUME CompactionInv, Leave
    PROVE  \E e \in SessionEntry :
              /\ e.kind = "branchSummary"
              /\ e.parent = NewLeaf(leaving.target) /\ e.parent \in 0 .. Len(entries)
              /\ leaving.collected \subseteq e.covers
              /\ Put(e)
<1>1. CompactionTypeOK /\ leaving # Staying
    BY DEF CompactionInv, Leave
<1>2. PICK t, S, d : t = leaving.target /\ S = Said(leaving.collected) /\ d = NewLeaf(t)
    OBVIOUS
<1>3. t \in DOMAIN entries /\ leaving.collected \in SUBSET DOMAIN entries
    BY <1>1, <1>2 DEF CompactionInv, LeavingInv
<1>4. S \subseteq EntryIds /\ leaving.collected \subseteq S
    BY <1>1, <1>2, <1>3, SaidIs
<1>5. d \in 0 .. Len(entries)
    BY <1>1, <1>2, <1>3, NewLeafIs
<1>6. d \in EntryIds /\ 0 \in EntryIds
    BY <1>1, <1>5, IdsAre, CompactionAssumption DEF EntryIds
<1>7. PICK e : e = [EntryFor("branchSummary", d, 0) EXCEPT !.covers = S]
    OBVIOUS
<1>8. Put(e)
    BY <1>2, <1>7 DEF Leave
<1>9. e = [kind |-> "branchSummary", parent |-> d, size |-> 0, call |-> 0,
           firstKept |-> 0, covers |-> S]
    BY <1>7 DEF EntryFor
<1>10. e \in SessionEntry /\ e.kind = "branchSummary" /\ e.parent = d /\ e.covers = S
    BY <1>4, <1>6, <1>9 DEF SessionEntry, SpokenKinds, CustomKinds
<1>11. QED
    BY <1>2, <1>4, <1>5, <1>8, <1>10

LEMMA LeaveKeeps ==
    ASSUME CompactionInv, Leave PROVE CompactionInv'
<1>1. CompactionTypeOK
    BY DEF CompactionInv
<1>2. PICK e \in SessionEntry :
              /\ e.kind = "branchSummary"
              /\ e.parent \in 0 .. Len(entries)
              /\ Put(e)
    BY LeaveIs
<1>3. /\ leaving' = Staying /\ awaiting' = 0
      /\ preparing' = preparing /\ moves' = moves /\ strayed' = strayed
    BY DEF Leave
<1>4. /\ preparing' \in [Compactors -> CompactionPreparation]
      /\ \A y \in Compactors : preparing'[y] = preparing[y] \/ preparing'[y] = Nothing
    BY <1>1, <1>3 DEF CompactionTypeOK
<1>5. CompactionTypeOK'
    BY <1>1, <1>2, <1>3, <1>4, PutTypes
<1>6. AnswersInv' /\ KeptInv' /\ PreparedInv' /\ LeavingInv'
  <2>1. e.kind # "result" /\ e.kind # "compaction"
      BY <1>2
  <2>2. QED
      BY <1>2, <1>3, <1>4, <2>1, PutKeeps
<1>7. QED
    BY <1>3, <1>5, <1>6 DEF CompactionInv, CallInv

LEMMA GiveUpLeavingKeeps ==
    ASSUME CompactionInv, GiveUpLeaving PROVE CompactionInv'
<1>1. UNCHANGED <<entries, leaf, awaiting, preparing, moves, strayed>> /\ leaving' = Staying
    BY DEF GiveUpLeaving
<1>2. Staying \in [target : EntryIds, collected : SUBSET EntryIds, shown : SUBSET EntryIds]
    BY CompactionAssumption DEF Staying, EntryIds
<1>3. CompactionTypeOK'
    BY <1>1, <1>2 DEF CompactionInv, CompactionTypeOK
<1>4. CallInv' /\ KeptInv' /\ PreparedInv'
    BY <1>1 DEF CompactionInv, CallInv, AnswersInv, KeptInv, PreparedInv
<1>5. LeavingInv'
    BY <1>1 DEF LeavingInv
<1>6. QED
    BY <1>3, <1>4, <1>5 DEF CompactionInv

-----------------------------------------------------------------------------
(* Compaction: the theorems *)

LEMMA CompactionStarts == CompactionInit => CompactionInv
<1> SUFFICES ASSUME CompactionInit PROVE CompactionInv
    OBVIOUS
<1>1. entries = <<>> /\ leaf = 0 /\ awaiting = 0 /\ leaving = Staying /\ moves = 0 /\ strayed = {}
    BY DEF CompactionInit
<1>2. Len(entries) = 0 /\ DOMAIN entries = {} /\ entries \in Seq(SessionEntry)
  <2>1. <<>> \in Seq(SessionEntry) /\ Len(<<>>) = 0
      BY EmptySeq
  <2>2. DOMAIN entries = 1 .. Len(entries)
      BY <2>1, <1>1, LenProperties
  <2>3. QED
      BY <2>1, <2>2, <1>1
<1>3. \A x \in Compactors : preparing[x] = Nothing
    BY DEF CompactionInit
<1>4. preparing \in [Compactors -> CompactionPreparation]
    BY NothingType DEF CompactionInit
<1>5. Staying \in [target : EntryIds, collected : SUBSET EntryIds, shown : SUBSET EntryIds]
    BY CompactionAssumption DEF Staying, EntryIds
<1>6. leaf \in 0 .. Len(entries) /\ awaiting \in 0 .. Len(entries) /\ Len(entries) <= MaxEntries
    BY <1>1, <1>2, CompactionAssumption
<1>7. moves \in 0 .. MaxMoves
    BY <1>1, CompactionAssumption
<1>8. CompactionTypeOK
    BY <1>1, <1>2, <1>4, <1>5, <1>6, <1>7 DEF CompactionTypeOK
<1>9. CallInv /\ KeptInv /\ PreparedInv /\ LeavingInv
    BY <1>1, <1>2, <1>3 DEF CallInv, AnswersInv, KeptInv, PreparedInv, LeavingInv
<1>10. QED
    BY <1>8, <1>9 DEF CompactionInv

LEMMA CompactionStep == CompactionInv /\ [CompactionNext]_compactionVars => CompactionInv'
<1> SUFFICES ASSUME CompactionInv, [CompactionNext]_compactionVars PROVE CompactionInv'
    OBVIOUS
<1>1. ASSUME NEW kind \in Kinds, Say(kind) PROVE CompactionInv'
    BY <1>1, SayKeeps
<1>2. ASSUME NEW size \in ResultSizes, AnswerCall(size) PROVE CompactionInv'
    BY <1>2, AnswerCallKeeps
<1>3. ASSUME NEW c \in Compactors, Prepare(c) PROVE CompactionInv'
    BY <1>3, PrepareKeeps
<1>4. ASSUME NEW c \in Compactors, Compact(c) PROVE CompactionInv'
    BY <1>4, CompactKeeps
<1>5. ASSUME NEW c \in Compactors, GiveUp(c) PROVE CompactionInv'
    BY <1>5, GiveUpKeeps
<1>6. ASSUME NEW t \in DOMAIN entries, Navigate(t) PROVE CompactionInv'
    BY <1>6, NavigateKeeps
<1>7. ASSUME NEW t \in DOMAIN entries, StartLeaving(t) PROVE CompactionInv'
    BY <1>7, StartLeavingKeeps
<1>8. CASE Leave
    BY <1>8, LeaveKeeps
<1>9. CASE GiveUpLeaving
    BY <1>9, GiveUpLeavingKeeps
<1>10. CASE UNCHANGED compactionVars
    BY <1>10 DEF compactionVars, CompactionInv, CompactionTypeOK, CallInv, AnswersInv,
                 KeptInv, PreparedInv, LeavingInv
<1>11. QED
    BY <1>1, <1>2, <1>3, <1>4, <1>5, <1>6, <1>7, <1>8, <1>9, <1>10 DEF CompactionNext

THEOREM CompactionInvariant == CompactionSpec => []CompactionInv
<1>1. CompactionInit => CompactionInv
    BY CompactionStarts
<1>2. CompactionInv /\ [CompactionNext]_compactionVars => CompactionInv'
    BY CompactionStep
<1>3. QED
    BY <1>1, <1>2, PTL DEF CompactionSpec

(* In every state the entries form a tree, each after its parent, and what  *)
(* is being prepared, collected or answered names entries of the session    *)
(* (sessionEntryToContextMessages, prepareCompaction, navigateTree).        *)
THEOREM CompactionTypeCorrect == CompactionSpec => []CompactionTypeOK
<1>1. CompactionInv => CompactionTypeOK
    BY DEF CompactionInv
<1>2. QED
    BY <1>1, CompactionInvariant, PTL

(* However often and by however many compactors a session is compacted, and *)
(* whatever is said, answered or navigated meanwhile, a tool result is      *)
(* never shown to the model without the reply whose call it answers         *)
(* (findValidCutPoints, the scan back of findCutPoint,                      *)
(* buildSessionContext).                                                    *)
THEOREM CallsStayAnswered == CompactionSpec => []CallsKept
<1>1. CompactionInv => CallsKept
    BY ContextKeepsCalls
<1>2. QED
    BY <1>1, CompactionInvariant, PTL

(* Nothing that was said on the path to the leaf is neither shown to the    *)
(* model nor in the prompt of a summary on that path, through repeated and  *)
(* overlapping compactions (prepareCompaction's boundary start, compact).   *)
THEOREM NothingUnsummarized == CompactionSpec => []NoneUnsummarized
<1>1. CompactionInv => NoneUnsummarized
    BY ContextAccounts
<1>2. QED
    BY <1>1, CompactionInvariant, PTL

LEMMA LeaveAccounts ==
    ASSUME CompactionInv, Leave, NEW m \in leaving.shown
    PROVE  \/ m = leaving.target
           \/ entries[m].kind = "result"
           \/ m \in ToSet(Here')
           \/ m \in entries'[leaf'].covers
<1>1. CompactionTypeOK /\ leaving # Staying
    BY DEF CompactionInv, Leave
<1>2. PICK e \in SessionEntry :
              /\ e.parent = NewLeaf(leaving.target) /\ e.parent \in 0 .. Len(entries)
              /\ leaving.collected \subseteq e.covers
              /\ Put(e)
    BY LeaveIs
<1>3. PICK t : t = leaving.target
    OBVIOUS
<1>4. /\ t \in DOMAIN entries
      /\ \/ m \in leaving.collected
         \/ entries[m].kind = "result"
         \/ m \in Lineage(entries, t)
    BY <1>1, <1>3 DEF CompactionInv, LeavingInv
<1>5. PICK fs, n : fs = entries' /\ n = Len(entries) + 1
    OBVIOUS
<1>6. /\ leaf' = n
      /\ fs[n] = e
      /\ Lineage(fs, n) = Lineage(entries, e.parent) \cup {n}
    BY <1>1, <1>2, <1>5, PutIs
<1>7. CASE m \in leaving.collected
  <2>1. m \in entries'[leaf'].covers
      BY <1>2, <1>5, <1>6, <1>7
  <2>2. QED
      BY <2>1
<1>8. CASE m \in Lineage(entries, t)
  <2>1. m = t \/ m \in Lineage(entries, NewLeaf(t))
      BY <1>1, <1>4, <1>8, NewLeafIs
  <2>2. m = t \/ m \in Lineage(fs, n)
      BY <2>1, <1>2, <1>3, <1>6
  <2>3. Here' = PathsOf(entries')[leaf']
      BY DEF Here, Path, PathsOf, Link
  <2>4. ToSet(Here') = Lineage(fs, n)
      BY <2>3, <1>5, <1>6 DEF Lineage
  <2>5. QED
      BY <2>2, <2>4, <1>3
<1>9. QED
    BY <1>4, <1>7, <1>8

(* When a branch is left with a summary, every message the model was shown  *)
(* on it is on the path the session goes on from or in that summary; but    *)
(* results, which go with their calls, and the prompt that goes back to the *)
(* editor (collectEntriesForBranchSummary, branchWithSummary).              *)
THEOREM BranchesAccounted == CompactionSpec => BranchAccounted
<1> DEFINE A == Leave => \A m \in leaving.shown :
                  \/ m = leaving.target
                  \/ entries[m].kind = "result"
                  \/ m \in ToSet(Here')
                  \/ m \in entries'[leaf'].covers
<1>1. CompactionInv /\ [CompactionNext]_compactionVars => [A]_compactionVars
    BY LeaveAccounts
<1> HIDE DEF A
<1>2. [][CompactionNext]_compactionVars /\ []CompactionInv => [][A]_compactionVars
    BY <1>1, PTL
<1>3. CompactionSpec => [][A]_compactionVars
    BY <1>2, CompactionInvariant, PTL DEF CompactionSpec
<1>4. QED
    BY <1>3 DEF A, BranchAccounted

-----------------------------------------------------------------------------
(* Compaction: the walk that finds the cut *)

TailStep(g, w, n, j) == IF j > n THEN 0 ELSE g[j + 1] + w[j]

(* Sums from a place to the end exist. *)
LEMMA TailsExist ==
    ASSUME NEW n \in Nat, NEW w \in [1 .. n -> Nat]
    PROVE  \E g \in [1 .. n + 1 -> Nat] : \A j \in 1 .. n + 1 : g[j] = TailStep(g, w, n, j)
<1> DEFINE T == {k \in Nat : k <= n =>
              \E g \in [n + 1 - k .. n + 1 -> Nat] :
                 \A j \in n + 1 - k .. n + 1 : g[j] = TailStep(g, w, n, j)}
<1>1. 0 \in T
  <2> DEFINE g == [j \in n + 1 - 0 .. n + 1 |-> 0]
  <2>1. g \in [n + 1 - 0 .. n + 1 -> Nat] /\ \A j \in n + 1 - 0 .. n + 1 : g[j] = TailStep(g, w, n, j)
      BY DEF TailStep
  <2>2. QED
      BY <2>1
<1>2. ASSUME NEW k \in Nat, k \in T PROVE k + 1 \in T
  <2> SUFFICES ASSUME k + 1 <= n
               PROVE  \E g \in [n + 1 - (k + 1) .. n + 1 -> Nat] :
                         \A j \in n + 1 - (k + 1) .. n + 1 : g[j] = TailStep(g, w, n, j)
      OBVIOUS
  <2>1. PICK m \in 1 .. n : m = n - k
      OBVIOUS
  <2>2. n + 1 - (k + 1) = m /\ n + 1 - k = m + 1
      BY <2>1
  <2>3. PICK f \in [m + 1 .. n + 1 -> Nat] : \A j \in m + 1 .. n + 1 : f[j] = TailStep(f, w, n, j)
    <3>1. k <= n
        OBVIOUS
    <3>2. \E f \in [n + 1 - k .. n + 1 -> Nat] :
             \A j \in n + 1 - k .. n + 1 : f[j] = TailStep(f, w, n, j)
        BY <3>1, <1>2, Zenon
    <3>3. QED
        BY <3>2, <2>2
  <2> DEFINE new == f[m + 1] + w[m]
             g == [j \in m .. n + 1 |-> IF j = m THEN new ELSE f[j]]
  <2>4. m + 1 \in m + 1 .. n + 1 /\ f[m + 1] \in Nat /\ w[m] \in Nat
      OBVIOUS
  <2>5. new \in Nat
      BY <2>4
  <2>6. \A j \in m .. n + 1 : j = m \/ j \in m + 1 .. n + 1
      OBVIOUS
  <2>7. g \in [m .. n + 1 -> Nat]
      BY <2>5, <2>6
  <2>8. ASSUME NEW j \in m .. n + 1
        PROVE  g[j] = TailStep(g, w, n, j)
    <3>1. CASE j = m
      <4>1. g[j] = new /\ ~ (j > n) /\ g[j + 1] = f[m + 1]
          BY <3>1
      <4>2. QED
          BY <4>1, <3>1 DEF TailStep
    <3>2. CASE j # m
      <4>1. j \in m + 1 .. n + 1 /\ g[j] = f[j]
          BY <3>2
      <4>2. ~ (j > n) => g[j + 1] = f[j + 1]
          BY <4>1
      <4>3. QED
          BY <4>1, <4>2, <2>3 DEF TailStep
    <3>3. QED
        BY <3>1, <3>2
  <2>9. QED
      BY <2>2, <2>7, <2>8
<1> HIDE DEF T
<1>3. n \in T
    BY <1>1, <1>2, Induct
<1>4. n + 1 - n = 1
    OBVIOUS
<1>5. QED
    BY <1>3, <1>4 DEF T

TokenStep(f, p, j) ==
    IF j > Len(p) THEN 0
    ELSE IF Kind(p, j) \notin MessageKinds THEN f[j + 1]
    ELSE f[j + 1] + entries[p[j]].size

TokensOf(p) == CHOOSE f : f = [j \in 1 .. Len(p) + 1 |-> TokenStep(f, p, j)]

LEMMA TokensFromIs == \A p, i : TokensFrom(p, i) = TokensOf(p)[i]
BY DEF TokensFrom, TokensOf, TokenStep

LEMMA TokensStep ==
    ASSUME CompactionTypeOK, NEW p, NEW id, Leads(p, id)
    PROVE  \A j \in 1 .. Len(p) + 1 : TokensOf(p)[j] = TokenStep(TokensOf(p), p, j)
<1> DEFINE w == [j \in 1 .. Len(p) |-> IF Kind(p, j) \in MessageKinds THEN entries[p[j]].size ELSE 0]
<1>1. PICK n \in Nat : n = Len(p)
    BY DEF Leads
<1>2. \A j \in 1 .. n : entries[p[j]].size \in Nat
  <2>1. \A j \in 1 .. n : p[j] \in DOMAIN entries
      BY <1>1, IdsAre DEF Leads
  <2>2. \A i \in DOMAIN entries : entries[i] \in SessionEntry
      BY IdsAre
  <2>3. QED
      BY <2>1, <2>2 DEF SessionEntry
<1>3. /\ w \in [1 .. n -> Nat]
      /\ \A j \in 1 .. n : Kind(p, j) \in MessageKinds => w[j] = entries[p[j]].size
      /\ \A j \in 1 .. n : Kind(p, j) \notin MessageKinds => w[j] = 0
    BY <1>1, <1>2
<1>4. PICK u : u = w
    OBVIOUS
<1>5. PICK g \in [1 .. n + 1 -> Nat] : \A j \in 1 .. n + 1 : g[j] = TailStep(g, u, n, j)
    BY <1>3, <1>4, TailsExist
<1> HIDE DEF w
<1>6. ASSUME NEW j \in 1 .. n + 1
      PROVE  g[j] = TokenStep(g, p, j)
  <2>1. CASE j > n
      BY <2>1, <1>1, <1>5 DEF TokenStep, TailStep
  <2>2. CASE ~ (j > n)
    <3>1. j \in 1 .. n /\ j + 1 \in 1 .. n + 1 /\ g[j + 1] \in Nat
        BY <2>2
    <3>2. g[j] = g[j + 1] + u[j]
        BY <2>2, <1>5 DEF TailStep
    <3>3. CASE Kind(p, j) \in MessageKinds
      <4>1. u[j] = entries[p[j]].size
          BY <3>1, <3>3, <1>3, <1>4
      <4>2. QED
          BY <4>1, <3>2, <3>3, <2>2, <1>1 DEF TokenStep
    <3>4. CASE Kind(p, j) \notin MessageKinds
      <4>1. u[j] = 0
          BY <3>1, <3>4, <1>3, <1>4
      <4>2. g[j] = g[j + 1]
          BY <4>1, <3>1, <3>2
      <4>3. QED
          BY <4>2, <3>4, <2>2, <1>1 DEF TokenStep
    <3>5. QED
        BY <3>3, <3>4
  <2>3. QED
      BY <2>1, <2>2
<1>7. g = [j \in 1 .. Len(p) + 1 |-> TokenStep(g, p, j)]
    BY <1>1, <1>6
<1>8. TokensOf(p) = [j \in 1 .. Len(p) + 1 |-> TokenStep(TokensOf(p), p, j)]
    BY <1>7 DEF TokensOf
<1> DEFINE body(j) == TokenStep(TokensOf(p), p, j)
           h == TokensOf(p)
           D == 1 .. Len(p) + 1
<1>9. h = [j \in D |-> body(j)]
    BY <1>8
<1> HIDE DEF body, h, D
<1>10. \A j \in D : h[j] = body(j)
    BY <1>9
<1>11. QED
    BY <1>10 DEF body, h, D

(* What is left from a place on: it shrinks along the path, and unless it   *)
(* is nothing, there is a message further on from which it is the same.     *)
LEMMA TokensShrink ==
    ASSUME CompactionTypeOK, NEW p, NEW id, Leads(p, id)
    PROVE  \A i \in 1 .. Len(p) + 1 :
              /\ TokensFrom(p, i) \in Nat
              /\ \A j \in i .. Len(p) + 1 : TokensFrom(p, j) <= TokensFrom(p, i)
              /\ TokensFrom(p, i) > 0 =>
                    \E j \in i .. Len(p) : /\ entries[p[j]].kind \in MessageKinds
                                           /\ TokensFrom(p, j) = TokensFrom(p, i)
<1>1. PICK n \in Nat : n = Len(p)
    BY DEF Leads
<1>2. PICK f : f = TokensOf(p)
    OBVIOUS
<1>3. \A j \in 1 .. n + 1 : f[j] = TokenStep(f, p, j)
    BY <1>1, <1>2, TokensStep
<1>4. f[n + 1] = 0
  <2>1. PICK m : m = n + 1
      OBVIOUS
  <2>2. m \in 1 .. n + 1 /\ m > Len(p)
      BY <2>1, <1>1
  <2>3. f[m] = 0
      BY <2>2, <1>3 DEF TokenStep
  <2>4. QED
      BY <2>1, <2>3
<1>5. \A j \in 1 .. n : \/ entries[p[j]].kind \in MessageKinds /\ f[j] = f[j + 1] + entries[p[j]].size
                        \/ f[j] = f[j + 1]
    BY <1>1, <1>3 DEF TokenStep, Kind
<1>6. \A j \in 1 .. n : entries[p[j]].size \in Nat
  <2>1. \A j \in 1 .. n : p[j] \in DOMAIN entries
      BY <1>1, IdsAre DEF Leads
  <2>2. \A i \in DOMAIN entries : entries[i] \in SessionEntry
      BY IdsAre
  <2>3. QED
      BY <2>1, <2>2 DEF SessionEntry
<1> DEFINE Good(i) ==
              /\ \A j \in i .. n + 1 : f[j] \in Nat /\ f[j] <= f[i]
              /\ f[i] > 0 => \E j \in i .. n : entries[p[j]].kind \in MessageKinds /\ f[j] = f[i]
           T == {k \in Nat : \A i \in 1 .. n + 1 : n + 1 - k <= i => Good(i)}
<1>7. Good(n + 1)
    BY <1>4
<1>8. ASSUME NEW i \in 1 .. n, Good(i + 1) PROVE Good(i)
  <2>1. f[i + 1] \in Nat /\ entries[p[i]].size \in Nat
    <3>1. i + 1 \in i + 1 .. n + 1
        OBVIOUS
    <3>2. QED
        BY <3>1, <1>6, <1>8
  <2>2. f[i] \in Nat /\ f[i + 1] <= f[i]
      BY <2>1, <1>5
  <2>3. \A j \in i .. n + 1 : j = i \/ j \in i + 1 .. n + 1
      OBVIOUS
  <2>4. \A j \in i + 1 .. n + 1 : f[j] \in Nat /\ f[j] <= f[i + 1]
      BY <1>8
  <2>5. \A j \in i + 1 .. n + 1 : f[j] \in Nat /\ f[j] <= f[i]
      BY <2>1, <2>2, <2>4
  <2>6. \A j \in i .. n + 1 : f[j] \in Nat /\ f[j] <= f[i]
      BY <2>2, <2>3, <2>5
  <2>7. ASSUME f[i] > 0
        PROVE  \E j \in i .. n : entries[p[j]].kind \in MessageKinds /\ f[j] = f[i]
    <3>1. CASE entries[p[i]].kind \in MessageKinds
        BY <3>1
    <3>2. CASE f[i] = f[i + 1]
      <4>1. \E j \in i + 1 .. n : entries[p[j]].kind \in MessageKinds /\ f[j] = f[i + 1]
          BY <3>2, <2>7, <1>8
      <4>2. PICK j \in i + 1 .. n : entries[p[j]].kind \in MessageKinds /\ f[j] = f[i + 1]
          BY <4>1
      <4>3. j \in i .. n
          OBVIOUS
      <4>4. QED
          BY <4>2, <4>3, <3>2
    <3>3. QED
        BY <3>1, <3>2, <1>5
  <2>8. QED
      BY <2>6, <2>7
<1>9. 0 \in T
  <2>1. \A i \in 1 .. n + 1 : n + 1 - 0 <= i => i = n + 1
      OBVIOUS
  <2> HIDE DEF Good
  <2>2. QED
      BY <2>1, <1>7
<1>10. ASSUME NEW k \in Nat, k \in T PROVE k + 1 \in T
  <2> HIDE DEF Good
  <2> SUFFICES ASSUME NEW i \in 1 .. n + 1, n + 1 - (k + 1) <= i PROVE Good(i)
      OBVIOUS
  <2>1. \A j \in 1 .. n + 1 : n + 1 - k <= j => Good(j)
      BY <1>10
  <2>2. CASE i = n + 1
      BY <2>2, <1>7
  <2>3. CASE i # n + 1
    <3>1. i \in 1 .. n /\ i + 1 \in 1 .. n + 1 /\ n + 1 - k <= i + 1
        BY <2>3
    <3>2. Good(i + 1)
        BY <3>1, <2>1
    <3>3. QED
        BY <3>1, <3>2, <1>8
  <2>4. QED
      BY <2>2, <2>3
<1> HIDE DEF Good, T
<1>11. n \in T
    BY <1>9, <1>10, Induct
<1>12. \A i \in 1 .. n + 1 : Good(i)
    BY <1>11 DEF T
<1>13. \A i : TokensFrom(p, i) = f[i]
    BY <1>2, TokensFromIs
<1>14. ASSUME NEW i \in 1 .. n + 1
       PROVE  /\ f[i] \in Nat
              /\ \A j \in i .. n + 1 : f[j] <= f[i]
              /\ f[i] > 0 => \E j \in i .. n : entries[p[j]].kind \in MessageKinds /\ f[j] = f[i]
  <2>1. i \in i .. n + 1
      OBVIOUS
  <2>2. QED
      BY <2>1, <1>12 DEF Good
<1>15. QED
    BY <1>1, <1>13, <1>14

(* The cut points at or after the last message from which the budget is     *)
(* full are those with less than the budget after them.                     *)
LEMMA WalkFinds ==
    ASSUME CompactionTypeOK, NEW p, NEW id, Leads(p, id), NEW start \in 1 .. Len(p), KeepRecent > 0
    PROVE  LET cuts  == CutPoints(p, start)
               near  == {c \in cuts : TokensFrom(p, c + 1) < KeepRecent}
           IN  ClosestCut(p, start) = Min(IF near = {} THEN cuts ELSE near)
<1> DEFINE cuts  == CutPoints(p, start)
           near  == {c \in cuts : TokensFrom(p, c + 1) < KeepRecent}
           full  == {i \in From(p, start) \cap Places(p, MessageKinds) :
                       TokensFrom(p, i) >= KeepRecent}
           later == {c \in cuts : full # {} /\ c >= Max(full)}
<1>1. ClosestCut(p, start) = IF later = {} THEN Min(cuts) ELSE Min(later)
    BY DEF ClosestCut
<1>2. PICK n \in Nat : n = Len(p)
    BY DEF Leads
<1>3. DOMAIN p = 1 .. n /\ start \in 1 .. n /\ KeepRecent \in Nat
    BY <1>2, CompactionAssumption DEF Leads
<1>4. \A c \in cuts : c \in start .. n
    BY <1>3 DEF CutPoints, From
<1>5. \A i : i \in full <=> /\ i \in start .. n
                            /\ entries[p[i]].kind \in MessageKinds
                            /\ TokensFrom(p, i) >= KeepRecent
    BY <1>3 DEF From, Places, Kind
<1> DEFINE t(i) == TokensFrom(p, i)
<1>6. /\ \A i \in 1 .. n + 1 : t(i) \in Nat
      /\ \A i \in 1 .. n + 1 : \A j \in i .. n + 1 : t(j) <= t(i)
      /\ \A i \in 1 .. n + 1 : t(i) > 0 =>
            \E j \in i .. n : entries[p[j]].kind \in MessageKinds /\ t(j) = t(i)
    BY <1>2, TokensShrink
<1>7. \A i : i \in full <=> i \in start .. n /\ entries[p[i]].kind \in MessageKinds /\ t(i) >= KeepRecent
    BY <1>5
<1>8. \A c : c \in near <=> c \in cuts /\ t(c + 1) < KeepRecent
    OBVIOUS
<1>9. full \in SUBSET Nat /\ \A i \in full : i <= n
    BY <1>7, <1>3
<1> HIDE DEF t, full, near, cuts
<1>10. full # {} => Max(full) \in full /\ \A x \in full : x <= Max(full)
    BY <1>9, <1>2, MaxIs
<1>11. PICK M : M = Max(full)
    OBVIOUS
<1>12. ASSUME NEW c \in cuts, ~ (t(c + 1) < KeepRecent)
       PROVE  full # {} /\ ~ (c >= M)
  <2>1. c \in start .. n /\ c + 1 \in 1 .. n + 1
      BY <1>3, <1>4
  <2>2. t(c + 1) \in Nat /\ t(c + 1) >= KeepRecent
      BY <2>1, <1>3, <1>6, <1>12
  <2>3. t(c + 1) > 0
      BY <2>2, <1>3
  <2>4. PICK j \in c + 1 .. n : entries[p[j]].kind \in MessageKinds /\ t(j) = t(c + 1)
      BY <2>1, <2>3, <1>6
  <2>5. j \in start .. n /\ j > c
      BY <2>1, <1>3
  <2>6. j \in full
      BY <2>2, <2>4, <2>5, <1>7
  <2>7. j <= M /\ M \in Nat
      BY <2>6, <1>9, <1>10, <1>11
  <2>8. QED
      BY <2>1, <2>5, <2>6, <2>7, <1>3
<1>13. ASSUME NEW c \in cuts, full # {}, ~ (c >= M)
       PROVE  ~ (t(c + 1) < KeepRecent)
  <2>1. M \in start .. n /\ t(M) >= KeepRecent
      BY <1>7, <1>10, <1>11, <1>13
  <2>2. c \in start .. n
      BY <1>4
  <2>3. c + 1 \in 1 .. n + 1 /\ M \in c + 1 .. n + 1 /\ M \in 1 .. n + 1
      BY <2>1, <2>2, <1>3, <1>13
  <2>4. t(M) <= t(c + 1) /\ t(M) \in Nat /\ t(c + 1) \in Nat
      BY <2>3, <1>6
  <2>5. QED
      BY <2>1, <2>4, <1>3
<1>14. CASE full = {}
  <2>1. later = {}
      BY <1>14
  <2>2. \A c \in cuts : t(c + 1) < KeepRecent
      BY <1>12, <1>14
  <2>3. near = cuts
      BY <2>2, <1>8
  <2>4. ClosestCut(p, start) = Min(cuts)
      BY <2>1, <1>1
  <2>5. QED
      BY <2>3, <2>4 DEF near, cuts
<1>15. CASE full # {}
  <2>1. \A c \in cuts : c >= M <=> t(c + 1) < KeepRecent
      BY <1>12, <1>13, <1>15
  <2>2. \A c : c \in later <=> c \in cuts /\ c >= M
      BY <1>11, <1>15
  <2> HIDE DEF later
  <2>3. later = near
      BY <2>1, <2>2, <1>8
  <2>4. ClosestCut(p, start) = Min(IF near = {} THEN cuts ELSE near)
      BY <2>3, <1>1
  <2>5. QED
      BY <2>4 DEF near, cuts
<1>16. QED
    BY <1>14, <1>15

(* With a budget of at least one token, findCutPoint's walk back over the   *)
(* messages keeps the most that the budget allows: the cut is the first     *)
(* valid cut point with less than keepRecentTokens after it, and the first  *)
(* of all when a last result alone fills the budget.                        *)
THEOREM CutFallsEarliest == CompactionSpec => []CutIsEarliest
<1>1. ASSUME CompactionInv PROVE CutIsEarliest
  <2>1. CompactionTypeOK /\ leaf \in 0 .. Len(entries)
      BY <1>1 DEF CompactionInv, CompactionTypeOK
  <2>2. PICK p, start : p = Here /\ start = BoundaryStart(p)
      OBVIOUS
  <2>3. Leads(p, leaf)
      BY <2>1, <2>2, PathLeads DEF Here
  <2>4. ASSUME KeepRecent > 0, CanPrepare(p)
        PROVE  LET cuts  == CutPoints(p, start)
                   near  == {c \in cuts : TokensFrom(p, c + 1) < KeepRecent}
               IN  ClosestCut(p, start) = Min(IF near = {} THEN cuts ELSE near)
    <3>1. start \in 1 .. Len(p)
        BY <2>2, <2>3, <2>4, StartOnPath
    <3>2. QED
        BY <3>1, <2>1, <2>3, <2>4, WalkFinds
  <2>5. QED
      BY <2>2, <2>4 DEF CutIsEarliest
<1>2. QED
    BY <1>1, CompactionInvariant, PTL

=============================================================================
