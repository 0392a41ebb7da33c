--------------------------- MODULE AnswersProofs ---------------------------
(***************************************************************************)
(* Invariants of the browser's parts in which requests and answers cross:  *)
(* the selection of a project, previews, trainings and the poll of their   *)
(* jobs, job logs, lists, reports, probes and forms; then of the cells,    *)
(* the notebook, the canvas and the comparison, where runs are of what is  *)
(* moved and deleted.  FrontendProofs puts them together.                  *)
(***************************************************************************)
EXTENDS ProjectSelection, TrainingDesk, TrainingRun, JobsConsole, AppLists, OperatorPages,
        ActivityPage, NotebookV2, CanvasRun, CanvasAgents, ResultsPanel,
        FiniteSetTheorems, SequenceTheorems, TLAPS

-----------------------------------------------------------------------------
\* What RemoveAt leaves of a sequence.
LEMMA RemoveAtLeaves ==
  ASSUME NEW S, NEW s \in Seq(S), NEW i \in DOMAIN s
  PROVE  /\ RemoveAt(s, i) \in Seq(S)
         /\ Len(RemoveAt(s, i)) = Len(s) - 1
         /\ \A k \in 1 .. Len(s) - 1 : RemoveAt(s, i)[k] = IF k < i THEN s[k] ELSE s[k + 1]
<1> DEFINE front == SubSeq(s, 1, i - 1)
           rest == SubSeq(s, i + 1, Len(s))
<1>1. Len(s) \in Nat /\ i \in 1 .. Len(s)
  BY LenProperties
<1>2. /\ front \in Seq(S) /\ Len(front) = i - 1
      /\ \A k \in 1 .. i - 1 : front[k] = s[k]
  BY <1>1
<1>3. /\ rest \in Seq(S) /\ Len(rest) = Len(s) - i
      /\ \A k \in 1 .. Len(s) - i : rest[k] = s[i + k]
  BY <1>1
<1>4. RemoveAt(s, i) = front \o rest
  BY DEF RemoveAt
<1> HIDE DEF front, rest
<1>5. /\ front \o rest \in Seq(S) /\ Len(front \o rest) = Len(s) - 1
      /\ \A k \in 1 .. Len(s) - 1 :
            (front \o rest)[k] = IF k < i THEN front[k] ELSE rest[k - i + 1]
  <2>1. /\ front \o rest \in Seq(S)
        /\ Len(front \o rest) = Len(front) + Len(rest)
        /\ \A k \in 1 .. Len(front) + Len(rest) : (front \o rest)[k] =
              IF k <= Len(front) THEN front[k] ELSE rest[k - Len(front)]
    BY <1>2, <1>3, ConcatProperties
  <2>2. Len(front) + Len(rest) = Len(s) - 1
    BY <1>1, <1>2, <1>3
  <2>3. ASSUME NEW k \in 1 .. Len(s) - 1
        PROVE  (k <= i - 1 <=> k < i) /\ k - (i - 1) = k - i + 1
    BY <1>1
  <2> QED
    BY <1>2, <2>1, <2>2, <2>3
<1>6. ASSUME NEW k \in 1 .. Len(s) - 1
      PROVE  RemoveAt(s, i)[k] = IF k < i THEN s[k] ELSE s[k + 1]
  <2>1. CASE k < i
    BY <1>1, <1>2, <1>4, <1>5, <2>1
  <2>2. CASE ~(k < i)
    <3>1. k - i + 1 \in 1 .. Len(s) - i /\ i + (k - i + 1) = k + 1
      BY <1>1, <2>2
    <3> QED
      BY <1>3, <1>4, <1>5, <2>2, <3>1
  <2> QED
    BY <2>1, <2>2
<1> QED
  BY <1>4, <1>5, <1>6

\* Of a set whose elements are one there is at most one.
LEMMA AtMostOne ==
    ASSUME NEW S, \A x, y \in S : x = y
    PROVE  IsFiniteSet(S) /\ Cardinality(S) \in {0, 1}
<1>1. CASE S = {}
  BY <1>1, FS_EmptySet
<1>2. ASSUME NEW x \in S PROVE IsFiniteSet(S) /\ Cardinality(S) \in {0, 1}
  <2>1. S = {x}
    OBVIOUS
  <2> QED
    BY <2>1, FS_Singleton
<1> QED
  BY <1>1, <1>2

\* A sequence without repetition: what is removed is gone, the rest is there,
\* still without repetition.
Apart(s) == \A i, j \in DOMAIN s : s[i] = s[j] => i = j

LEMMA RemoveAtApart ==
    ASSUME NEW S, NEW s \in Seq(S), NEW i \in DOMAIN s, Apart(s)
    PROVE  Apart(RemoveAt(s, i)) /\ ToSet(RemoveAt(s, i)) = ToSet(s) \ {s[i]}
<1> DEFINE r == RemoveAt(s, i)
<1>1. /\ Len(s) \in Nat /\ DOMAIN s = 1 .. Len(s) /\ DOMAIN r = 1 .. Len(s) - 1
      /\ i \in 1 .. Len(s)
      /\ \A k \in 1 .. Len(s) - 1 : r[k] = IF k < i THEN s[k] ELSE s[k + 1]
  <2>1. r \in Seq(S) /\ Len(r) = Len(s) - 1
        /\ \A k \in 1 .. Len(s) - 1 : r[k] = IF k < i THEN s[k] ELSE s[k + 1]
    BY RemoveAtLeaves
  <2> HIDE DEF r
  <2> QED
    BY <2>1
<1> HIDE DEF r
<1>2. \A k \in DOMAIN r : \E n \in DOMAIN s : n # i /\ r[k] = s[n] /\ n = IF k < i THEN k ELSE k + 1
  <2> SUFFICES ASSUME NEW k \in DOMAIN r
               PROVE  \E n \in DOMAIN s : n # i /\ r[k] = s[n] /\ n = IF k < i THEN k ELSE k + 1
    OBVIOUS
  <2>1. CASE k < i
    BY <1>1, <2>1
  <2>2. CASE ~(k < i)
    BY <1>1, <2>2
  <2> QED
    BY <2>1, <2>2
<1>3. \A n \in DOMAIN s \ {i} : \E k \in DOMAIN r : r[k] = s[n]
  <2> SUFFICES ASSUME NEW n \in DOMAIN s \ {i} PROVE \E k \in DOMAIN r : r[k] = s[n]
    OBVIOUS
  <2>1. CASE n < i
    <3>1. n \in DOMAIN r
      BY <1>1, <2>1
    <3> QED
      BY <1>1, <2>1, <3>1
  <2>2. CASE ~(n < i)
    <3>1. n - 1 \in DOMAIN r /\ ~(n - 1 < i) /\ (n - 1) + 1 = n
      BY <1>1, <2>2
    <3> QED
      BY <1>1, <3>1
  <2> QED
    BY <2>1, <2>2
<1>4. Apart(r)
  <2> SUFFICES ASSUME NEW j \in DOMAIN r, NEW k \in DOMAIN r, r[j] = r[k]
               PROVE  j = k
    BY DEF Apart
  <2>1. PICK m \in DOMAIN s : r[j] = s[m] /\ m = IF j < i THEN j ELSE j + 1
    BY <1>2
  <2>2. PICK n \in DOMAIN s : r[k] = s[n] /\ n = IF k < i THEN k ELSE k + 1
    BY <1>2
  <2>3. m = n
    BY <2>1, <2>2 DEF Apart
  <2> QED
    BY <1>1, <2>1, <2>2, <2>3
<1>5. ToSet(r) = ToSet(s) \ {s[i]}
  BY <1>2, <1>3 DEF ToSet, Apart
<1> QED
  BY <1>4, <1>5 DEF r

Swapped(s, i, j) == [s EXCEPT ![i] = s[j], ![j] = s[i]]

LEMMA SwapApart ==
    ASSUME NEW S, NEW s \in Seq(S), NEW i \in DOMAIN s, NEW j \in DOMAIN s
    PROVE  /\ Swapped(s, i, j) \in Seq(S) /\ ToSet(Swapped(s, i, j)) = ToSet(s)
           /\ Apart(s) => Apart(Swapped(s, i, j))
           /\ DOMAIN Swapped(s, i, j) = DOMAIN s
<1> DEFINE r == Swapped(s, i, j)
<1>1. DOMAIN s = 1 .. Len(s) /\ Len(s) \in Nat /\ \A k \in DOMAIN s : s[k] \in S
  OBVIOUS
<1>2. DOMAIN r = DOMAIN s
  BY DEF Swapped
<1>3. \A k \in DOMAIN s : r[k] = IF k = j THEN s[i] ELSE IF k = i THEN s[j] ELSE s[k]
  BY DEF Swapped
<1> HIDE DEF r
<1>4. r \in Seq(S)
  <2>1. r = [k \in 1 .. Len(s) |-> r[k]]
    BY <1>1, <1>2 DEF r, Swapped
  <2>2. \A k \in 1 .. Len(s) : r[k] \in S
    BY <1>1, <1>3
  <2>3. r \in [1 .. Len(s) -> S]
    BY <2>1, <2>2
  <2> QED
    BY <1>1, <2>3
<1>5. ToSet(r) = ToSet(s)
  <2>1. \A k \in DOMAIN s : r[k] \in ToSet(s)
    BY <1>3 DEF ToSet
  <2>2. r[i] = s[j] /\ r[j] = s[i]
    BY <1>3
  <2>3. \A k \in DOMAIN s : s[k] \in ToSet(r)
    BY <1>2, <1>3, <2>2 DEF ToSet
  <2> QED
    BY <1>2, <2>1, <2>3 DEF ToSet
<1>6. Apart(s) => Apart(r)
  BY <1>2, <1>3 DEF Apart
<1> QED
  BY <1>2, <1>4, <1>5, <1>6 DEF r

LEMMA AppendApart ==
    ASSUME NEW S, NEW s \in Seq(S), NEW c \in S
    PROVE  /\ Append(s, c) \in Seq(S) /\ ToSet(Append(s, c)) = ToSet(s) \cup {c}
           /\ Apart(s) /\ c \notin ToSet(s) => Apart(Append(s, c))
<1>1. /\ Append(s, c) \in Seq(S) /\ DOMAIN s = 1 .. Len(s) /\ Len(s) \in Nat
      /\ DOMAIN Append(s, c) = 1 .. Len(s) + 1
      /\ \A k \in 1 .. Len(s) + 1 : Append(s, c)[k] = IF k = Len(s) + 1 THEN c ELSE s[k]
  OBVIOUS
<1> DEFINE r == Append(s, c)
<1> HIDE DEF r
<1>2. \A k \in 1 .. Len(s) + 1 : k \in DOMAIN s \/ k = Len(s) + 1
  BY <1>1
<1>3. DOMAIN s \subseteq 1 .. Len(s) + 1 /\ Len(s) + 1 \in 1 .. Len(s) + 1 /\ Len(s) + 1 \notin DOMAIN s
  BY <1>1
<1>4. /\ DOMAIN r = DOMAIN s \cup {Len(s) + 1} /\ r[Len(s) + 1] = c
      /\ \A k \in DOMAIN s : r[k] = s[k]
  BY <1>1, <1>2, <1>3 DEF r
<1>5. ToSet(r) = ToSet(s) \cup {c}
  BY <1>4 DEF ToSet
<1>6. Apart(s) /\ c \notin ToSet(s) => Apart(r)
  BY <1>4 DEF ToSet, Apart
<1> QED
  BY <1>1, <1>5, <1>6 DEF r

\* Where the elements of a sequence are when one more was put in.
LEMMA InsertAtGives ==
    ASSUME NEW S, NEW s \in Seq(S), NEW i \in 1 .. Len(s) + 1, NEW c \in S
    PROVE  /\ InsertAt(s, i, c) \in Seq(S) /\ DOMAIN InsertAt(s, i, c) = 1 .. Len(s) + 1
           /\ InsertAt(s, i, c)[i] = c
           /\ \A k \in 1 .. Len(s) + 1 :
                 k # i => /\ (IF k < i THEN k ELSE k - 1) \in DOMAIN s
                          /\ InsertAt(s, i, c)[k] = s[IF k < i THEN k ELSE k - 1]
<1> DEFINE front == SubSeq(s, 1, i - 1)
           rest == SubSeq(s, i, Len(s))
           mid == front \o <<c>>
           all == mid \o rest
<1>1. Len(s) \in Nat /\ DOMAIN s = 1 .. Len(s) /\ i \in Nat /\ 1 <= i /\ i <= Len(s) + 1
  BY LenProperties
<1>2. /\ front \in Seq(S) /\ Len(front) = i - 1
      /\ \A k \in 1 .. i - 1 : front[k] = s[k]
  BY <1>1
<1>3. /\ rest \in Seq(S) /\ Len(rest) = Len(s) - i + 1
      /\ \A k \in 1 .. Len(s) - i + 1 : rest[k] = s[i + k - 1]
  BY <1>1
<1>4. InsertAt(s, i, c) = all
  BY DEF InsertAt
<1>5. <<c>> \in Seq(S) /\ Len(<<c>>) = 1 /\ <<c>>[1] = c
  OBVIOUS
<1> HIDE DEF front, rest
<1>6. /\ mid \in Seq(S) /\ Len(mid) = i
      /\ \A k \in 1 .. i : mid[k] = IF k <= i - 1 THEN front[k] ELSE <<c>>[k - (i - 1)]
  <2>1. /\ mid \in Seq(S) /\ Len(mid) = Len(front) + Len(<<c>>)
        /\ \A k \in 1 .. Len(front) + Len(<<c>>) :
              mid[k] = IF k <= Len(front) THEN front[k] ELSE <<c>>[k - Len(front)]
    BY <1>2, <1>5, ConcatProperties
  <2>2. Len(front) + Len(<<c>>) = i
    BY <1>1, <1>2, <1>5
  <2> QED
    BY <1>2, <2>1, <2>2
<1> HIDE DEF mid
<1>7. /\ all \in Seq(S) /\ Len(all) = Len(s) + 1
      /\ \A k \in 1 .. Len(s) + 1 : all[k] = IF k <= i THEN mid[k] ELSE rest[k - i]
  <2>1. /\ all \in Seq(S) /\ Len(all) = Len(mid) + Len(rest)
        /\ \A k \in 1 .. Len(mid) + Len(rest) :
              all[k] = IF k <= Len(mid) THEN mid[k] ELSE rest[k - Len(mid)]
    BY <1>3, <1>6, ConcatProperties
  <2>2. Len(mid) + Len(rest) = Len(s) + 1
    BY <1>1, <1>3, <1>6
  <2> QED
    BY <1>6, <2>1, <2>2
<1> HIDE DEF all
<1>8. all[i] = c
  <2>1. i \in 1 .. Len(s) + 1 /\ i \in 1 .. i /\ ~(i <= i - 1) /\ i - (i - 1) = 1
    BY <1>1
  <2> QED
    BY <1>5, <1>6, <1>7, <2>1
<1>9. ASSUME NEW k \in 1 .. Len(s) + 1, k # i
      PROVE  (IF k < i THEN k ELSE k - 1) \in DOMAIN s /\ all[k] = s[IF k < i THEN k ELSE k - 1]
  <2>1. CASE k < i
    <3>1. k \in 1 .. i /\ k <= i - 1 /\ k \in 1 .. i - 1 /\ k <= i /\ k \in DOMAIN s
      BY <1>1, <2>1
    <3> QED
      BY <1>2, <1>6, <1>7, <2>1, <3>1
  <2>2. CASE ~(k < i)
    <3>1. k - i \in 1 .. Len(s) - i + 1 /\ ~(k <= i) /\ i + (k - i) - 1 = k - 1 /\ k - 1 \in DOMAIN s
      BY <1>1, <1>9, <2>2
    <3> QED
      BY <1>3, <1>7, <2>2, <3>1
  <2> QED
    BY <2>1, <2>2
<1>10. DOMAIN all = 1 .. Len(s) + 1
  BY <1>7
<1> QED
  BY <1>4, <1>7, <1>8, <1>9, <1>10

LEMMA InsertAtApart ==
    ASSUME NEW S, NEW s \in Seq(S), NEW i \in 1 .. Len(s) + 1, NEW c \in S
    PROVE  /\ InsertAt(s, i, c) \in Seq(S) /\ ToSet(InsertAt(s, i, c)) = ToSet(s) \cup {c}
           /\ Apart(s) /\ c \notin ToSet(s) => Apart(InsertAt(s, i, c))
<1> DEFINE r == InsertAt(s, i, c)
           was(k) == IF k < i THEN k ELSE k - 1
<1>1. /\ r \in Seq(S) /\ DOMAIN r = 1 .. Len(s) + 1 /\ r[i] = c
      /\ \A k \in 1 .. Len(s) + 1 : k # i => was(k) \in DOMAIN s /\ r[k] = s[was(k)]
  BY InsertAtGives
<1> HIDE DEF r
<1>2. Len(s) \in Nat /\ DOMAIN s = 1 .. Len(s) /\ i \in 1 .. Len(s) + 1
  BY LenProperties
<1>3. \A j, k \in 1 .. Len(s) + 1 : j # i /\ k # i /\ was(j) = was(k) => j = k
  BY <1>2
<1>4. \A n \in DOMAIN s : \E k \in 1 .. Len(s) + 1 : k # i /\ was(k) = n
  <2> SUFFICES ASSUME NEW n \in DOMAIN s PROVE \E k \in 1 .. Len(s) + 1 : k # i /\ was(k) = n
    OBVIOUS
  <2>1. CASE n < i
    <3>1. n \in 1 .. Len(s) + 1 /\ n # i /\ was(n) = n
      BY <1>2, <2>1
    <3> QED
      BY <3>1
  <2>2. CASE ~(n < i)
    <3>1. n + 1 \in 1 .. Len(s) + 1 /\ n + 1 # i /\ was(n + 1) = n
      BY <1>2, <2>2
    <3> QED
      BY <3>1
  <2> QED
    BY <2>1, <2>2
<1> HIDE DEF was
<1>5. ToSet(r) = ToSet(s) \cup {c}
  <2>1. \A k \in DOMAIN r : r[k] \in ToSet(s) \cup {c}
    BY <1>1 DEF ToSet
  <2>2. c \in ToSet(r) /\ \A n \in DOMAIN s : s[n] \in ToSet(r)
    BY <1>1, <1>2, <1>4 DEF ToSet
  <2> QED
    BY <2>1, <2>2 DEF ToSet
<1>6. ASSUME Apart(s), c \notin ToSet(s) PROVE Apart(r)
  <2> SUFFICES ASSUME NEW j \in DOMAIN r, NEW k \in DOMAIN r, r[j] = r[k] PROVE j = k
    BY DEF Apart
  <2>1. \A n \in DOMAIN s : s[n] # c
    BY <1>6 DEF ToSet
  <2>2. CASE j = i \/ k = i
    BY <1>1, <2>1, <2>2
  <2>3. CASE j # i /\ k # i
    BY <1>1, <1>3, <1>6, <2>3 DEF Apart
  <2> QED
    BY <2>2, <2>3
<1> QED
  BY <1>1, <1>5, <1>6 DEF r

\* Every element but the one removed is still there.
LEMMA RemoveAtKeeps ==
  ASSUME NEW S, NEW s \in Seq(S), NEW i \in DOMAIN s, NEW k \in DOMAIN s \ {i}
  PROVE  \E n \in DOMAIN RemoveAt(s, i) : RemoveAt(s, i)[n] = s[k]
<1>1. i \in 1 .. Len(s) /\ k \in 1 .. Len(s) /\ k # i
  OBVIOUS
<1>2. DOMAIN RemoveAt(s, i) = 1 .. Len(s) - 1
  BY RemoveAtLeaves
<1>3. CASE k < i
  <2>1. k \in 1 .. Len(s) - 1
    BY <1>1, <1>3
  <2> QED
    BY <1>2, <1>3, <2>1, RemoveAtLeaves
<1>4. CASE k > i
  <2>1. k - 1 \in 1 .. Len(s) - 1 /\ ~(k - 1 < i)
    BY <1>1, <1>4
  <2> QED
    BY <1>1, <1>2, <2>1, RemoveAtLeaves
<1> QED
  BY <1>1, <1>3, <1>4

-----------------------------------------------------------------------------
(* The selection of a project.                                             *)

ProfileLoad == [state : {"sent"}, lock : BOOLEAN]
          \cup [state : {"read"}, lock : BOOLEAN, pid : Ids]

SelInFlight == loads \in Seq(ProfileLoad) /\ saves \in Seq(Ids)

\* As long as nothing was lost or overtaken, the selection posted last is the
\* one shown; when all are stored it is the profile's, unless a profile request
\* that will be taken over is still under way.
Awaited == \E i \in DOMAIN loads : ~loads[i].lock
PostedOrStored ==
    ~disturbed => IF saves = <<>> THEN cur = profile \/ Awaited
                  ELSE saves[Len(saves)] = cur

SelInv == SelInFlight /\ PostedOrStored

-----------------------------------------------------------------------------
LEMMA SelInvInit == SelInit => SelInv
<1> SUFFICES ASSUME SelInit PROVE SelInv
  OBVIOUS
<1>1. Sent(FALSE) \in ProfileLoad /\ ~Sent(FALSE).lock
  BY DEF Sent, ProfileLoad
<1>2. loads = <<Sent(FALSE)>> /\ saves = <<>> /\ cur = None /\ locked = FALSE
  BY DEF SelInit
<1>3. SelInFlight
  <2>1. ASSUME NEW l \in ProfileLoad PROVE <<l>> \in Seq(ProfileLoad)
    BY EmptySeq
  <2> QED
    BY <1>1, <1>2, <2>1, EmptySeq DEF SelInFlight
<1>4. Awaited
  <2>1. 1 \in DOMAIN loads /\ loads[1] = Sent(FALSE)
    BY <1>2
  <2> QED
    BY <1>1, <2>1 DEF Awaited
<1> QED
  BY <1>2, <1>3, <1>4 DEF SelInv, PostedOrStored

\* Selecting a project, emptying the selection and registering all go through
\* setActiveProject.
LEMMA SelInvActivate ==
  ASSUME SelInv, NEW p \in Ids, Activate(p), UNCHANGED disturbed
  PROVE  SelInv'
<1> USE DEF SelInv
<1>1. cur' = p /\ locked' = (p = None) /\ saves' = Append(saves, p)
  BY DEF Activate
<1>2. saves' \in Seq(Ids) /\ saves' # <<>> /\ saves'[Len(saves')] = p
  BY <1>1 DEF SelInFlight
<1>3. Sent(locked') \in ProfileLoad
  BY <1>1 DEF Sent, ProfileLoad
<1>4. loads' \in Seq(ProfileLoad)
  BY <1>3 DEF Activate, SelInFlight
<1> QED
  BY <1>1, <1>2, <1>4 DEF SelInFlight, PostedOrStored

\* The server stores a selection, or loses it.
LEMMA SelInvServerSaves ==
  ASSUME SelInv, NEW i \in DOMAIN saves, ServerSaves(i)
  PROVE  SelInv'
<1> USE DEF SelInv
<1>1. UNCHANGED <<cur, locked, loads>> /\ saves' = RemoveAt(saves, i)
  BY DEF ServerSaves
<1>2. SelInFlight'
  BY <1>1, RemoveAtLeaves DEF SelInFlight
<1>3. ASSUME ~disturbed'
      PROVE  IF saves' = <<>> THEN cur' = profile' ELSE saves'[Len(saves')] = cur'
  <2>1. i = 1 /\ ~disturbed /\ profile' = saves[1]
    BY <1>3 DEF ServerSaves
  <2>2. Len(saves) \in Nat /\ 1 \in 1 .. Len(saves) /\ saves # <<>>
    BY <2>1 DEF SelInFlight
  <2>3. saves[Len(saves)] = cur
    BY <2>1, <2>2 DEF PostedOrStored
  <2>4. /\ Len(saves') = Len(saves) - 1 /\ saves' \in Seq(Ids)
        /\ \A k \in 1 .. Len(saves) - 1 : saves'[k] = saves[k + 1]
    BY <1>1, <2>1, RemoveAtLeaves DEF SelInFlight
  <2>5. CASE Len(saves) = 1
    BY <1>1, <2>1, <2>3, <2>4, <2>5
  <2>6. CASE Len(saves) > 1
    <3>1. Len(saves') \in 1 .. Len(saves) - 1 /\ saves' # <<>>
      BY <2>2, <2>4, <2>6
    <3>2. saves'[Len(saves')] = saves[Len(saves)]
      BY <2>2, <2>4, <3>1
    <3> QED
      BY <1>1, <2>3, <3>1, <3>2
  <2>7. Len(saves) = 1 \/ Len(saves) > 1
    BY <2>2
  <2> QED
    BY <2>5, <2>6, <2>7
<1> QED
  BY <1>2, <1>3 DEF PostedOrStored

\* The server reads the profile; the request keeps the lock it was made with.
LEMMA SelInvServerReads ==
  ASSUME SelInv, profile \in Ids, NEW i \in DOMAIN loads, ServerReads(i)
  PROVE  SelInv'
<1> USE DEF SelInv
<1>1. /\ loads' = [loads EXCEPT ![i] = Read(loads[i].lock, profile)]
      /\ UNCHANGED <<cur, locked, profile, saves, disturbed>>
  BY DEF ServerReads
<1>2. i \in 1 .. Len(loads) /\ loads[i].lock \in BOOLEAN
  BY DEF SelInFlight, ProfileLoad
<1>3. Read(loads[i].lock, profile) \in ProfileLoad /\ Read(loads[i].lock, profile).lock = loads[i].lock
  BY <1>2 DEF Read, ProfileLoad
<1>4. SelInFlight'
  BY <1>1, <1>3 DEF SelInFlight
<1>5. Awaited => Awaited'
  BY <1>1, <1>3 DEF Awaited, SelInFlight
<1> QED
  BY <1>1, <1>4, <1>5 DEF PostedOrStored

\* An answer is taken over, or it is not; the history says when it comes too
\* late.
LEMMA SelInvProfileArrives ==
  ASSUME SelInv, NEW i \in DOMAIN loads, ProfileArrives(i) \/ ProfileFails(i)
  PROVE  SelInv'
<1> USE DEF SelInv
<1>1. loads' = RemoveAt(loads, i) /\ UNCHANGED <<locked, profile, saves>>
  BY DEF ProfileArrives, ProfileFails
<1>2. SelInFlight'
  BY <1>1, RemoveAtLeaves DEF SelInFlight
<1>3. CASE ProfileFails(i)
  BY <1>2, <1>3 DEF ProfileFails, PostedOrStored
<1>4. CASE ProfileArrives(i)
  <2>1. /\ cur' = IF TakesOver(loads[i]) THEN loads[i].pid ELSE cur
        /\ disturbed' = (disturbed \/ (TakesOver(loads[i])
                            /\ (saves # <<>> \/ loads[i].pid # profile)))
    BY <1>4 DEF ProfileArrives
  <2>2. TakesOver(loads[i]) => PostedOrStored'
    BY <1>1, <2>1 DEF PostedOrStored
  <2>3. CASE ~TakesOver(loads[i])
    <3>1. loads[i].lock /\ cur' = cur /\ (disturbed' <=> disturbed)
      BY <2>1, <2>3 DEF TakesOver
    <3>2. Awaited => Awaited'
      <4>1. SUFFICES ASSUME NEW k \in DOMAIN loads, ~loads[k].lock PROVE Awaited'
        BY DEF Awaited
      <4>2. k \in DOMAIN loads \ {i}
        BY <3>1, <4>1
      <4> QED
        BY <1>1, <4>1, <4>2, RemoveAtKeeps DEF Awaited, SelInFlight
    <3>3. PostedOrStored'
      BY <1>1, <3>1, <3>2 DEF PostedOrStored
    <3> QED
      BY <1>2, <3>3
  <2> QED
    BY <1>2, <2>2, <2>3
<1> QED
  BY <1>3, <1>4

\* The profile names a project or none.
ProfileType ==
    /\ profile \in Ids /\ existing \subseteq Projects \cup NewProjects
    /\ reg \in [stage : RegStages, pid : Ids]

LEMMA ProfileTypeInit == SelInit => ProfileType
  BY DEF SelInit, ProfileType, Ids, RegStages

LEMMA ProfileTypeStep ==
  ASSUME SelInv, ProfileType, SelNext \/ UNCHANGED selVars
  PROVE  ProfileType'
<1> USE DEF ProfileType, Ids, RegStages
<1>1. ASSUME NEW i \in DOMAIN saves, ServerSaves(i)
      PROVE  ProfileType'
  BY <1>1 DEF ServerSaves, SelInv, SelInFlight
<1>2. CASE Created
  BY <1>2 DEF Created
<1>3. CASE RegisterFails
  BY <1>3 DEF RegisterFails
<1>4. CASE Finished
  BY <1>4 DEF Finished
<1>5. CASE Register \/ Activated \/ Refreshed
  BY <1>5 DEF Register, Activated, Refreshed
<1>6. CASE StartNewProject \/ \E p \in Ids : SelectProject(p)
  BY <1>6 DEF StartNewProject, SelectProject
<1>7. ASSUME NEW i \in DOMAIN loads, ServerReads(i) \/ ProfileArrives(i) \/ ProfileFails(i)
      PROVE  ProfileType'
  BY <1>7 DEF ServerReads, ProfileArrives, ProfileFails
<1>8. CASE UNCHANGED selVars
  BY <1>8 DEF selVars
<1> QED
  BY <1>1, <1>2, <1>3, <1>4, <1>5, <1>6, <1>7, <1>8 DEF SelNext, RegistrationStep, Answered

LEMMA SelInvStep ==
  ASSUME SelInv, ProfileType, SelNext \/ UNCHANGED selVars
  PROVE  SelInv'
<1> USE DEF Ids
<1>1. ASSUME UNCHANGED <<cur, locked, loads, saves>>,
             disturbed' \/ UNCHANGED <<profile, disturbed>>
      PROVE  SelInv'
  BY <1>1 DEF SelInv, SelInFlight, PostedOrStored, Awaited
<1>2. ASSUME NEW p \in Ids, SelectProject(p)
      PROVE  SelInv'
  BY <1>2, SelInvActivate DEF SelectProject
<1>3. CASE StartNewProject
  BY <1>3, SelInvActivate DEF StartNewProject
<1>4. CASE Created
  BY <1>4, SelInvActivate DEF Created
<1>5. CASE Refreshed
  BY <1>5, SelInvActivate DEF Refreshed, ProfileType
<1>6. CASE Register \/ RegisterFails \/ Activated \/ Finished
  BY <1>1, <1>6 DEF Register, RegisterFails, Activated, Finished
<1>7. CASE UNCHANGED selVars
  BY <1>1, <1>7 DEF selVars
<1> QED
  BY <1>2, <1>3, <1>4, <1>5, <1>6, <1>7, SelInvServerSaves, SelInvServerReads, SelInvProfileArrives
  DEF SelNext, RegistrationStep, Answered, ProfileType

\* What is asked for under the lock leaves an empty selection empty.
LEMMA LockStep ==
  ASSUME SelInv, SelNext \/ UNCHANGED selVars,
         locked, cur = None, FromTheLock, locked'
  PROVE  cur' = None /\ FromTheLock'
<1> USE DEF FromTheLock
<1>1. loads \in Seq(ProfileLoad) /\ \A k \in 1 .. Len(loads) : loads[k].lock
  BY DEF SelInv, SelInFlight
<1>2. ASSUME NEW p \in Ids \cup {reg.pid}, Activate(p)
      PROVE  cur' = None /\ FromTheLock'
  <2>1. locked' = (p = None) /\ cur' = p
    BY <1>2 DEF Activate
  <2>2. p = None /\ locked' = locked
    BY <2>1
  <2> QED
    BY <1>2, <2>1, <2>2 DEF Activate
<1>3. CASE StartNewProject
  BY <1>2, <1>3 DEF StartNewProject, Ids
<1>4. ASSUME NEW p \in Ids, SelectProject(p)
      PROVE  cur' = None /\ FromTheLock'
  BY <1>2, <1>4 DEF SelectProject
<1>5. CASE Created
  <2>1. PICK p \in NewProjects : Activate(p)
    BY <1>5 DEF Created
  <2>2. p \in Ids
    BY DEF Ids
  <2> QED
    BY <1>2, <2>1, <2>2
<1>6. CASE Refreshed
  BY <1>2, <1>6 DEF Refreshed
<1>7. CASE Register \/ RegisterFails \/ Activated \/ Finished \/ UNCHANGED selVars
  BY <1>7 DEF Register, RegisterFails, Activated, Finished, selVars
<1>8. ASSUME NEW i \in DOMAIN saves, ServerSaves(i)
      PROVE  cur' = None /\ FromTheLock'
  BY <1>8 DEF ServerSaves
<1>9. ASSUME NEW i \in DOMAIN loads, ServerReads(i)
      PROVE  cur' = None /\ FromTheLock'
  <2>1. /\ DOMAIN loads' = DOMAIN loads /\ cur' = None
        /\ \A k \in DOMAIN loads : loads'[k] = IF k = i THEN Read(loads[i].lock, profile) ELSE loads[k]
    BY <1>1, <1>9 DEF ServerReads
  <2>2. Read(loads[i].lock, profile).lock = loads[i].lock
    BY DEF Read
  <2> QED
    BY <2>1, <2>2
<1>10. ASSUME NEW i \in DOMAIN loads, ProfileArrives(i) \/ ProfileFails(i)
       PROVE  cur' = None /\ FromTheLock'
  <2>1. loads' = RemoveAt(loads, i) /\ cur' = None
    BY <1>10 DEF ProfileArrives, ProfileFails, TakesOver
  <2>2. /\ DOMAIN loads' = 1 .. Len(loads) - 1
        /\ \A k \in 1 .. Len(loads) - 1 : loads'[k] = IF k < i THEN loads[k] ELSE loads[k + 1]
    <3> DEFINE rest == RemoveAt(loads, i)
    <3>1. loads \in Seq(ProfileLoad)
      BY <1>1
    <3>2. /\ rest \in Seq(ProfileLoad) /\ Len(rest) = Len(loads) - 1
          /\ \A k \in 1 .. Len(loads) - 1 : rest[k] = IF k < i THEN loads[k] ELSE loads[k + 1]
      BY <3>1, RemoveAtLeaves
    <3>3. loads' = rest
      BY <2>1
    <3> HIDE DEF rest
    <3> QED
      BY <3>2, <3>3
  <2>3. ASSUME NEW k \in 1 .. Len(loads) - 1
        PROVE  loads'[k].lock
    <3>1. k \in 1 .. Len(loads) /\ k + 1 \in 1 .. Len(loads)
      BY <1>1
    <3>2. loads'[k] = loads[k] \/ loads'[k] = loads[k + 1]
      BY <2>2
    <3> QED
      BY <1>1, <3>1, <3>2
  <2> QED
    BY <2>1, <2>2, <2>3
<1> QED
  BY <1>3, <1>4, <1>5, <1>6, <1>7, <1>8, <1>9, <1>10 DEF SelNext, RegistrationStep, Answered

-----------------------------------------------------------------------------
(* Reports, the probe and the platform's forms.                            *)

\* Until an answer for another report comes, all that is kept is of the report
\* that is open.
PreviewInv ==
    previewName # NoReport /\ ~previewMixed => previewData \in {NoReport, previewName}

LEMMA PreviewInvInit == ASSUME ReportsInit PROVE PreviewInv
BY DEF ReportsInit, PreviewInv

LEMMA PreviewInvStep ==
    ASSUME PreviewInv, ReportsNext \/ UNCHANGED reportVars
    PROVE  PreviewInv'
<1> USE DEF PreviewInv
<1>1. ASSUME NEW f \in Reports, OpenPreview(f) PROVE PreviewInv'
  BY <1>1 DEF OpenPreview
<1>2. ASSUME NEW q \in DOMAIN previewAsks, NEW ok \in BOOLEAN, PreviewAnswers(q, ok)
      PROVE  PreviewInv'
  BY <1>2 DEF PreviewAnswers
<1>3. CASE ClosePreview
  BY <1>3 DEF ClosePreview
<1>4. CASE LeaveReports
  BY <1>4 DEF LeaveReports
<1>5. CASE UNCHANGED reportVars
  BY <1>5 DEF reportVars
<1> QED
  BY <1>1, <1>2, <1>3, <1>4, <1>5 DEF ReportsNext

LEMMA PreviewSound == ASSUME PreviewInv PROVE PreviewIsOfNamed
BY DEF PreviewInv, PreviewIsOfNamed, PreviewShown

\* While a probe is under way the message names the job it dispatched, or no
\* job yet.
ProbeInv ==
    /\ probeStep \in {"idle", "dispatch", "status"}
    /\ probeStep = "dispatch" => probeSaid = 0
    /\ probeStep = "status" => probeSaid = probeJob
    /\ ProbeIsNamed

LEMMA ProbeInvInit == ASSUME ProbeInit PROVE ProbeInv
BY DEF ProbeInit, ProbeInv, ProbeIsNamed

LEMMA ProbeInvStep ==
    ASSUME ProbeInv, ProbeNext \/ UNCHANGED probeVars
    PROVE  ProbeInv'
BY DEF ProbeInv, ProbeIsNamed, ProbeNext, ChooseRuntime, DispatchProbe, ProbeAnswers,
       ProbeFails, LeaveSystem, probeVars

\* As long as no requests were mixed one at most is under way.  It is of the
\* form used last, which then has no verdict yet, or it loads a list.
FormShape ==
    /\ formNewest \in PlatformForms \cup {"none"}
    /\ \A q \in formAsks : q[2] \in PlatformForms \cup FormLists

FormVerdict ==
    /\ formMsg \in {"none", formNewest} /\ formErr \in {"none", formNewest, "leaderboard"}
    /\ formMsg # "none" => formErr # formNewest
    /\ \A q \in formAsks : q[2] \notin FormLists =>
          q[2] = formNewest /\ formMsg = "none" /\ formErr = "none"
    /\ \/ formMsg # "none" \/ formErr # "none"
       \/ \E q \in formAsks : q[2] = formNewest

FormInv ==
    /\ FormShape
    /\ ~formMixed => \A p, q \in formAsks : p = q
    /\ ~formMixed /\ formNewest # "none" => FormVerdict

LEMMA FormInvInit == ASSUME PlatformInit PROVE FormInv
BY DEF PlatformInit, FormInv, FormShape, FormVerdict

LEMMA FormInvStep ==
    ASSUME FormInv, PlatformNext \/ UNCHANGED formVars
    PROVE  FormInv'
<1> USE DEF FormInv, FormShape, FormVerdict, PlatformForms, FormLists
<1>1. ASSUME NEW f \in PlatformForms, NEW parses \in BOOLEAN, UseForm(f, parses)
      PROVE  FormInv'
  <2>1. /\ formMsg' = "none" /\ formNewest' = f /\ (formMixed' <=> formAsks # {})
        /\ formErr' = IF parses THEN "none" ELSE f
        /\ formAsks' = IF parses THEN formAsks \cup {<<formDone', f>>} ELSE formAsks
    BY <1>1 DEF UseForm
  <2>2. CASE parses
    <3>1. PICK new : new = <<formDone', f>>
      OBVIOUS
    <3>2. new[2] = f /\ f \notin FormLists
      BY <3>1
    <3>3. formAsks' = formAsks \cup {new} /\ formErr' = "none"
      BY <2>1, <2>2, <3>1
    <3>4. FormShape'
      BY <2>1, <3>2, <3>3
    <3>5. ASSUME ~formMixed' PROVE (\A p, q \in formAsks' : p = q) /\ FormVerdict'
      <4>1. formAsks' = {new}
        BY <2>1, <3>3, <3>5
      <4> QED
        BY <2>1, <3>2, <3>3, <4>1
    <3> QED
      BY <3>4, <3>5
  <2>3. CASE ~parses
    BY <2>1, <2>3
  <2> QED
    BY <2>2, <2>3
<1>2. ASSUME NEW q \in formAsks, NEW ok \in BOOLEAN, FormAnswers(q, ok)
      PROVE  FormInv'
  <2>1. /\ formMsg' = IF ok /\ q[2] \in PlatformForms THEN q[2] ELSE formMsg
        /\ formErr' = IF ok \/ q[2] = "benchmarks" THEN formErr ELSE q[2]
        /\ formAsks' = (formAsks \ {q})
               \cup (IF ok /\ q[2] = "submit" THEN {<<q[1], "leaderboard">>} ELSE {})
        /\ formNewest' = formNewest /\ formMixed' = formMixed
    BY <1>2 DEF FormAnswers
  <2>2. FormShape'
    BY <2>1
  <2>3. ~formMixed' => \A p1, p2 \in formAsks' : p1 = p2
    BY <2>1
  <2>4. ASSUME ~formMixed, formNewest # "none" PROVE FormVerdict'
    <3>1. formAsks = {q}
      BY <2>4
    <3>2. CASE ok
      BY <2>1, <2>4, <3>1, <3>2
    <3>3. CASE ~ok
      BY <2>1, <2>4, <3>1, <3>3
    <3> QED
      BY <3>2, <3>3
  <2> QED
    BY <2>1, <2>2, <2>3, <2>4
<1>3. ASSUME NEW l \in FormLists, LoadFormList(l)
      PROVE  FormInv'
  <2>1. PICK new : new = <<formDone', l>>
    OBVIOUS
  <2>2. new[2] = l /\ l \in FormLists
    BY <2>1
  <2>3. /\ formAsks' = formAsks \cup {new} /\ UNCHANGED <<formErr, formMsg, formNewest>>
        /\ formMixed' <=> formMixed \/ formAsks # {}
    BY <1>3, <2>1 DEF LoadFormList
  <2>4. FormShape'
    BY <2>2, <2>3
  <2>5. ASSUME ~formMixed'
        PROVE  (\A p, q \in formAsks' : p = q) /\ (formNewest' # "none" => FormVerdict')
    <3>1. formAsks = {} /\ formAsks' = {new} /\ ~formMixed
      BY <2>3, <2>5
    <3> QED
      BY <2>2, <2>3, <3>1
  <2> QED
    BY <2>4, <2>5
<1>4. CASE UNCHANGED formVars
  BY <1>4 DEF formVars
<1> QED
  BY <1>1, <1>2, <1>3, <1>4 DEF PlatformNext

LEMMA FormSound == ASSUME FormInv PROVE VerdictIsOfLast
BY DEF FormInv, FormVerdict, VerdictIsOfLast

-----------------------------------------------------------------------------
(* The lists.                                                              *)

\* What a list was asked for, and what a card names, is data the server had.
ListsInv ==
    /\ listVersion \in Nat /\ askedAt \in 0 .. listVersion /\ toolNamed \in 0 .. listVersion
    /\ ToolNewsIsAsked

LEMMA ListsInvInit == ASSUME ListsInit PROVE ListsInv
BY DEF ListsInit, ListsInv, ToolNewsIsAsked

LEMMA ListsInvStep ==
    ASSUME ListsInv, ListsNext \/ UNCHANGED listVars
    PROVE  ListsInv'
<1> USE DEF ListsInv, ToolNewsIsAsked
\* A load is of what the server has.
<1>1. ASSUME NEW n, Load(n, listVersion), UNCHANGED <<list, listVersion>>,
             toolNamed' \in {0, toolNamed}
      PROVE  ListsInv'
  BY <1>1 DEF Load
<1>2. CASE ListSignIn \/ ListTick \/ TurnTab \/ PressRefresh \/ \E p \in ListPages : OpenListPage(p)
  BY <1>1, <1>2 DEF ListSignIn, ListTick, TurnTab, PressRefresh, OpenListPage
<1>3. ASSUME NEW name, NEW said, NEW dry, ChatUsedTool(name, said, dry)
      PROVE  ListsInv'
  <2> DEFINE asks == IF ShouldRefreshAfterTools(name, said, dry) /\ list \in ToolLists THEN 1 ELSE 0
  <2>1. /\ listVersion' \in {listVersion, listVersion + 1} /\ list' = list
        /\ toolNamed' = IF CardNames(name, said, dry) THEN listVersion' ELSE 0
        /\ Load(asks, listVersion')
    BY <1>3 DEF ChatUsedTool
  <2>2. CardNames(name, said, dry) /\ list \in ToolLists => asks = 1
    BY DEF CardNames, ShouldRefreshAfterTools
  <2> HIDE DEF asks
  <2>3. askedAt' = IF asks = 0 THEN askedAt ELSE listVersion'
    BY <2>1 DEF Load
  <2>4. listVersion' \in Nat /\ listVersion <= listVersion' /\ 0 <= listVersion'
    BY <2>1
  <2>5. askedAt' \in 0 .. listVersion' /\ toolNamed' \in 0 .. listVersion'
    BY <2>1, <2>3, <2>4
  <2> QED
    BY <2>1, <2>2, <2>3, <2>4, <2>5
<1>4. ASSUME NEW ok \in BOOLEAN, EntryAnswered(ok) PROVE ListsInv'
  BY <1>4 DEF EntryAnswered, Load
<1>5. CASE ListSignOut \/ DataChanges \/ AskChat \/ SendEntry
  BY <1>5 DEF ListSignOut, DataChanges, AskChat, SendEntry
<1>6. ASSUME NEW i, LoadRead(i) \/ LoadAnswers(i) \/ LoadFails(i) PROVE ListsInv'
  BY <1>6 DEF LoadRead, LoadAnswers, LoadFails
<1>7. CASE UNCHANGED listVars
  BY <1>7 DEF listVars
<1> QED
  BY <1>2, <1>3, <1>4, <1>5, <1>6, <1>7 DEF ListsNext

-----------------------------------------------------------------------------
(* The dialog with the log of a job.                                       *)

SomeJob == JobIds \cup {NoJob}
Acts == [kind : {"none", "cancel", "retry"}, job : SomeJob, saw : SomeJob, stage : 0 .. 3]

\* While its newest request is out, an open dialog asked last for the log of
\* its job; once that is answered it has this log or none.
LogFits ==
    openLog # NoJob =>
        /\ newestLog = "pending" => logAsks # <<>> /\ logAsks[Len(logAsks)] = openLog
        /\ newestLog = "shown" => logOf \in {NoJob, openLog}

ConsoleInv ==
    /\ logAsks \in Seq(SomeJob) /\ DOMAIN status \subseteq JobIds
    /\ {focus, openLog} \subseteq SomeJob /\ acting \in Acts
    /\ LogFits

LEMMA ActFields == NoAct \in Acts /\ \A a \in Acts : a.job \in SomeJob
BY DEF Acts, NoAct, SomeJob

LEMMA ActStages ==
    ASSUME NEW a \in Acts
    PROVE  /\ [a EXCEPT !.stage = 2] \in Acts /\ [a EXCEPT !.stage = 3] \in Acts
           /\ \A n \in SomeJob : [a EXCEPT !.stage = 2, !.job = n] \in Acts
<1>1. ASSUME NEW b \in Acts PROVE [b EXCEPT !.stage = 2] \in Acts /\ [b EXCEPT !.stage = 3] \in Acts
  BY DEF Acts
<1>2. ASSUME NEW b \in Acts, NEW n \in SomeJob PROVE [b EXCEPT !.job = n] \in Acts
  BY DEF Acts
<1>3. ASSUME NEW n \in SomeJob PROVE [a EXCEPT !.stage = 2, !.job = n] \in Acts
  <2>1. [a EXCEPT !.stage = 2, !.job = n] = [[a EXCEPT !.stage = 2] EXCEPT !.job = n]
    OBVIOUS
  <2> QED
    BY <1>1, <1>2, <2>1, Zenon
<1> QED
  BY <1>1, <1>3

LEMMA ConsoleInvInit == ASSUME ConsoleInit PROVE ConsoleInv
<1>1. logAsks \in Seq(SomeJob)
  BY EmptySeq DEF ConsoleInit
<1> QED
  BY <1>1, ActFields DEF ConsoleInit, ConsoleInv, LogFits, SomeJob, JobIds

\* Whatever asks for a log.
LEMMA LogAsked ==
    ASSUME ConsoleInv, NEW j \in SomeJob, FetchLogs(j), openLog' \in {openLog, j}
    PROVE  logAsks' \in Seq(SomeJob) /\ openLog' \in SomeJob /\ LogFits'
<1>1. /\ logAsks' = Append(logAsks, j)
      /\ newestLog' = IF j = openLog' THEN "pending" ELSE "lost"
  BY DEF FetchLogs
<1>2. logAsks' \in Seq(SomeJob) /\ logAsks' # <<>> /\ logAsks'[Len(logAsks')] = j
  BY <1>1 DEF ConsoleInv
<1> QED
  BY <1>1, <1>2 DEF ConsoleInv, LogFits

LEMMA ConsoleInvStep ==
    ASSUME ConsoleInv, ConsoleNext \/ UNCHANGED consoleVars
    PROVE  ConsoleInv'
<1> USE DEF SomeJob
<1>1. ASSUME NEW j \in SomeJob, FetchLogs(j), openLog' \in {openLog, j},
             DOMAIN status' \subseteq JobIds, focus' \in SomeJob, acting' \in Acts
      PROVE  ConsoleInv'
  BY <1>1, LogAsked DEF ConsoleInv
<1>2. ASSUME UNCHANGED <<openLog, logLoading, logAsks, newestLog, logOf>>,
             DOMAIN status' \subseteq JobIds, focus' \in SomeJob, acting' \in Acts
      PROVE  ConsoleInv'
  BY <1>2 DEF ConsoleInv, LogFits
<1>3. ASSUME TableArrives, UNCHANGED <<status, focus, logOf>>, acting' \in Acts
      PROVE  ConsoleInv'
  BY <1>1, <1>2, <1>3 DEF TableArrives, ConsoleInv
<1>4. CASE LoadJobs
  BY <1>3, <1>4 DEF LoadJobs, ConsoleInv
<1>5. CASE LoadJobsFails
  BY <1>2, <1>5 DEF LoadJobsFails, ConsoleInv
<1>6. CASE RefreshLog
  BY <1>1, <1>6 DEF RefreshLog, ConsoleInv
<1>7. CASE CloseLog
  BY <1>7 DEF CloseLog, ConsoleInv, LogFits
<1>8. ASSUME NEW j \in JobIds, FocusJob(j) PROVE ConsoleInv'
  BY <1>1, <1>2, <1>8 DEF FocusJob, ConsoleInv
<1>9. ASSUME NEW j \in JobIds, OpenLog(j) PROVE ConsoleInv'
  BY <1>1, <1>9 DEF OpenLog, ConsoleInv
<1>10. ASSUME NEW i \in DOMAIN logAsks, LogArrives(i) PROVE ConsoleInv'
  <2>1. /\ logOf' \in {logAsks[i], NoJob}
        /\ logAsks' = RemoveAt(logAsks, i) /\ UNCHANGED <<status, focus, openLog, acting>>
        /\ newestLog' = IF newestLog = "pending"
                        THEN IF i = Len(logAsks) THEN "shown" ELSE "pending"
                        ELSE "lost"
    BY <1>10 DEF LogArrives
  <2>2. logAsks \in Seq(SomeJob) /\ Len(logAsks) \in Nat /\ i \in 1 .. Len(logAsks)
    BY DEF ConsoleInv
  <2>3. PICK rest \in Seq(SomeJob) :
           /\ logAsks' = rest /\ Len(rest) = Len(logAsks) - 1
           /\ \A k \in 1 .. Len(logAsks) - 1 : rest[k] = IF k < i THEN logAsks[k] ELSE logAsks[k + 1]
    BY <2>1, <2>2, RemoveAtLeaves
  <2>4. ASSUME newestLog = "pending", i # Len(logAsks)
        PROVE  rest # <<>> /\ rest[Len(rest)] = logAsks[Len(logAsks)]
    <3>1. i < Len(logAsks) /\ Len(rest) \in 1 .. Len(logAsks) - 1 /\ ~(Len(rest) < i)
          /\ Len(rest) + 1 = Len(logAsks)
      BY <2>2, <2>3, <2>4
    <3> QED
      BY <2>3, <3>1
  <2>5. LogFits'
    <3>1. CASE newestLog # "pending"
      BY <2>1, <3>1 DEF LogFits
    <3>2. CASE newestLog = "pending" /\ i = Len(logAsks)
      BY <2>1, <3>2 DEF ConsoleInv, LogFits
    <3>3. CASE newestLog = "pending" /\ i # Len(logAsks)
      BY <2>1, <2>3, <2>4, <3>3 DEF ConsoleInv, LogFits
    <3> QED
      BY <3>1, <3>2, <3>3
  <2> QED
    BY <2>1, <2>3, <2>5 DEF ConsoleInv
<1>11. ASSUME NEW act \in {"cancel", "retry"}, NEW j \in JobIds, Act(act, j) PROVE ConsoleInv'
  <2>1. [kind |-> act, job |-> j, saw |-> openLog, stage |-> 1] \in Acts
    BY DEF Acts, ConsoleInv
  <2> QED
    BY <1>2, <1>11, <2>1 DEF Act, ConsoleInv
<1>12. CASE ServerActs
  <2>1. UNCHANGED <<openLog, logLoading, logAsks, newestLog, logOf, focus>>
    BY <1>12 DEF ServerActs
  <2>2. DOMAIN status' \subseteq JobIds /\ acting' \in Acts
    <3>1. CASE UNCHANGED status /\ acting' = NoAct
      BY <3>1, ActFields DEF ConsoleInv
    <3>2. CASE status' = [status EXCEPT ![acting.job] = "cancelled"] /\ acting' = [acting EXCEPT !.stage = 2]
      BY <3>2, ActStages DEF ConsoleInv
    <3>3. ASSUME NEW n \in RetryJobs,
                 status' = [j \in DOMAIN status \cup {n} |-> IF j = n THEN "queued" ELSE status[j]],
                 acting' = [acting EXCEPT !.stage = 2, !.job = n]
          PROVE  DOMAIN status' \subseteq JobIds /\ acting' \in Acts
      BY <3>3, ActStages DEF ConsoleInv, JobIds
    <3> QED
      BY <1>12, <3>1, <3>2, <3>3 DEF ServerActs
  <2> QED
    BY <1>2, <2>1, <2>2 DEF ConsoleInv
<1>13. CASE ActReloads
  BY <1>3, <1>13, ActStages DEF ActReloads, ConsoleInv
<1>14. CASE ActShows
  <2>1. acting' \in Acts /\ acting.job \in SomeJob
    BY <1>14, ActFields DEF ActShows, ConsoleInv
  <2> QED
    BY <1>1, <1>2, <1>14, <2>1 DEF ActShows, ConsoleInv
<1>15. ASSUME NEW j \in DOMAIN status, JobAdvances(j) PROVE ConsoleInv'
  BY <1>2, <1>15 DEF JobAdvances, ConsoleInv
<1>16. CASE UNCHANGED consoleVars
  BY <1>2, <1>16 DEF consoleVars, ConsoleInv
<1> QED
  BY <1>4, <1>5, <1>6, <1>7, <1>8, <1>9, <1>10, <1>11, <1>12, <1>13, <1>14, <1>15, <1>16
  DEF ConsoleNext, ConsoleStep

LEMMA ConsoleSound == ASSUME ConsoleInv PROVE LogIsOfOpenJob
BY DEF ConsoleInv, LogFits, LogIsOfOpenJob, DialogParts

-----------------------------------------------------------------------------
(* Trainings, and the poll of the job one of them queued.                  *)

Handlers == [n : RunIds, stage : {"sent", "reloading", "queued"}, aborted : BOOLEAN,
             file : DataFiles]
Polls == [job : RunIds, live : BOOLEAN, over : BOOLEAN, read : BOOLEAN]

\* The button starts one training at a time, so that no second handler clears
\* the flags of the first.
WorkInv ==
    /\ runs \subseteq Handlers /\ runCount \in Nat /\ chosen \in DataFiles \cup {NoData}
    /\ \A r \in runs : r.n = runCount
    /\ \A r, q \in runs : r = q
    /\ ResultOfLastRun

LEMMA WorkInvInit == ASSUME RunInit PROVE WorkInv
BY DEF RunInit, WorkInv, ResultOfLastRun

LEMMA WorkInvStep ==
    ASSUME WorkInv, RunNext \/ UNCHANGED runVars
    PROVE  WorkInv'
<1> USE DEF WorkInv, ResultOfLastRun
<1>1. ASSUME UNCHANGED <<runs, runCount, training>>, result' \in {0, result},
             chosen' \in DataFiles \cup {NoData}
      PROVE  WorkInv'
  BY <1>1
\* Putting a handler in the place of the only one.
<1>2. ASSUME NEW r \in runs, NEW q \in Handlers, q.n = r.n, runs' = (runs \ {r}) \cup {q},
             UNCHANGED <<runCount, training, chosen>>, result' \in {result, r.n}
      PROVE  WorkInv'
  <2>1. runs = {r} /\ runs' = {q}
    BY <1>2
  <2> QED
    BY <1>2, <2>1
<1>3. ASSUME NEW r \in runs PROVE [r EXCEPT !.aborted = TRUE] \in Handlers /\ [r EXCEPT !.aborted = TRUE].n = r.n
                               /\ \A st \in {"reloading", "queued"} :
                                     [r EXCEPT !.stage = st] \in Handlers /\ [r EXCEPT !.stage = st].n = r.n
  BY DEF Handlers
<1>4. CASE RunTrain
  <2>1. runs = {} /\ runCount < MaxRuns /\ chosen \in DataFiles
    BY <1>4 DEF RunTrain, TrainControls
  <2>2. PICK new : new = [n |-> runCount + 1, stage |-> "sent", aborted |-> FALSE, file |-> chosen]
    OBVIOUS
  <2>3. new \in Handlers /\ new.n = runCount + 1
    BY <2>1, <2>2, RunAssumption DEF Handlers, RunIds
  <2>4. runs' = {new} /\ runCount' = runCount + 1 /\ training' = TRUE /\ result' = 0 /\ chosen' = chosen
    BY <1>4, <2>1, <2>2 DEF RunTrain, Abort
  <2> QED
    BY <2>3, <2>4
<1>5. CASE CancelTrain
  <2>1. runs' = Abort(runs, abortRef) /\ UNCHANGED <<runCount, training, chosen, result>>
    BY <1>5 DEF CancelTrain
  <2>2. CASE runs = {}
    BY <1>1, <2>1, <2>2 DEF Abort
  <2>3. ASSUME NEW r \in runs PROVE WorkInv'
    <3>1. runs = {r}
      OBVIOUS
    <3>2. runs' = {IF r.n = abortRef THEN [r EXCEPT !.aborted = TRUE] ELSE r}
      BY <2>1, <3>1 DEF Abort
    <3>3. PICK q \in Handlers : q.n = r.n /\ runs' = {q}
      BY <1>3, <3>2
    <3> QED
      BY <1>2, <2>1, <3>1, <3>3
  <2> QED
    BY <2>2, <2>3
<1>6. ASSUME NEW r \in runs, TrainAnswered(r) PROVE WorkInv'
  BY <1>2, <1>3, <1>6 DEF TrainAnswered
<1>7. ASSUME NEW r \in runs, TrainQueued(r) PROVE WorkInv'
  BY <1>2, <1>3, <1>7 DEF TrainQueued
<1>8. ASSUME NEW r \in runs, TrainEnds(r) PROVE WorkInv'
  <2>1. runs' = {} /\ training' = FALSE /\ UNCHANGED <<runCount, chosen, result>>
    BY <1>8 DEF TrainEnds
  <2> QED
    BY <2>1
<1>9. CASE TaskNext
  BY <1>1, <1>9 DEF TaskNext, ChooseTask, ChooseModel
<1>10. CASE TrainRefused \/ \E f \in DataFiles \cup {NoData} : Choose(f)
  BY <1>1, <1>10 DEF TrainRefused, Choose
<1>11. ASSUME UNCHANGED trainVars PROVE WorkInv'
  BY <1>1, <1>11 DEF trainVars
<1>12. CASE TickAgain \/ SignInOrOut \/ \E j \in RunIds : JobEnds(j)
  BY <1>11, <1>12 DEF TickAgain, SignInOrOut, JobEnds
<1>13. ASSUME NEW t, TickRead(t) \/ TickArrives(t) \/ TickFails(t) PROVE WorkInv'
  BY <1>11, <1>13 DEF TickRead, TickArrives, TickFails
<1>14. CASE ChoosePrediction \/ RunPredict \/ PredictEnds \/ UNCHANGED runVars
  BY <1>11, <1>14 DEF ChoosePrediction, RunPredict, PredictEnds, runVars
<1> QED
  BY <1>4, <1>5, <1>6, <1>7, <1>8, <1>9, <1>10, <1>12, <1>13, <1>14 DEF RunNext, WorkNext

\* A poll that tells the end of a job is right about it, and only a poll set
\* up while a job is polled can still write the line.
WatchInv ==
    /\ ticks \subseteq Polls /\ poll \in RunIds \cup {0} /\ runs \subseteq Handlers
    /\ \A t \in ticks : t.over => t.job \in jobOver
    /\ \A t \in ticks : t.live => poll # 0
    /\ NewestJobIsWatched

LEMMA WatchInvInit == ASSUME RunInit PROVE WatchInv
BY DEF RunInit, WatchInv, NewestJobIsWatched

\* What a handler or a poll is after one of its fields was set.
LEMMA HandlerFields ==
    ASSUME NEW r \in Handlers
    PROVE  /\ [r EXCEPT !.aborted = TRUE] \in Handlers
           /\ \A st \in {"reloading", "queued"} : [r EXCEPT !.stage = st] \in Handlers
BY DEF Handlers

LEMMA PollFields ==
    ASSUME NEW t \in Polls
    PROVE  /\ [t EXCEPT !.live = FALSE] \in Polls
           /\ [t EXCEPT !.live = FALSE].live = FALSE
           /\ [t EXCEPT !.live = FALSE].over = t.over
           /\ [t EXCEPT !.live = FALSE].job = t.job
BY DEF Polls

LEMMA PollRead ==
    ASSUME NEW t \in Polls, NEW o \in BOOLEAN
    PROVE  /\ [t EXCEPT !.read = TRUE, !.over = o] \in Polls
           /\ [t EXCEPT !.read = TRUE, !.over = o].live = t.live
           /\ [t EXCEPT !.read = TRUE, !.over = o].over = o
           /\ [t EXCEPT !.read = TRUE, !.over = o].job = t.job
BY DEF Polls

LEMMA NewPoll ==
    ASSUME NEW j \in RunIds
    PROVE  Tick(j) \in Polls /\ Tick(j).over = FALSE /\ Tick(j).job = j /\ Tick(j).live = TRUE
BY DEF Tick, Polls

\* No poll of S is about to claim an end that is not there or, unless a job is
\* polled, to write the line.
Faithful(S, ended, watched) ==
    /\ S \subseteq Polls
    /\ \A t \in S : (t.over => t.job \in ended) /\ (t.live => watched # 0)

LEMMA StaleIsFaithful ==
    ASSUME NEW S, NEW ended, NEW watched, NEW any, Faithful(S, ended, watched)
    PROVE  Faithful(Stale(S), ended, any)
<1> SUFFICES ASSUME NEW q \in Stale(S)
             PROVE  q \in Polls /\ (q.over => q.job \in ended) /\ (q.live => any # 0)
  BY DEF Faithful
<1>1. PICK t \in S : q = [t EXCEPT !.live = FALSE]
  BY DEF Stale
<1> QED
  BY <1>1, PollFields DEF Faithful

LEMMA WatchInvStep ==
    ASSUME WorkInv, WatchInv, RunNext \/ UNCHANGED runVars
    PROVE  WatchInv'
<1>0. Faithful(ticks, jobOver, poll) /\ poll \in RunIds \cup {0} /\ 0 \notin RunIds /\ RunIds \subseteq Nat
  BY DEF WatchInv, Faithful, RunIds
<1> DEFINE Sound == Faithful(ticks', jobOver', poll') /\ poll' \in RunIds \cup {0} /\ runs' \subseteq Handlers
<1>1. Sound /\ NewestJobIsWatched' => WatchInv'
  BY DEF WatchInv, Faithful
<1> HIDE DEF Sound
<1>2. ASSUME UNCHANGED jobVars, runs' \subseteq Handlers PROVE WatchInv'
  BY <1>2 DEF WatchInv, NewestJobIsWatched, jobVars
<1>3. ASSUME NEW S \in SUBSET Handlers PROVE Abort(S, abortRef) \subseteq Handlers
  BY HandlerFields DEF Abort
<1>4. CASE RunTrain
  <2>1. chosen \in DataFiles /\ runCount + 1 \in RunIds
    BY <1>4, RunAssumption DEF RunTrain, WorkInv, RunIds
  <2>2. [n |-> runCount + 1, stage |-> "sent", aborted |-> FALSE, file |-> chosen] \in Handlers
    BY <2>1 DEF Handlers
  <2> QED
    BY <1>2, <1>3, <1>4, <2>2 DEF RunTrain, WatchInv
<1>5. CASE CancelTrain
  BY <1>2, <1>3, <1>5 DEF CancelTrain, WatchInv
<1>6. ASSUME NEW r \in runs, TrainAnswered(r) \/ TrainEnds(r) PROVE WatchInv'
  BY <1>2, <1>6, HandlerFields DEF TrainAnswered, TrainEnds, WatchInv
<1>7. ASSUME NEW r \in runs, TrainQueued(r) PROVE WatchInv'
  <2>1. /\ WatchJob(r.n) /\ newestJob' = r.n /\ UNCHANGED <<signedIn, jobOver>>
        /\ runs' = (runs \ {r}) \cup {[r EXCEPT !.stage = "queued"]}
    BY <1>7 DEF TrainQueued
  <2>2. r.n \in RunIds /\ r.n # 0 /\ poll' = r.n /\ runs' \subseteq Handlers
    BY <1>0, <2>1, HandlerFields DEF WatchJob, WatchInv, Handlers
  <2>3. Faithful(ticks', jobOver', poll')
    <3>1. CASE r.n = poll
      BY <1>0, <2>1, <2>2, <3>1 DEF WatchJob
    <3>2. CASE r.n # poll
      <4>1. ticks' = Stale(ticks) \cup (IF r.n # 0 /\ signedIn THEN {Tick(r.n)} ELSE {})
        BY <2>1, <3>2 DEF WatchJob
      <4>2. Faithful(Stale(ticks), jobOver', poll') /\ jobOver' = jobOver
        BY <1>0, <2>1, StaleIsFaithful
      <4> QED
        BY <2>2, <4>1, <4>2, NewPoll DEF Faithful
    <3> QED
      BY <3>1, <3>2
  <2>4. NewestJobIsWatched'
    BY <2>1, <2>2 DEF NewestJobIsWatched
  <2> QED
    BY <1>0, <1>1, <2>2, <2>3, <2>4 DEF Sound
<1>8. ASSUME NEW j \in RunIds, JobEnds(j) PROVE WatchInv'
  BY <1>8 DEF JobEnds, trainVars, WatchInv, NewestJobIsWatched
<1>9. CASE TickAgain
  <2>1. /\ poll # 0 /\ ticks' = ticks \cup {Tick(poll)}
        /\ UNCHANGED <<jobOver, newestJob, poll, line, cutOff, runs>>
    BY <1>9 DEF TickAgain, trainVars
  <2> QED
    BY <2>1, NewPoll DEF WatchInv, NewestJobIsWatched
<1>10. CASE SignInOrOut
  <2>1. /\ line' = IF signedIn THEN NoLine ELSE line
        /\ ticks' = Stale(ticks) \cup (IF ~signedIn /\ poll # 0 THEN {Tick(poll)} ELSE {})
        /\ UNCHANGED <<jobOver, newestJob, poll, cutOff, runs>>
    BY <1>10 DEF SignInOrOut, trainVars
  <2>2. Faithful(Stale(ticks), jobOver, poll)
    BY <1>0, StaleIsFaithful
  <2>3. Faithful(ticks', jobOver', poll')
    BY <1>0, <2>1, <2>2, NewPoll DEF Faithful
  <2>4. NewestJobIsWatched'
    BY <2>1 DEF WatchInv, NewestJobIsWatched
  <2> QED
    BY <1>1, <2>1, <2>3, <2>4 DEF WatchInv, Sound
<1>11. ASSUME NEW t \in ticks, TickRead(t) PROVE WatchInv'
  <2>1. /\ ticks' = (ticks \ {t}) \cup {[t EXCEPT !.read = TRUE, !.over = t.job \in jobOver]}
        /\ UNCHANGED <<jobOver, newestJob, poll, line, cutOff, runs>>
    BY <1>11 DEF TickRead, trainVars
  <2>2. Faithful({[t EXCEPT !.read = TRUE, !.over = t.job \in jobOver]}, jobOver, poll)
    <3> DEFINE o == t.job \in jobOver
               q == [t EXCEPT !.read = TRUE, !.over = o]
    <3>1. o \in BOOLEAN /\ t \in Polls
      BY <1>0 DEF Faithful
    <3> HIDE DEF o
    <3>2. q \in Polls /\ q.live = t.live /\ q.over = o /\ q.job = t.job
      BY <3>1, PollRead, Zenon
    <3> HIDE DEF q
    <3> USE DEF o
    <3>3. (q.over => q.job \in jobOver) /\ (q.live => poll # 0)
      BY <1>0, <3>2 DEF Faithful
    <3>4. q = [t EXCEPT !.read = TRUE, !.over = t.job \in jobOver]
      BY DEF q
    <3> QED
      BY <3>2, <3>3, <3>4 DEF Faithful
  <2>3. Faithful(ticks', jobOver', poll')
    BY <1>0, <2>1, <2>2 DEF Faithful
  <2>4. NewestJobIsWatched'
    BY <2>1 DEF WatchInv, NewestJobIsWatched
  <2> QED
    BY <1>1, <2>1, <2>3, <2>4 DEF WatchInv, Sound
<1>12. ASSUME NEW t \in ticks, TickArrives(t) PROVE WatchInv'
  <2>1. /\ UNCHANGED <<jobOver, newestJob, runs>>
        /\ cutOff' <=> cutOff \/ (t.over /\ t.job # newestJob)
    BY <1>12 DEF TickArrives, trainVars
  <2>2. CASE t.over
    <3>1. poll' = 0 /\ line' = (IF poll = 0 THEN line ELSE NoLine) /\ ticks' = Stale(ticks \ {t})
      BY <1>12, <2>2 DEF TickArrives
    <3>2. Faithful(ticks \ {t}, jobOver, poll)
      BY <1>0 DEF Faithful
    <3>3. Faithful(ticks', jobOver', poll')
      BY <2>1, <3>1, <3>2, StaleIsFaithful
    <3>4. t.job # newestJob \/ newestJob \in jobOver
      BY <1>0, <2>2 DEF Faithful
    <3>5. NewestJobIsWatched'
      BY <2>1, <2>2, <3>1, <3>4 DEF WatchInv, NewestJobIsWatched
    <3> QED
      BY <1>1, <2>1, <3>1, <3>3, <3>5 DEF WatchInv, Sound
  <2>3. CASE ~t.over
    <3>1. /\ poll' = poll /\ ticks' = ticks \ {t} /\ (cutOff' <=> cutOff)
          /\ line' = IF t.live THEN [job |-> t.job, over |-> FALSE] ELSE line
      BY <1>12, <2>1, <2>3 DEF TickArrives
    <3>2. Faithful(ticks', jobOver', poll')
      BY <1>0, <2>1, <3>1 DEF Faithful
    <3>3. t.live => poll # 0
      BY <1>0 DEF Faithful
    <3>4. NewestJobIsWatched'
      BY <2>1, <3>1, <3>3 DEF WatchInv, NewestJobIsWatched
    <3> QED
      BY <1>1, <2>1, <3>1, <3>2, <3>4 DEF WatchInv, Sound
  <2> QED
    BY <2>2, <2>3
<1>13. ASSUME NEW t \in ticks, TickFails(t) PROVE WatchInv'
  BY <1>13 DEF TickFails, trainVars, WatchInv, NewestJobIsWatched
<1>14. CASE TaskNext \/ TrainRefused \/ \E f \in DataFiles \cup {NoData} : Choose(f)
  BY <1>2, <1>14 DEF TaskNext, ChooseTask, ChooseModel, TrainRefused, Choose, WatchInv
<1>15. CASE ChoosePrediction \/ RunPredict \/ PredictEnds \/ UNCHANGED runVars
  BY <1>2, <1>15 DEF ChoosePrediction, RunPredict, PredictEnds, runVars, trainVars, WatchInv
<1> QED
  BY <1>4, <1>5, <1>6, <1>7, <1>8, <1>9, <1>10, <1>11, <1>12, <1>13, <1>14, <1>15
  DEF RunNext, WorkNext

LEMMA RunSound == ASSUME WorkInv, WatchInv PROVE ResultOfLastRun /\ NewestJobIsWatched
BY DEF WorkInv, WatchInv

-----------------------------------------------------------------------------
(* The preview of the selected file.                                       *)

Asks == [file : Files, v : Nat]

ViewShape ==
    /\ version \in [Files -> Nat] /\ asked \in Seq(Asks)
    /\ listed \subseteq Files /\ selected \in Files \cup {NoFile}
    /\ upload \in [stage : {"idle", "sent", "stored", "listing", "previewing"},
                   file : Files \cup {NoFile}]
    /\ upload.stage # "idle" => upload.file \in Files

\* Between the storing of a file and the request for its new preview, what was
\* read of it may be old.
Superseded == upload.stage \in {"stored", "listing"} /\ upload.file = selected

\* What was read of the selected file, if anything.
IsCurrent(p) == p.file = selected /\ (p.v # 0 => p.v = version[selected] \/ Superseded)

\* While the newest request is awaited it is the last one and asks for the
\* selected file; what it has read is current, and stays so when it is shown.
ViewFits ==
    selected # NoFile =>
        /\ newest = "pending" => asked # <<>> /\ IsCurrent(asked[Len(asked)])
        /\ newest = "shown" => shown \in Asks /\ shown.v # 0 /\ IsCurrent(shown)

ViewInv == ViewShape /\ ViewFits

LEMMA ViewInvInit == ASSUME DeskInit PROVE ViewInv
<1>1. asked \in Seq(Asks)
  BY EmptySeq DEF DeskInit
<1>2. version \in [Files -> Nat]
  BY DEF DeskInit
<1> QED
  BY <1>1, <1>2 DEF DeskInit, ViewInv, ViewShape, ViewFits

\* A new request is awaited if it is for the selected file, else given up.
LEMMA AskedLast ==
    ASSUME ViewShape, NEW f \in Files, Ask(f)
    PROVE  /\ asked' \in Seq(Asks) /\ asked' # <<>>
           /\ asked'[Len(asked')].file = f /\ asked'[Len(asked')].v = 0
           /\ newest' = IF f = selected' THEN "pending" ELSE "lost"
<1>1. asked' = Append(asked, [file |-> f, v |-> 0]) /\ [file |-> f, v |-> 0] \in Asks
  BY DEF Ask, Asks
<1>2. asked \in Seq(Asks)
  BY DEF ViewShape
<1>3. \A q \in Asks : /\ Append(asked, q) \in Seq(Asks) /\ Append(asked, q) # <<>>
                      /\ Append(asked, q)[Len(Append(asked, q))] = q
  BY <1>2
<1> QED
  BY <1>1, <1>3 DEF Ask

\* Whatever asks for a preview, if the selection is as the request found it.
LEMMA ViewAsked ==
    ASSUME ViewInv, NEW f \in Files, Ask(f), ViewShape' \/ asked' \notin Seq(Asks)
    PROVE  ViewInv'
<1>1. ViewShape'
  BY AskedLast DEF ViewInv
<1>2. ViewFits'
  BY AskedLast DEF ViewInv, ViewFits, IsCurrent
<1> QED
  BY <1>1, <1>2 DEF ViewInv

\* Choosing a file asks for its preview, unless it was chosen already.
LEMMA ViewSelected ==
    ASSUME ViewInv, NEW f \in Files \cup {NoFile}, Select(f),
           UNCHANGED <<version, shown>>, listed' \subseteq Files,
           \/ UNCHANGED upload
           \/ /\ upload.stage = "stored" /\ f = upload.file
              /\ upload' = [upload EXCEPT !.stage = "listing"]
    PROVE  ViewInv'
<1>1. selected' = f
  BY DEF Select
<1>2. ViewShape' \/ asked' \notin Seq(Asks)
  BY <1>1 DEF ViewInv, ViewShape
<1>3. CASE f # NoFile /\ f # selected
  <2>1. f \in Files /\ Ask(f)
    BY <1>3 DEF Select
  <2> QED
    BY <1>2, <2>1, ViewAsked
<1>4. CASE ~(f # NoFile /\ f # selected)
  <2>1. UNCHANGED <<asked, newest>>
    BY <1>4 DEF Select
  <2>2. selected' = NoFile \/ selected' = selected
    BY <1>1, <1>4
  <2>3. ViewShape'
    BY <1>2, <2>1 DEF ViewInv, ViewShape
  <2>4. Superseded /\ selected' = selected => Superseded'
    BY DEF Superseded, ViewInv, ViewShape
  <2>5. ViewFits'
    BY <2>1, <2>2, <2>4 DEF ViewInv, ViewFits, IsCurrent
  <2> QED
    BY <2>3, <2>5 DEF ViewInv
<1> QED
  BY <1>3, <1>4

\* A step that moves neither the selection nor the requests, and no version of
\* the selected file unless that becomes superseded.
LEMMA ViewKept ==
    ASSUME ViewInv, ViewShape', UNCHANGED <<selected, asked, shown>>, newest' \in {newest, "lost"},
           selected # NoFile => version'[selected] = version[selected] \/ Superseded',
           Superseded => Superseded' \/ newest' = "lost"
    PROVE  ViewInv'
BY DEF ViewInv, ViewFits, IsCurrent

\* A request leaves the queue.
LEMMA ViewRemoved ==
    ASSUME ViewInv, NEW i \in DOMAIN asked, asked' = RemoveAt(asked, i)
    PROVE  /\ asked' \in Seq(Asks)
           /\ i # Len(asked) => asked' # <<>> /\ asked'[Len(asked')] = asked[Len(asked)]
<1>1. asked \in Seq(Asks) /\ Len(asked) \in Nat /\ i \in 1 .. Len(asked)
  BY DEF ViewInv, ViewShape
<1>2. /\ asked' \in Seq(Asks) /\ Len(asked') = Len(asked) - 1
      /\ \A k \in 1 .. Len(asked) - 1 : asked'[k] = IF k < i THEN asked[k] ELSE asked[k + 1]
  BY <1>1, RemoveAtLeaves
<1>3. ASSUME i # Len(asked) PROVE asked' # <<>> /\ asked'[Len(asked')] = asked[Len(asked)]
  <2>1. /\ Len(asked) - 1 \in 1 .. Len(asked) - 1 /\ ~(Len(asked) - 1 < i)
        /\ Len(asked) - 1 + 1 = Len(asked) /\ Len(asked') # 0
    BY <1>1, <1>2, <1>3
  <2> QED
    BY <1>2, <2>1
<1> QED
  BY <1>2, <1>3

LEMMA ViewInvStep ==
    ASSUME ViewInv, DeskNext \/ UNCHANGED deskVars
    PROVE  ViewInv'
<1>0. ViewShape /\ ViewFits
  BY DEF ViewInv
<1>1. ASSUME NEW f \in Files \cup {NoFile}, ChooseFile(f) PROVE ViewInv'
  BY <1>0, <1>1, ViewSelected DEF ChooseFile, ViewShape
<1>2. CASE LoadDatasets
  <2>1. UNCHANGED <<version, shown, upload>> /\ listed' \subseteq Files /\ ListArrives
    BY <1>2 DEF LoadDatasets, ListArrives
  <2>2. CASE selected = NoFile /\ listed' # {}
    BY <2>1, <2>2, ViewSelected DEF ListArrives
  <2>3. CASE ~(selected = NoFile /\ listed' # {})
    <3>1. UNCHANGED <<selected, asked, newest>>
      BY <2>1, <2>3 DEF ListArrives
    <3>2. ViewShape' /\ (Superseded => Superseded')
      BY <1>0, <2>1, <3>1 DEF ViewShape, Superseded
    <3> QED
      BY <2>1, <3>1, <3>2, ViewKept
  <2> QED
    BY <2>2, <2>3
<1>3. CASE RefreshPreview
  <2>1. selected \in Files /\ Ask(selected) /\ UNCHANGED <<version, listed, selected, shown, upload>>
    BY <1>0, <1>3 DEF RefreshPreview, ViewShape
  <2>2. ViewShape' \/ asked' \notin Seq(Asks)
    BY <1>0, <2>1 DEF ViewShape
  <2> QED
    BY <2>1, <2>2, ViewAsked
<1>4. ASSUME NEW i \in DOMAIN asked, PreviewRead(i) PROVE ViewInv'
  <2>1. /\ asked[i].v = 0 /\ asked' = [asked EXCEPT ![i].v = version[asked[i].file]]
        /\ UNCHANGED <<version, listed, selected, shown, newest, upload>>
    BY <1>4 DEF PreviewRead
  <2>2. asked \in Seq(Asks) /\ asked[i] \in Asks /\ version \in [Files -> Nat]
    BY <1>0 DEF ViewShape
  <2> DEFINE read == [asked[i] EXCEPT !.v = version[asked[i].file]]
  <2>3. read \in Asks /\ read.file = asked[i].file /\ read.v = version[asked[i].file]
    BY <2>2 DEF Asks
  <2>4. asked' = [asked EXCEPT ![i] = read]
    BY <2>1
  <2> HIDE DEF read
  <2>5. asked' \in Seq(Asks) /\ Len(asked') = Len(asked) /\ (asked # <<>> => asked' # <<>>)
    BY <2>2, <2>3, <2>4
  <2>6. ViewShape'
    BY <1>0, <2>1, <2>5 DEF ViewShape
  <2>7. asked # <<>> => Len(asked) \in DOMAIN asked
    BY <2>2
  <2>8. ASSUME newest = "pending", selected # NoFile PROVE IsCurrent(asked[Len(asked)])'
    <3>1. asked # <<>> /\ IsCurrent(asked[Len(asked)])
      BY <1>0, <2>8 DEF ViewFits
    <3>2. CASE i = Len(asked)
      <4>1. asked'[Len(asked')] = read
        BY <2>4, <2>5, <2>7, <3>1, <3>2
      <4> QED
        BY <2>1, <2>3, <3>1, <3>2, <4>1 DEF IsCurrent
    <3>3. CASE i # Len(asked)
      <4>1. asked'[Len(asked')] = asked[Len(asked)]
        BY <2>4, <2>5, <2>7, <3>1, <3>3
      <4> QED
        BY <2>1, <3>1, <4>1 DEF IsCurrent, Superseded
    <3> QED
      BY <3>2, <3>3
  <2>9. ViewFits'
    BY <1>0, <2>1, <2>5, <2>8 DEF ViewFits, IsCurrent, Superseded
  <2> QED
    BY <2>6, <2>9 DEF ViewInv
<1>5. ASSUME NEW i \in DOMAIN asked, PreviewArrives(i) PROVE ViewInv'
  <2>1. /\ asked[i].v > 0 /\ shown' = asked[i] /\ asked' = RemoveAt(asked, i)
        /\ newest' = IF newest = "pending"
                     THEN IF i = Len(asked) THEN "shown" ELSE "pending"
                     ELSE "lost"
        /\ UNCHANGED <<version, listed, selected, upload>>
    BY <1>5 DEF PreviewArrives
  <2>2. asked[i] \in Asks /\ asked[i].v # 0
    <3>1. asked[i] \in Asks
      BY <1>0 DEF ViewShape
    <3> QED
      BY <2>1, <3>1 DEF Asks
  <2>3. ViewShape'
    BY <1>0, <2>1, ViewRemoved DEF ViewShape
  <2>4. ViewFits'
    BY <1>0, <2>1, <2>2, ViewRemoved DEF ViewFits, IsCurrent, Superseded
  <2> QED
    BY <2>3, <2>4 DEF ViewInv
<1>6. ASSUME NEW i \in DOMAIN asked, PreviewFails(i) PROVE ViewInv'
  <2>1. /\ asked' = RemoveAt(asked, i)
        /\ newest' = IF newest = "pending" /\ i = Len(asked) THEN "lost" ELSE newest
        /\ UNCHANGED <<version, listed, selected, shown, upload>>
    BY <1>6 DEF PreviewFails
  <2>2. ViewShape'
    BY <1>0, <2>1, ViewRemoved DEF ViewShape
  <2>3. ViewFits'
    BY <1>0, <2>1, ViewRemoved DEF ViewFits, IsCurrent, Superseded
  <2> QED
    BY <2>2, <2>3 DEF ViewInv
<1>7. ASSUME NEW c, ChooseTarget(c) \/ ToggleFeature(c) PROVE ViewInv'
  <2>1. UNCHANGED <<version, listed, selected, shown, asked, newest, upload>>
    BY <1>7 DEF ChooseTarget, ToggleFeature
  <2> QED
    BY <1>0, <2>1, ViewKept DEF ViewShape, Superseded
<1>8. ASSUME NEW f \in Files, Upload(f) PROVE ViewInv'
  <2>1. /\ upload.stage = "idle" /\ upload' = [stage |-> "sent", file |-> f]
        /\ UNCHANGED <<version, listed, selected, shown, asked, newest>>
    BY <1>8 DEF Upload
  <2> QED
    BY <1>0, <2>1, ViewKept DEF ViewShape, Superseded
<1>9. CASE ServerStores
  <2>1. /\ upload.stage = "sent" /\ version' = [version EXCEPT ![upload.file] = @ + 1]
        /\ upload' = [upload EXCEPT !.stage = "stored"]
        /\ UNCHANGED <<listed, selected, shown, asked, newest>>
    BY <1>9 DEF ServerStores
  <2>2. version' \in [Files -> Nat]
    BY <1>0, <2>1 DEF ViewShape
  <2>3. upload'.stage = "stored" /\ upload'.file = upload.file
    BY <1>0, <2>1 DEF ViewShape
  <2>4. ViewShape'
    BY <1>0, <2>1, <2>2, <2>3 DEF ViewShape
  <2>5. selected # NoFile => version'[selected] = version[selected] \/ Superseded'
    BY <1>0, <2>1, <2>3 DEF ViewShape, Superseded
  <2> QED
    BY <2>1, <2>4, <2>5, ViewKept DEF Superseded
<1>10. CASE UploadAnswered
  <2>1. /\ upload.stage = "stored" /\ Select(upload.file)
        /\ upload' = [upload EXCEPT !.stage = "listing"] /\ UNCHANGED <<version, listed, shown>>
    BY <1>10 DEF UploadAnswered
  <2>2. upload.file \in Files /\ listed' \subseteq Files
    BY <1>0, <2>1 DEF ViewShape
  <2> QED
    BY <2>1, <2>2, ViewSelected
<1>11. CASE UploadListed
  <2>1. /\ upload.stage = "listing" /\ listed' = {f \in Files : version[f] > 0}
        /\ Ask(upload.file) /\ upload' = [upload EXCEPT !.stage = "previewing"]
        /\ UNCHANGED <<version, selected, shown>>
    BY <1>11 DEF UploadListed
  <2>2. upload.file \in Files /\ listed' \subseteq Files
    BY <1>0, <2>1 DEF ViewShape
  <2>3. upload'.stage = "previewing" /\ upload'.file = upload.file
    BY <1>0, <2>1 DEF ViewShape
  <2>4. ViewShape' \/ asked' \notin Seq(Asks)
    BY <1>0, <2>1, <2>2, <2>3 DEF ViewShape
  <2> QED
    BY <2>1, <2>2, <2>4, ViewAsked
<1>12. CASE UploadEnds
  <2>1. /\ upload.stage = "previewing" /\ upload' = [stage |-> "idle", file |-> NoFile]
        /\ UNCHANGED <<version, listed, selected, shown, asked, newest>>
    BY <1>12 DEF UploadEnds
  <2> QED
    BY <1>0, <2>1, ViewKept DEF ViewShape, Superseded
<1>13. CASE UploadFails
  <2>1. /\ upload.stage \in {"sent", "stored"} /\ upload' = [stage |-> "idle", file |-> NoFile]
        /\ newest' = IF upload.stage = "stored" THEN "lost" ELSE newest
        /\ UNCHANGED <<version, listed, selected, shown, asked>>
    BY <1>13 DEF UploadFails
  <2> QED
    BY <1>0, <2>1, ViewKept DEF ViewShape, Superseded
<1>14. CASE UNCHANGED deskVars
  BY <1>0, <1>14, ViewKept DEF deskVars, ViewShape, Superseded
<1> QED
  BY <1>1, <1>2, <1>3, <1>4, <1>5, <1>6, <1>7, <1>8, <1>9, <1>10, <1>11, <1>12, <1>13, <1>14
  DEF DeskNext

LEMMA ViewSound == ASSUME ViewInv PROVE NewestPreviewIsCurrent
<1> SUFFICES ASSUME newest = "shown", upload.stage = "idle", selected # NoFile
             PROVE  shown = [file |-> selected, v |-> version[selected]]
  BY DEF NewestPreviewIsCurrent
<1>1. shown \in Asks /\ shown.file = selected /\ shown.v = version[selected]
  BY DEF ViewInv, ViewFits, IsCurrent, Superseded
<1> QED
  BY <1>1 DEF Asks

-----------------------------------------------------------------------------
(* The cells of an activity.                                               *)

CellKinds == CellTypes \cup Types
CellRecords == [status : {"idle", "running", "done", "error"}, outputs : Nat]
RunRecordsOfCells == [cell : Cells, kind : CellKinds, stage : {"starting", "asked", "over"}]

PageShape ==
    /\ order \in Seq(Cells) /\ Apart(order) /\ kind \in [Cells -> CellKinds]
    /\ cellState \in [Cells -> CellRecords] /\ cellRuns \in Seq(RunRecordsOfCells)

RunIsOn(c) == \E r \in DOMAIN cellRuns : cellRuns[r].cell = c /\ cellRuns[r].stage # "over"
IsNewestOf(c, r) ==
    /\ r \in DOMAIN cellRuns /\ cellRuns[r].cell = c
    /\ \A q \in DOMAIN cellRuns : cellRuns[q].cell = c => q <= r

IsOverOf(c, r) == r \in DOMAIN cellRuns /\ cellRuns[r].cell = c /\ cellRuns[r].stage = "over"

\* What the state of a cell that is there says of its runs: of one whose runs
\* did not overlap, and of every one.
CellTells(c) ==
    /\ cellState[c].status = "running" <=> RunIsOn(c)
    /\ cellState[c].status \in {"done", "error"} => IsNewestOf(c, cellState[c].outputs)
CellHonest(c) ==
    /\ cellState[c].status = "running" /\ c \notin restored => RunIsOn(c)
    /\ cellState[c].status \in {"done", "error"} => IsOverOf(c, cellState[c].outputs)

\* A cell that is not there is as new; unless it was run under a run, only its
\* newest run is on.
PageInv ==
    /\ PageShape
    /\ \A c \in Cells : c \notin ToSet(order) => cellState[c] = Fresh
    /\ \A c \in Cells \ overlapped : \A r \in DOMAIN cellRuns :
          cellRuns[r].cell = c /\ cellRuns[r].stage # "over" => IsNewestOf(c, r)
    /\ \A c \in ToSet(order) \ (restored \cup overlapped) : CellTells(c)

LEMMA PageInvInit == ASSUME PageInit PROVE PageInv
<1>1. /\ order = <<>> /\ cellRuns = <<>> /\ kind = [c \in Cells |-> "prompt"]
      /\ cellState = [c \in Cells |-> Fresh]
  BY DEF PageInit
<1>2. ToSet(<<>>) = {} /\ Apart(<<>>) /\ \A S : <<>> \in Seq(S)
  BY EmptySeq DEF ToSet, Apart
<1>3. kind \in [Cells -> CellKinds] /\ cellState \in [Cells -> CellRecords]
  BY <1>1 DEF CellKinds, Types, CellRecords, Fresh
<1>4. DOMAIN cellRuns = {}
  BY <1>1
<1> QED
  BY <1>1, <1>2, <1>3, <1>4 DEF PageInv, PageShape

\* Neither the order nor the runs change: as after a step that moves the focus
\* or the kernel.
LEMMA PageUntouched ==
    ASSUME PageInv, UNCHANGED <<kind, cellState, cellRuns, restored, overlapped>>,
           order' \in Seq(Cells), Apart(order'), ToSet(order') = ToSet(order)
    PROVE  PageInv'
BY DEF PageInv, PageShape, CellTells, RunIsOn, IsNewestOf, Apart

\* Only the stages of runs change, and a run that is on stays on.
LEMMA PageStages ==
    ASSUME PageInv, UNCHANGED <<order, kind, cellState, restored, overlapped>>,
           cellRuns' \in Seq(RunRecordsOfCells), DOMAIN cellRuns' = DOMAIN cellRuns,
           \A r \in DOMAIN cellRuns : /\ cellRuns'[r].cell = cellRuns[r].cell
                                      /\ cellRuns'[r].stage # "over" <=> cellRuns[r].stage # "over"
    PROVE  PageInv'
<1>1. \A c \in Cells : RunIsOn(c)' <=> RunIsOn(c)
  BY DEF RunIsOn
<1>2. \A c \in Cells, r \in Nat : IsNewestOf(c, r)' <=> IsNewestOf(c, r)
  BY DEF IsNewestOf
<1>3. ToSet(order) \subseteq Cells /\ \A c \in Cells : cellState[c].outputs \in Nat
  BY DEF PageInv, PageShape, ToSet, CellRecords
<1>4. DOMAIN cellRuns \subseteq Nat
  BY DEF PageInv, PageShape
<1>5. PageShape'
  BY DEF PageInv, PageShape, Apart
<1>6. \A c \in ToSet(order) : CellTells(c)' <=> CellTells(c)
  BY <1>1, <1>2, <1>3 DEF CellTells
<1> QED
  BY <1>2, <1>4, <1>5, <1>6 DEF PageInv

\* Every run is over.
LEMMA PageLeft ==
    ASSUME PageInv, LeavePage
    PROVE  PageInv'
<1>1. /\ cellRuns' = [r \in DOMAIN cellRuns |-> [cellRuns[r] EXCEPT !.stage = "over"]]
      /\ restored' = restored \cup {c \in Cells : cellState[c].status = "running"}
      /\ UNCHANGED <<order, kind, cellState, overlapped>>
  BY DEF LeavePage
<1>2. /\ PageShape /\ cellRuns \in Seq(RunRecordsOfCells) /\ ToSet(order) \subseteq Cells
      /\ cellState \in [Cells -> CellRecords]
  BY DEF PageInv, PageShape, ToSet
<1>3. /\ DOMAIN cellRuns' = DOMAIN cellRuns
      /\ \A r \in DOMAIN cellRuns : /\ cellRuns'[r] \in RunRecordsOfCells
                                    /\ cellRuns'[r].cell = cellRuns[r].cell
                                    /\ cellRuns'[r].stage = "over"
  <2>1. \A r \in DOMAIN cellRuns : cellRuns[r] \in RunRecordsOfCells
    BY <1>2
  <2>2. \A x \in RunRecordsOfCells :
           LET y == [x EXCEPT !.stage = "over"]
           IN  y \in RunRecordsOfCells /\ y.cell = x.cell /\ y.stage = "over"
    BY DEF RunRecordsOfCells
  <2> QED
    BY <1>1, <2>1, <2>2
<1>4. cellRuns' \in Seq(RunRecordsOfCells)
  <2>1. DOMAIN cellRuns = 1 .. Len(cellRuns) /\ Len(cellRuns) \in Nat
    BY <1>2
  <2>2. cellRuns' \in [1 .. Len(cellRuns) -> RunRecordsOfCells]
    BY <1>1, <1>3, <2>1
  <2> QED
    BY <2>1, <2>2
<1>5. PageShape'
  BY <1>1, <1>2, <1>4 DEF PageShape, Apart
<1>6. \A c \in Cells : ~RunIsOn(c)'
  BY <1>3 DEF RunIsOn
<1>7. \A c, r : IsNewestOf(c, r)' <=> IsNewestOf(c, r)
  BY <1>3 DEF IsNewestOf
<1>8. ASSUME NEW c \in ToSet(order) \ (restored' \cup overlapped) PROVE CellTells(c)'
  <2>1. cellState[c].status # "running" /\ CellTells(c) /\ c \in Cells
    BY <1>1, <1>2, <1>8 DEF PageInv
  <2> QED
    BY <1>1, <1>6, <1>7, <2>1 DEF CellTells
<1> QED
  BY <1>1, <1>3, <1>5, <1>8 DEF PageInv

\* A new run of a cell is on and is its newest; the others have theirs.
LEMMA PageRuns ==
    ASSUME PageInv, NEW c \in Cells, RunCell(c)
    PROVE  PageInv'
<1>0. PICK n \in Nat : n = Len(cellRuns) + 1
  BY DEF PageInv, PageShape
<1>1. PICK g \in {"starting", "asked"} :
         cellRuns' = Append(cellRuns, [cell |-> c, kind |-> kind[c], stage |-> g])
  BY DEF RunCell
<1>2. /\ cellState' = [cellState EXCEPT ![c] = [status |-> "running", outputs |-> 0]]
      /\ overlapped' = IF ExecutesInFlight(c) = {} THEN overlapped \ {c} ELSE overlapped \cup {c}
      /\ restored' = restored \ {c} /\ UNCHANGED <<order, kind>> /\ c \in ToSet(order)
  BY DEF RunCell, Present, ToSet
<1>3. /\ PageShape /\ cellRuns \in Seq(RunRecordsOfCells) /\ ToSet(order) \subseteq Cells
      /\ cellState \in [Cells -> CellRecords] /\ kind \in [Cells -> CellKinds]
  BY DEF PageInv, PageShape, ToSet
<1>4. [cell |-> c, kind |-> kind[c], stage |-> g] \in RunRecordsOfCells
  BY <1>3 DEF RunRecordsOfCells
<1>5. /\ cellRuns' \in Seq(RunRecordsOfCells) /\ DOMAIN cellRuns = 1 .. Len(cellRuns)
      /\ Len(cellRuns) \in Nat /\ DOMAIN cellRuns' = DOMAIN cellRuns \cup {n}
      /\ cellRuns'[n] = [cell |-> c, kind |-> kind[c], stage |-> g]
      /\ \A r \in DOMAIN cellRuns : cellRuns'[r] = cellRuns[r] /\ r < n
  BY <1>0, <1>1, <1>3, <1>4
<1>6. cellState' \in [Cells -> CellRecords]
  BY <1>2, <1>3 DEF CellRecords
<1>7. PageShape'
  BY <1>2, <1>3, <1>5, <1>6 DEF PageShape, Apart
<1>8. n \in Nat /\ n \notin DOMAIN cellRuns /\ DOMAIN cellRuns \subseteq Nat
  BY <1>0, <1>5
<1>9. IsNewestOf(c, n)' /\ RunIsOn(c)'
  BY <1>1, <1>5, <1>8 DEF IsNewestOf, RunIsOn
<1>10. ASSUME NEW d \in Cells \ {c}
       PROVE  /\ \A r : IsNewestOf(d, r)' <=> IsNewestOf(d, r)
              /\ RunIsOn(d)' <=> RunIsOn(d)
  <2>1. \A r \in DOMAIN cellRuns' : cellRuns'[r].cell = d =>
           r \in DOMAIN cellRuns /\ cellRuns[r].cell = d /\ cellRuns'[r] = cellRuns[r]
    BY <1>5
  <2>2. \A r \in DOMAIN cellRuns : r \in DOMAIN cellRuns' /\ cellRuns'[r] = cellRuns[r]
    BY <1>5
  <2> QED
    BY <2>1, <2>2 DEF IsNewestOf, RunIsOn
<1>11. ASSUME NEW d \in Cells \ overlapped', NEW r \in DOMAIN cellRuns',
              cellRuns'[r].cell = d, cellRuns'[r].stage # "over"
       PROVE  IsNewestOf(d, r)'
  <2>1. CASE d = c
    <3>1. ExecutesInFlight(c) = {}
      BY <1>2, <1>11, <2>1
    <3>2. r = n
      BY <1>5, <1>11, <2>1, <3>1 DEF ExecutesInFlight
    <3> QED
      BY <1>9, <2>1, <3>2
  <2>2. CASE d # c
    <3>1. d \in Cells \ overlapped /\ r \in DOMAIN cellRuns /\ cellRuns[r] = cellRuns'[r]
      BY <1>2, <1>5, <1>11, <2>2
    <3>2. IsNewestOf(d, r)
      BY <1>11, <3>1 DEF PageInv
    <3> QED
      BY <1>10, <2>2, <3>2
  <2> QED
    BY <2>1, <2>2
<1>12. ASSUME NEW d \in ToSet(order) \ (restored' \cup overlapped') PROVE CellTells(d)'
  <2>1. CASE d = c
    BY <1>2, <1>3, <1>9, <2>1 DEF CellTells
  <2>2. CASE d # c
    <3>1. CellTells(d) /\ d \in Cells \ {c} /\ cellState'[d] = cellState[d]
      BY <1>2, <1>3, <1>12, <2>2 DEF PageInv
    <3> QED
      BY <1>10, <3>1 DEF CellTells
  <2> QED
    BY <2>1, <2>2
<1>13. \A d \in Cells : d \notin ToSet(order) => cellState'[d] = Fresh
  BY <1>2, <1>3 DEF PageInv
<1> QED
  BY <1>2, <1>7, <1>11, <1>12, <1>13 DEF PageInv

\* The answer ends the run; only of a cell that was run under a run is another
\* run on then.
LEMMA PageAnswered ==
    ASSUME PageInv, NEW n, NEW s \in {"done", "error"}, RunAnswers(n, s)
    PROVE  PageInv'
<1>0. PICK c \in Cells : c = cellRuns[n].cell
  <2>1. n \in DOMAIN cellRuns /\ cellRuns[n] \in RunRecordsOfCells
    BY DEF RunAnswers, PageInv, PageShape
  <2> QED
    BY <2>1 DEF RunRecordsOfCells
<1>1. /\ n \in DOMAIN cellRuns /\ cellRuns[n].stage = "asked"
      /\ cellRuns' = [cellRuns EXCEPT ![n].stage = "over"]
      /\ cellState' = IF c \in ToSet(order)
                      THEN [cellState EXCEPT ![c] = [status |-> s, outputs |-> n]]
                      ELSE cellState
      /\ UNCHANGED <<order, kind, restored, overlapped>>
  BY <1>0 DEF RunAnswers, Present, ToSet, keepPage
<1>2. /\ PageShape /\ cellRuns \in Seq(RunRecordsOfCells) /\ ToSet(order) \subseteq Cells
      /\ cellState \in [Cells -> CellRecords]
      /\ DOMAIN cellRuns = 1 .. Len(cellRuns) /\ Len(cellRuns) \in Nat
  BY DEF PageInv, PageShape, ToSet
<1>3. c \in Cells /\ n \in Nat
  BY <1>1, <1>2
<1>4. /\ DOMAIN cellRuns' = DOMAIN cellRuns
      /\ \A r \in DOMAIN cellRuns :
            /\ cellRuns'[r] \in RunRecordsOfCells
            /\ cellRuns'[r].cell = cellRuns[r].cell
            /\ cellRuns'[r].stage = IF r = n THEN "over" ELSE cellRuns[r].stage
  <2>1. \A r \in DOMAIN cellRuns : cellRuns[r] \in RunRecordsOfCells
    BY <1>2
  <2>2. \A x \in RunRecordsOfCells :
           LET y == [x EXCEPT !.stage = "over"]
           IN  y \in RunRecordsOfCells /\ y.cell = x.cell /\ y.stage = "over"
    BY DEF RunRecordsOfCells
  <2>3. /\ DOMAIN cellRuns' = DOMAIN cellRuns
        /\ cellRuns'[n] = [cellRuns[n] EXCEPT !.stage = "over"]
        /\ \A r \in DOMAIN cellRuns : r # n => cellRuns'[r] = cellRuns[r]
    BY <1>1
  <2> QED
    BY <1>1, <2>1, <2>2, <2>3
<1>5. cellRuns' \in Seq(RunRecordsOfCells)
  <2>1. cellRuns' \in [1 .. Len(cellRuns) -> RunRecordsOfCells]
    BY <1>1, <1>2, <1>4
  <2> QED
    BY <1>2, <2>1
<1>6. /\ cellState' \in [Cells -> CellRecords]
      /\ \A d \in Cells : d # c \/ c \notin ToSet(order) => cellState'[d] = cellState[d]
      /\ c \in ToSet(order) => cellState'[c] = [status |-> s, outputs |-> n]
  <2>1. [status |-> s, outputs |-> n] \in CellRecords
    BY <1>3 DEF CellRecords
  <2>2. CASE c \in ToSet(order)
    BY <1>1, <1>2, <1>3, <2>1, <2>2
  <2>3. CASE c \notin ToSet(order)
    BY <1>1, <1>2, <2>3
  <2> QED
    BY <2>2, <2>3
<1>7. PageShape'
  BY <1>1, <1>2, <1>5, <1>6 DEF PageShape, Apart
<1>8. \A d, r : IsNewestOf(d, r)' <=> IsNewestOf(d, r)
  BY <1>4 DEF IsNewestOf
<1>9. \A d \in Cells : d \notin ToSet(order) => cellState'[d] = Fresh
  BY <1>6 DEF PageInv
<1>10. \A d \in Cells \ overlapped : \A r \in DOMAIN cellRuns' :
          cellRuns'[r].cell = d /\ cellRuns'[r].stage # "over" => IsNewestOf(d, r)'
  BY <1>4, <1>8 DEF PageInv
<1>11. ASSUME NEW d \in ToSet(order) \ (restored \cup overlapped) PROVE CellTells(d)'
  <2>1. CellTells(d) /\ d \in Cells
    BY <1>2, <1>11 DEF PageInv
  <2>2. CASE d = c
    <3>1. IsNewestOf(c, n)
      BY <1>0, <1>1, <1>3, <1>11, <2>2 DEF PageInv
    <3>2. \A r \in DOMAIN cellRuns : cellRuns[r].cell = c /\ cellRuns[r].stage # "over" => r = n
      <4>1. \A r \in DOMAIN cellRuns : cellRuns[r].cell = c /\ cellRuns[r].stage # "over"
                 => IsNewestOf(c, r)
        BY <1>3, <1>11, <2>2 DEF PageInv
      <4> QED
        BY <1>2, <1>3, <3>1, <4>1 DEF IsNewestOf
    <3>3. ~RunIsOn(c)'
      BY <1>4, <3>2 DEF RunIsOn
    <3>4. cellState'[c] = [status |-> s, outputs |-> n]
      BY <1>6, <1>11, <2>2
    <3> QED
      BY <1>8, <2>2, <3>1, <3>3, <3>4 DEF CellTells
  <2>3. CASE d # c
    <3>1. RunIsOn(d)' <=> RunIsOn(d)
      BY <1>0, <1>1, <1>4, <2>3 DEF RunIsOn
    <3>2. cellState'[d] = cellState[d]
      BY <1>6, <2>1, <2>3
    <3> QED
      BY <1>8, <2>1, <3>1, <3>2 DEF CellTells
  <2> QED
    BY <2>2, <2>3
<1> QED
  BY <1>1, <1>7, <1>9, <1>10, <1>11 DEF PageInv

LEMMA PageInvStep ==
    ASSUME PageInv, PageNext \/ UNCHANGED pageVars
    PROVE  PageInv'
<1>1. /\ order \in Seq(Cells) /\ Apart(order) /\ kind \in [Cells -> CellKinds]
      /\ cellState \in [Cells -> CellRecords] /\ cellRuns \in Seq(RunRecordsOfCells)
      /\ ToSet(order) \subseteq Cells /\ DOMAIN order = 1 .. Len(order) /\ Len(order) \in Nat
  BY DEF PageInv, PageShape, ToSet
<1>2. ASSUME NEW c \in Cells, NEW t \in CellTypes, NEW i \in 1 .. Cardinality(Cells),
             i <= Len(order) + 1, AddCell(c, t, i)
      PROVE  PageInv'
  <2>1. i \in 1 .. Len(order) + 1
    <3>1. i \in Nat /\ 1 <= i
      OBVIOUS
    <3> QED
      BY <1>1, <1>2, <3>1
  <2>2. c \notin ToSet(order) /\ \A r \in DOMAIN cellRuns : cellRuns[r].cell # c
    BY <1>2 DEF AddCell, Present, ToSet
  <2>3. /\ order' = InsertAt(order, i, c) /\ kind' = [kind EXCEPT ![c] = t]
        /\ UNCHANGED <<cellState, cellRuns, restored, overlapped>>
    BY <1>2 DEF AddCell
  <2>4. order' \in Seq(Cells) /\ Apart(order') /\ ToSet(order') = ToSet(order) \cup {c}
    BY <1>1, <2>1, <2>2, <2>3, InsertAtApart
  <2>5. kind' \in [Cells -> CellKinds]
    BY <1>1, <2>3 DEF CellKinds
  <2>6. /\ \A d \in Cells : RunIsOn(d)' <=> RunIsOn(d)
        /\ \A d, r : IsNewestOf(d, r)' <=> IsNewestOf(d, r)
        /\ ~RunIsOn(c) /\ cellState[c] = Fresh
    BY <2>2, <2>3 DEF RunIsOn, IsNewestOf, PageInv
  <2>7. CellTells(c)'
    BY <2>3, <2>6 DEF CellTells, Fresh
  <2>8. \A d \in ToSet(order) \ (restored \cup overlapped) : CellTells(d)'
    BY <1>1, <2>3, <2>6 DEF CellTells, PageInv
  <2>9. PageShape'
    BY <1>1, <2>3, <2>4, <2>5 DEF PageShape
  <2> QED
    BY <2>3, <2>4, <2>6, <2>7, <2>8, <2>9 DEF PageInv
<1>3. ASSUME NEW i \in 1 .. Cardinality(Cells), NEW j \in 1 .. Cardinality(Cells), MoveCell(i, j)
      PROVE  PageInv'
  <2>1. /\ i \in DOMAIN order /\ j \in DOMAIN order /\ order' = Swapped(order, i, j)
        /\ UNCHANGED <<kind, cellState, cellRuns, restored, overlapped>>
    BY <1>3 DEF MoveCell, Swapped
  <2>2. order \in Seq(Cells) /\ Apart(order)
    BY <1>1
  <2>3. /\ Swapped(order, i, j) \in Seq(Cells) /\ Apart(Swapped(order, i, j))
        /\ ToSet(Swapped(order, i, j)) = ToSet(order)
    BY <2>1, <2>2, SwapApart
  <2> QED
    BY <2>1, <2>3, PageUntouched
<1>4. ASSUME NEW c \in Cells, RemoveCell(c) PROVE PageInv'
  <2>1. PICK i \in DOMAIN order : order[i] = c /\ order' = RemoveAt(order, i)
    BY <1>4 DEF RemoveCell
  <2>2. /\ cellState' = [cellState EXCEPT ![c] = Fresh] /\ restored' = restored \ {c}
        /\ UNCHANGED <<kind, cellRuns, overlapped>>
    BY <1>4 DEF RemoveCell
  <2>3. order' \in Seq(Cells)
    BY <1>1, <2>1, RemoveAtLeaves
  <2>4. Apart(order') /\ ToSet(order') = ToSet(order) \ {c}
    BY <1>1, <2>1, RemoveAtApart
  <2>5. cellState' \in [Cells -> CellRecords]
    BY <1>1, <2>2 DEF Fresh, CellRecords
  <2>6. /\ \A d \in Cells : RunIsOn(d)' <=> RunIsOn(d)
        /\ \A d, r : IsNewestOf(d, r)' <=> IsNewestOf(d, r)
    BY <2>2 DEF RunIsOn, IsNewestOf
  <2>7. ASSUME NEW d \in ToSet(order') \ (restored' \cup overlapped) PROVE CellTells(d)'
    <3>1. CellTells(d) /\ cellState'[d] = cellState[d] /\ d \in Cells
      BY <1>1, <2>2, <2>4, <2>7 DEF PageInv
    <3> QED
      BY <2>6, <3>1 DEF CellTells
  <2>8. PageShape'
    BY <1>1, <2>2, <2>3, <2>4, <2>5 DEF PageShape
  <2>9. \A d \in Cells : d \notin ToSet(order') => cellState'[d] = Fresh
    BY <1>1, <2>2, <2>4 DEF PageInv
  <2>10. \A d \in Cells \ overlapped' : \A r \in DOMAIN cellRuns' :
            cellRuns'[r].cell = d /\ cellRuns'[r].stage # "over" => IsNewestOf(d, r)'
    BY <2>2, <2>6 DEF PageInv
  <2> QED
    BY <2>2, <2>7, <2>8, <2>9, <2>10 DEF PageInv
<1>5. ASSUME \/ \E c \in Cells : FocusCell(c)
             \/ ChangeActivity \/ StartKernel \/ ReturnToPage
      PROVE  PageInv'
  <2>1. UNCHANGED <<order, kind, cellState, cellRuns, restored, overlapped>>
    BY <1>5 DEF FocusCell, ChangeActivity, StartKernel, ReturnToPage, keepPage
  <2> QED
    BY <1>1, <2>1, PageUntouched
<1>6. ASSUME NEW ok \in BOOLEAN, StartAnswers(ok) PROVE PageInv'
  <2>1. /\ UNCHANGED <<order, kind, cellState, restored, overlapped>>
        /\ cellRuns' = [r \in DOMAIN cellRuns |->
                          IF r \in {q \in DOMAIN cellRuns : cellRuns[q].stage = "starting"}
                          THEN [cellRuns[r] EXCEPT !.stage = "asked"] ELSE cellRuns[r]]
    BY <1>6 DEF StartAnswers, keepPage
  <2>2. DOMAIN cellRuns = 1 .. Len(cellRuns) /\ Len(cellRuns) \in Nat
    BY <1>1
  <2>3. /\ DOMAIN cellRuns' = DOMAIN cellRuns
        /\ \A r \in DOMAIN cellRuns :
              /\ cellRuns'[r] \in RunRecordsOfCells
              /\ cellRuns'[r].cell = cellRuns[r].cell
              /\ cellRuns'[r].stage # "over" <=> cellRuns[r].stage # "over"
    <3>1. \A r \in DOMAIN cellRuns : cellRuns[r] \in RunRecordsOfCells
      BY <1>1
    <3>2. \A x \in RunRecordsOfCells :
             LET y == [x EXCEPT !.stage = "asked"]
             IN  y \in RunRecordsOfCells /\ y.cell = x.cell /\ y.stage = "asked"
      BY DEF RunRecordsOfCells
    <3> QED
      BY <2>1, <3>1, <3>2
  <2>4. cellRuns' \in [1 .. Len(cellRuns) -> RunRecordsOfCells]
    BY <2>1, <2>2, <2>3
  <2>5. cellRuns' \in Seq(RunRecordsOfCells)
    BY <2>2, <2>4
  <2> QED
    BY <2>1, <2>3, <2>5, PageStages
<1>7. CASE UNCHANGED pageVars
  <2>1. UNCHANGED <<order, kind, cellState, cellRuns, restored, overlapped>>
    BY <1>7 DEF pageVars
  <2> QED
    BY <1>1, <2>1, PageUntouched
<1> QED
  BY <1>2, <1>3, <1>4, <1>5, <1>6, <1>7, PageRuns, PageAnswered, PageLeft DEF PageNext

\* What every cell says is true however its runs overlap.
HonestCells == \A c \in Cells : CellHonest(c)

LEMMA HonestCellsInit == ASSUME PageInit PROVE HonestCells
BY DEF PageInit, HonestCells, CellHonest, Fresh

\* A cell that is left as it was stays honest when its runs stay on or over.
LEMMA CellStaysHonest ==
    ASSUME NEW c, CellHonest(c), cellState'[c] = cellState[c],
           c \in restored => c \in restored',
           RunIsOn(c) => RunIsOn(c)' \/ c \in restored' \/ cellState[c].status # "running",
           \A r : IsOverOf(c, r) => IsOverOf(c, r)'
    PROVE  CellHonest(c)'
BY DEF CellHonest

LEMMA HonestAnswered ==
    ASSUME PageInv, HonestCells, NEW n, NEW s \in {"done", "error"}, RunAnswers(n, s)
    PROVE  HonestCells'
<1>1. /\ PageShape /\ cellRuns \in Seq(RunRecordsOfCells) /\ ToSet(order) \subseteq Cells
      /\ cellState \in [Cells -> CellRecords]
      /\ \A c \in Cells : c \notin ToSet(order) => cellState[c] = Fresh
  BY DEF PageInv, PageShape, ToSet
<1>2. PICK c \in Cells : c = cellRuns[n].cell
  <2>1. n \in DOMAIN cellRuns /\ cellRuns[n] \in RunRecordsOfCells
    BY <1>1 DEF RunAnswers
  <2> QED
    BY <2>1 DEF RunRecordsOfCells
<1>3. /\ n \in DOMAIN cellRuns
      /\ cellRuns' = [cellRuns EXCEPT ![n].stage = "over"]
      /\ cellState' = IF c \in ToSet(order)
                      THEN [cellState EXCEPT ![c] = [status |-> s, outputs |-> n]]
                      ELSE cellState
      /\ restored' = restored
  BY <1>2 DEF RunAnswers, Present, ToSet, keepPage
<1>4. /\ DOMAIN cellRuns' = DOMAIN cellRuns
      /\ \A r \in DOMAIN cellRuns : r # n => cellRuns'[r] = cellRuns[r]
      /\ cellRuns'[n].cell = c /\ cellRuns'[n].stage = "over"
  <2>1. cellRuns[n] \in RunRecordsOfCells /\ cellRuns'[n] = [cellRuns[n] EXCEPT !.stage = "over"]
    BY <1>1, <1>3
  <2>2. cellRuns'[n].cell = cellRuns[n].cell /\ cellRuns'[n].stage = "over"
    BY <2>1 DEF RunRecordsOfCells
  <2> QED
    BY <1>2, <1>3, <2>2
<1>5. \A d, r : IsOverOf(d, r) => IsOverOf(d, r)'
  BY <1>2, <1>4 DEF IsOverOf
<1>6. ASSUME NEW d \in Cells, d # c PROVE CellHonest(d)'
  <2>1. cellState'[d] = cellState[d] /\ CellHonest(d)
    BY <1>1, <1>3, <1>6 DEF HonestCells
  <2>2. RunIsOn(d) => RunIsOn(d)'
    BY <1>2, <1>4, <1>6 DEF RunIsOn
  <2> QED
    BY <1>3, <1>5, <2>1, <2>2, CellStaysHonest
<1>7. CASE c \in ToSet(order)
  <2>1. cellState'[c].status = s /\ cellState'[c].outputs = n
    BY <1>1, <1>3, <1>7
  <2>2. IsOverOf(c, n)'
    BY <1>3, <1>4 DEF IsOverOf
  <2>3. CellHonest(c)'
    BY <2>1, <2>2 DEF CellHonest
  <2> QED
    BY <1>6, <2>3 DEF HonestCells
<1>8. CASE c \notin ToSet(order)
  <2>1. cellState'[c].status = "idle"
    BY <1>1, <1>3, <1>8 DEF Fresh
  <2>2. CellHonest(c)'
    BY <2>1 DEF CellHonest
  <2> QED
    BY <1>6, <2>2 DEF HonestCells
<1> QED
  BY <1>7, <1>8

LEMMA HonestRun ==
    ASSUME PageInv, HonestCells, NEW c \in Cells, RunCell(c)
    PROVE  HonestCells'
<1>1. cellRuns \in Seq(RunRecordsOfCells) /\ cellState \in [Cells -> CellRecords]
  BY DEF PageInv, PageShape
<1>2. PICK g \in {"starting", "asked"} :
         cellRuns' = Append(cellRuns, [cell |-> c, kind |-> kind[c], stage |-> g])
  BY DEF RunCell
<1>3. PICK n \in Nat : n = Len(cellRuns) + 1
  BY <1>1
<1>4. /\ DOMAIN cellRuns' = DOMAIN cellRuns \cup {n}
      /\ cellRuns'[n].cell = c /\ cellRuns'[n].stage = g
      /\ \A r \in DOMAIN cellRuns : cellRuns'[r] = cellRuns[r]
  BY <1>1, <1>2, <1>3
<1>5. /\ cellState' = [cellState EXCEPT ![c] = [status |-> "running", outputs |-> 0]]
      /\ restored' = restored \ {c}
  BY DEF RunCell
<1>6. RunIsOn(c)' /\ cellState'[c].status = "running"
  BY <1>1, <1>4, <1>5 DEF RunIsOn
<1>7. CellHonest(c)'
  BY <1>6 DEF CellHonest
<1>8. ASSUME NEW d \in Cells, d # c PROVE CellHonest(d)'
  <2>1. cellState'[d] = cellState[d] /\ CellHonest(d) /\ (d \in restored => d \in restored')
    BY <1>1, <1>5, <1>8 DEF HonestCells
  <2>2. /\ RunIsOn(d) => RunIsOn(d)'
        /\ \A r : IsOverOf(d, r) => IsOverOf(d, r)'
    BY <1>4 DEF RunIsOn, IsOverOf
  <2> QED
    BY <2>1, <2>2, CellStaysHonest
<1> QED
  BY <1>7, <1>8 DEF HonestCells

LEMMA HonestCellsStep ==
    ASSUME PageInv, HonestCells, PageNext \/ UNCHANGED pageVars
    PROVE  HonestCells'
<1>1. cellState \in [Cells -> CellRecords] /\ cellRuns \in Seq(RunRecordsOfCells)
  BY DEF PageInv, PageShape
<1>2. ASSUME UNCHANGED <<cellState, cellRuns, restored>> PROVE HonestCells'
  BY <1>2 DEF HonestCells, CellHonest, RunIsOn, IsOverOf
<1>3. CASE \/ \E c \in Cells, t \in CellTypes, i \in 1 .. Cardinality(Cells) :
                i <= Len(order) + 1 /\ AddCell(c, t, i)
           \/ \E i, j \in 1 .. Cardinality(Cells) : MoveCell(i, j)
           \/ \E c \in Cells : FocusCell(c)
           \/ ChangeActivity \/ StartKernel \/ ReturnToPage \/ UNCHANGED pageVars
  BY <1>2, <1>3 DEF AddCell, MoveCell, FocusCell, ChangeActivity, StartKernel, ReturnToPage, keepPage, pageVars
<1>4. ASSUME NEW c \in Cells, RemoveCell(c) PROVE HonestCells'
  <2>1. cellState' = [cellState EXCEPT ![c] = Fresh] /\ restored' = restored \ {c} /\ cellRuns' = cellRuns
    BY <1>4 DEF RemoveCell
  <2>2. CellHonest(c)'
    BY <1>1, <2>1 DEF CellHonest, Fresh
  <2>3. ASSUME NEW d \in Cells, d # c PROVE CellHonest(d)'
    BY <1>1, <2>1, <2>3 DEF HonestCells, CellHonest, RunIsOn, IsOverOf
  <2> QED
    BY <2>2, <2>3 DEF HonestCells
<1>5. ASSUME NEW ok \in BOOLEAN, StartAnswers(ok) PROVE HonestCells'
  <2>1. /\ UNCHANGED <<cellState, restored>>
        /\ cellRuns' = [r \in DOMAIN cellRuns |->
                          IF r \in {q \in DOMAIN cellRuns : cellRuns[q].stage = "starting"}
                          THEN [cellRuns[r] EXCEPT !.stage = "asked"] ELSE cellRuns[r]]
    BY <1>5 DEF StartAnswers, keepPage
  <2>2. \A x \in RunRecordsOfCells :
           [x EXCEPT !.stage = "asked"].cell = x.cell /\ [x EXCEPT !.stage = "asked"].stage = "asked"
    BY DEF RunRecordsOfCells
  <2>3. \A r \in DOMAIN cellRuns : cellRuns[r] \in RunRecordsOfCells
    BY <1>1
  <2>4. /\ DOMAIN cellRuns' = DOMAIN cellRuns
        /\ \A r \in DOMAIN cellRuns :
              cellRuns'[r].cell = cellRuns[r].cell
              /\ (cellRuns'[r].stage = "over" <=> cellRuns[r].stage = "over")
    BY <2>1, <2>2, <2>3
  <2>5. \A c, r : (RunIsOn(c) => RunIsOn(c)') /\ (IsOverOf(c, r) => IsOverOf(c, r)')
    BY <2>4 DEF RunIsOn, IsOverOf
  <2> QED
    BY <2>1, <2>5 DEF HonestCells, CellHonest
<1>6. CASE LeavePage
  <2>1. /\ cellRuns' = [r \in DOMAIN cellRuns |-> [cellRuns[r] EXCEPT !.stage = "over"]]
        /\ restored' = restored \cup {c \in Cells : cellState[c].status = "running"}
        /\ cellState' = cellState
    BY <1>6 DEF LeavePage
  <2>2. \A x \in RunRecordsOfCells :
           [x EXCEPT !.stage = "over"].cell = x.cell /\ [x EXCEPT !.stage = "over"].stage = "over"
    BY DEF RunRecordsOfCells
  <2>3. \A r \in DOMAIN cellRuns : cellRuns[r] \in RunRecordsOfCells
    BY <1>1
  <2>4. /\ DOMAIN cellRuns' = DOMAIN cellRuns
        /\ \A r \in DOMAIN cellRuns : cellRuns'[r].cell = cellRuns[r].cell /\ cellRuns'[r].stage = "over"
    BY <2>1, <2>2, <2>3
  <2>5. \A c, r : IsOverOf(c, r) => IsOverOf(c, r)'
    BY <2>4 DEF IsOverOf
  <2> QED
    BY <2>1, <2>5 DEF HonestCells, CellHonest
<1> QED
  BY <1>3, <1>4, <1>5, <1>6, HonestRun, HonestAnswered DEF PageNext

LEMMA PageSound == ASSUME PageInv, HonestCells PROVE CellShowsItsRun
<1>0. ASSUME NEW c \in Cells
      PROVE  /\ cellState[c].status = "running" /\ c \notin restored => ExecutesInFlight(c) # {}
             /\ cellState[c].status \in {"done", "error"} =>
                    \E r \in DOMAIN cellRuns :
                        /\ cellState[c].outputs = r
                        /\ cellRuns[r].cell = c /\ cellRuns[r].stage = "over"
  <2>1. RunIsOn(c) <=> ExecutesInFlight(c) # {}
    BY DEF RunIsOn, ExecutesInFlight
  <2> QED
    BY <2>1 DEF HonestCells, CellHonest, IsOverOf
<1> SUFFICES ASSUME NEW c \in Cells, Present(c), c \notin restored \cup overlapped
             PROVE  /\ ExecutesInFlight(c) # {} => cellState[c].status = "running"
                    /\ cellState[c].status \in {"done", "error"} => cellState[c].outputs = NewestRun(c)
  BY <1>0 DEF CellShowsItsRun
<1>1. CellTells(c)
  BY DEF PageInv, Present, ToSet
<1>2. RunIsOn(c) <=> ExecutesInFlight(c) # {}
  BY DEF RunIsOn, ExecutesInFlight
<1>3. ASSUME NEW r, IsNewestOf(c, r) PROVE r = NewestRun(c)
  <2> DEFINE rs == {q \in DOMAIN cellRuns : cellRuns[q].cell = c}
  <2>1. r \in rs /\ \A q \in rs : q <= r
    BY <1>3 DEF IsNewestOf
  <2>2. rs \subseteq Nat
    BY DEF PageInv, PageShape
  <2>3. NewestRun(c) = CHOOSE m \in rs : \A q \in rs : q <= m
    BY <2>1 DEF NewestRun
  <2> HIDE DEF rs
  <2>4. NewestRun(c) \in rs /\ \A q \in rs : q <= NewestRun(c)
    BY <2>1, <2>3
  <2>5. r <= NewestRun(c) /\ NewestRun(c) <= r
    BY <2>1, <2>4
  <2> QED
    <3>1. r \in Nat /\ NewestRun(c) \in Nat
      BY <2>1, <2>2, <2>4
    <3> QED
      BY <2>5, <3>1
<1> QED
  BY <1>1, <1>2, <1>3 DEF CellTells

-----------------------------------------------------------------------------
(* The notebook of experimentV2.                                           *)

SheetKindsAll == SheetKinds \cup SheetTypes
SheetRecords == [id : Sheets, type : SheetKindsAll, status : {"idle", "running", "complete", "error"},
                 out : {"none", "preview", "stub", "agent"}]
PromptRecords == [cell : Sheets, by : {"user", "all"}, stage : {"sent", "over"}]
LeftRecords == [id : Sheets, type : SheetKindsAll]

IdsApart(s) == \A i, j \in DOMAIN s : s[i].id = s[j].id => i = j
IsOut(p, c) == p \in DOMAIN prompts /\ prompts[p].cell = c /\ prompts[p].stage = "sent"
PromptOut(c) == \E p : IsOut(p, c)
Answerable(c) == \A p, q : IsOut(p, c) /\ IsOut(q, c) => p = q
SheetTells(cell) ==
    cell.id \notin stuckCells =>
        /\ cell.status = "running" => PromptOut(cell.id)
        /\ PromptOut(cell.id) => cell.status = "running" \/ cell.id \in twice

NbShape ==
    /\ sheet \in Seq(SheetRecords) /\ IdsApart(sheet) /\ prompts \in Seq(PromptRecords)
    /\ runAll \in [on : BOOLEAN, left : Seq(LeftRecords)] /\ used \subseteq Sheets

\* Every id in use was given; nothing is out while the page is left; a prompt
\* is out alone unless its cell was run under it.
NbInv ==
    /\ NbShape
    /\ \A i \in DOMAIN sheet : sheet[i].id \in used
    /\ \A p \in DOMAIN prompts : prompts[p].cell \in used
    /\ \A k \in DOMAIN runAll.left : runAll.left[k].id \in used
    /\ ~nbOpen => \A p \in DOMAIN prompts : prompts[p].stage = "over"
    /\ \A c \in Sheets \ twice : Answerable(c)
    /\ nbOpen => \A i \in DOMAIN sheet : SheetTells(sheet[i])

LEMMA NbInvInit == ASSUME NotebookInit PROVE NbInv
<1> DEFINE c == CHOOSE s \in Sheets : TRUE
<1>1. c \in Sheets
  BY NotebookV2Assumption
<1>2. /\ sheet = <<NewCell(c, "prompt")>> /\ used = {c} /\ nbOpen = TRUE
      /\ runAll = [on |-> FALSE, left |-> <<>>] /\ prompts = <<>>
  BY DEF NotebookInit, StarterCells
<1> HIDE DEF c
<1>3. NewCell(c, "prompt") \in SheetRecords /\ NewCell(c, "prompt").id = c
      /\ NewCell(c, "prompt").status = "idle"
  BY <1>1 DEF NewCell, SheetRecords, SheetKindsAll, SheetTypes
<1>4. sheet \in Seq(SheetRecords) /\ DOMAIN sheet = {1} /\ sheet[1].id = c /\ sheet[1].status = "idle"
  BY <1>2, <1>3
<1>5. \A S : <<>> \in Seq(S)
  BY EmptySeq
<1>6. NbShape
  BY <1>1, <1>2, <1>4, <1>5 DEF NbShape, IdsApart
<1>7. DOMAIN prompts = {} /\ DOMAIN runAll.left = {}
  BY <1>2
<1> QED
  BY <1>2, <1>4, <1>6, <1>7 DEF NbInv, IsOut, PromptOut, Answerable, SheetTells

\* Cells put in, taken out, moved or converted: each of those then there was
\* there with its status, or is new and idle.
LEMMA NbPlaced ==
    ASSUME NbInv, UNCHANGED nbRest, sheet' \in Seq(SheetRecords), IdsApart(sheet'),
           used \subseteq used', used' \subseteq Sheets,
           \A k \in DOMAIN sheet' :
              \/ \E n \in DOMAIN sheet : /\ sheet'[k].id = sheet[n].id
                                         /\ sheet'[k].status = sheet[n].status
              \/ sheet'[k].id \in used' \ used /\ sheet'[k].status = "idle"
    PROVE  NbInv'
<1>1. UNCHANGED <<nbOpen, stuckCells, runAll, prompts, twice>>
  BY DEF nbRest
<1>2. \A c, p : IsOut(p, c)' <=> IsOut(p, c)
  BY <1>1 DEF IsOut
<1>3. \A c : (PromptOut(c)' <=> PromptOut(c)) /\ (Answerable(c)' <=> Answerable(c))
  BY <1>2 DEF PromptOut, Answerable
<1>4. \A i \in DOMAIN sheet' : sheet'[i].id \in used'
  BY DEF NbInv
<1>5. ASSUME NEW k \in DOMAIN sheet', nbOpen PROVE SheetTells(sheet[k])'
  <2>1. CASE \E n \in DOMAIN sheet : /\ sheet'[k].id = sheet[n].id
                                     /\ sheet'[k].status = sheet[n].status
    BY <1>1, <1>3, <1>5, <2>1 DEF SheetTells, NbInv
  <2>2. CASE sheet'[k].id \in used' \ used /\ sheet'[k].status = "idle"
    <3>1. ~PromptOut(sheet'[k].id)
      BY <2>2 DEF PromptOut, IsOut, NbInv
    <3> QED
      BY <1>3, <2>2, <3>1 DEF SheetTells
  <2> QED
    BY <2>1, <2>2
<1>6. NbShape'
  BY <1>1 DEF NbShape, NbInv
<1> QED
  BY <1>1, <1>3, <1>4, <1>5, <1>6 DEF NbInv

LEMMA NbInserted ==
    ASSUME NbInv, NEW c \in Sheets, NEW t \in SheetKindsAll, NEW at \in 1 .. Len(sheet) + 1,
           Insert(c, t, at), UNCHANGED nbRest
    PROVE  NbInv'
<1> DEFINE new == NewCell(c, t)
           was(k) == IF k < at THEN k ELSE k - 1
<1>1. new \in SheetRecords /\ new.id = c /\ new.status = "idle"
  BY DEF NewCell, SheetRecords
<1>2. c \notin used /\ sheet' = InsertAt(sheet, at, new) /\ used' = used \cup {c}
  BY DEF Insert
<1>3. /\ sheet \in Seq(SheetRecords) /\ IdsApart(sheet) /\ used \subseteq Sheets
      /\ \A i \in DOMAIN sheet : sheet[i].id \in used
  BY DEF NbInv, NbShape
<1> HIDE DEF new
<1>4. /\ sheet' \in Seq(SheetRecords) /\ DOMAIN sheet' = 1 .. Len(sheet) + 1 /\ sheet'[at] = new
      /\ \A k \in 1 .. Len(sheet) + 1 : k # at => was(k) \in DOMAIN sheet /\ sheet'[k] = sheet[was(k)]
  <2>0. sheet \in Seq(SheetRecords) /\ at \in 1 .. Len(sheet) + 1 /\ new \in SheetRecords
    BY <1>1, <1>3
  <2>1. /\ InsertAt(sheet, at, new) \in Seq(SheetRecords)
        /\ DOMAIN InsertAt(sheet, at, new) = 1 .. Len(sheet) + 1
        /\ InsertAt(sheet, at, new)[at] = new
        /\ \A k \in 1 .. Len(sheet) + 1 : k # at =>
              /\ (IF k < at THEN k ELSE k - 1) \in DOMAIN sheet
              /\ InsertAt(sheet, at, new)[k] = sheet[IF k < at THEN k ELSE k - 1]
    BY <2>0, InsertAtGives
  <2> QED
    BY <1>2, <2>1
<1>5. \A j, k \in 1 .. Len(sheet) + 1 : j # at /\ k # at /\ was(j) = was(k) => j = k
  <2>1. Len(sheet) \in Nat
    BY <1>3
  <2> QED
    BY <2>1
<1> HIDE DEF was
<1>6. ASSUME NEW j \in DOMAIN sheet', NEW k \in DOMAIN sheet', sheet'[j].id = sheet'[k].id PROVE j = k
  <2>1. CASE j = at \/ k = at
    BY <1>1, <1>2, <1>3, <1>4, <1>6, <2>1
  <2>2. CASE j # at /\ k # at
    BY <1>3, <1>4, <1>5, <1>6, <2>2 DEF IdsApart
  <2> QED
    BY <2>1, <2>2
<1>7. IdsApart(sheet')
  BY <1>6 DEF IdsApart
<1>8. \A k \in DOMAIN sheet' :
         \/ \E n \in DOMAIN sheet : /\ sheet'[k].id = sheet[n].id
                                    /\ sheet'[k].status = sheet[n].status
         \/ sheet'[k].id \in used' \ used /\ sheet'[k].status = "idle"
  BY <1>1, <1>2, <1>4
<1> QED
  BY <1>2, <1>3, <1>4, <1>7, <1>8, NbPlaced

LEMMA NbPlaceOf ==
    ASSUME NbInv, NEW c, OnSheet(c)
    PROVE  PlaceOf(c) \in DOMAIN sheet /\ sheet[PlaceOf(c)].id = c
BY DEF OnSheet, PlaceOf, IndexOf

LEMMA NbRemoved ==
    ASSUME NbInv, NEW c, RemoveCellV2(c)
    PROVE  NbInv'
<1>1. PICK i \in DOMAIN sheet : sheet' = RemoveAt(sheet, i)
  BY NbPlaceOf DEF RemoveCellV2
<1>2. UNCHANGED <<used, nbRest>>
  BY DEF RemoveCellV2
<1>3. /\ sheet \in Seq(SheetRecords) /\ IdsApart(sheet) /\ used \subseteq Sheets
      /\ DOMAIN sheet = 1 .. Len(sheet) /\ Len(sheet) \in Nat
  BY DEF NbInv, NbShape
<1>4. /\ sheet' \in Seq(SheetRecords) /\ Len(sheet') = Len(sheet) - 1
      /\ \A k \in 1 .. Len(sheet) - 1 : sheet'[k] = IF k < i THEN sheet[k] ELSE sheet[k + 1]
  BY <1>1, <1>3, RemoveAtLeaves
<1>5. DOMAIN sheet' = 1 .. Len(sheet) - 1
  BY <1>4
<1>6. \A k \in DOMAIN sheet' : \E n \in DOMAIN sheet : /\ sheet'[k] = sheet[n]
                                                       /\ n = IF k < i THEN k ELSE k + 1
  <2> SUFFICES ASSUME NEW k \in DOMAIN sheet'
               PROVE  \E n \in DOMAIN sheet : sheet'[k] = sheet[n] /\ n = IF k < i THEN k ELSE k + 1
    OBVIOUS
  <2>1. CASE k < i
    BY <1>3, <1>4, <1>5, <2>1
  <2>2. CASE ~(k < i)
    BY <1>3, <1>4, <1>5, <2>2
  <2> QED
    BY <2>1, <2>2
<1>7. ASSUME NEW j \in DOMAIN sheet', NEW k \in DOMAIN sheet', sheet'[j].id = sheet'[k].id PROVE j = k
  <2>1. PICK m \in DOMAIN sheet : sheet'[j] = sheet[m] /\ m = IF j < i THEN j ELSE j + 1
    BY <1>6
  <2>2. PICK n \in DOMAIN sheet : sheet'[k] = sheet[n] /\ n = IF k < i THEN k ELSE k + 1
    BY <1>6
  <2>3. m = n
    BY <1>3, <1>7, <2>1, <2>2 DEF IdsApart
  <2> QED
    BY <1>3, <1>5, <2>1, <2>2, <2>3
<1>8. IdsApart(sheet')
  BY <1>7 DEF IdsApart
<1> QED
  BY <1>2, <1>3, <1>4, <1>6, <1>8, NbPlaced

LEMMA NbMoved ==
    ASSUME NbInv, NEW i, NEW tool, MoveCellV2(i, tool)
    PROVE  NbInv'
<1>1. /\ sheet \in Seq(SheetRecords) /\ IdsApart(sheet) /\ used \subseteq Sheets
      /\ DOMAIN sheet = 1 .. Len(sheet) /\ Len(sheet) \in Nat
  BY DEF NbInv, NbShape
<1>2. PICK j \in DOMAIN sheet : sheet' = Swapped(sheet, i, j) /\ i \in DOMAIN sheet
  <2>1. tool = "up" \/ tool = "down"
    BY DEF MoveCellV2
  <2>2. CASE tool = "up"
    <3>1. i # 1 /\ i \in DOMAIN sheet
      BY <2>2 DEF MoveCellV2, CellTools
    <3>2. i - 1 \in DOMAIN sheet
      BY <1>1, <3>1
    <3> QED
      BY <2>2, <3>1, <3>2 DEF MoveCellV2, Swapped
  <2>3. CASE tool = "down"
    <3>1. i < Len(sheet) /\ i \in DOMAIN sheet
      BY <2>3 DEF MoveCellV2, CellTools
    <3>2. i + 1 \in DOMAIN sheet
      BY <1>1, <3>1
    <3> QED
      BY <2>3, <3>1, <3>2 DEF MoveCellV2, Swapped
  <2> QED
    BY <2>1, <2>2, <2>3
<1>3. UNCHANGED <<used, nbRest>>
  BY DEF MoveCellV2
<1>4. sheet' \in Seq(SheetRecords) /\ DOMAIN sheet' = DOMAIN sheet
  BY <1>1, <1>2, SwapApart
<1>5. \A k \in DOMAIN sheet : sheet'[k] = IF k = j THEN sheet[i] ELSE IF k = i THEN sheet[j] ELSE sheet[k]
  BY <1>1, <1>2 DEF Swapped
<1>6. IdsApart(sheet')
  BY <1>1, <1>2, <1>4, <1>5 DEF IdsApart
<1>7. \A k \in DOMAIN sheet' : \E n \in DOMAIN sheet : sheet'[k] = sheet[n]
  BY <1>2, <1>4, <1>5
<1> QED
  BY <1>1, <1>3, <1>4, <1>6, <1>7, NbPlaced

LEMMA NbConverted ==
    ASSUME NbInv, NEW i, NEW t \in SheetKindsAll, ConvertCell(i, t)
    PROVE  NbInv'
<1>1. /\ sheet \in Seq(SheetRecords) /\ IdsApart(sheet) /\ used \subseteq Sheets
      /\ DOMAIN sheet = 1 .. Len(sheet) /\ Len(sheet) \in Nat
  BY DEF NbInv, NbShape
<1>2. /\ i \in DOMAIN sheet /\ sheet' = [sheet EXCEPT ![i].type = t] /\ UNCHANGED <<used, nbRest>>
  BY DEF ConvertCell
<1>3. \A cell \in SheetRecords :
         LET y == [cell EXCEPT !.type = t]
         IN  y \in SheetRecords /\ y.id = cell.id /\ y.status = cell.status
  BY DEF SheetRecords
<1>4. \A k \in DOMAIN sheet : sheet[k] \in SheetRecords
  BY <1>1
<1>5. /\ DOMAIN sheet' = DOMAIN sheet
      /\ \A k \in DOMAIN sheet : /\ sheet'[k] \in SheetRecords /\ sheet'[k].id = sheet[k].id
                                 /\ sheet'[k].status = sheet[k].status
  BY <1>2, <1>3, <1>4
<1>6. sheet' \in [1 .. Len(sheet) -> SheetRecords]
  BY <1>1, <1>2, <1>5
<1>7. sheet' \in Seq(SheetRecords) /\ IdsApart(sheet')
  BY <1>1, <1>5, <1>6 DEF IdsApart
<1> QED
  BY <1>1, <1>2, <1>5, <1>7, NbPlaced

\* Only the cell of this id changes, and it has this status now.
CellHas(c, st) ==
    /\ sheet' \in Seq(SheetRecords) /\ IdsApart(sheet') /\ DOMAIN sheet' = DOMAIN sheet
    /\ \A i \in DOMAIN sheet :
          /\ sheet'[i].id = sheet[i].id
          /\ sheet[i].id = c => sheet'[i].status = st
          /\ sheet[i].id # c => sheet'[i].status = sheet[i].status

LEMMA PatchGives ==
    ASSUME NbInv, NEW c, NEW st \in {"idle", "running", "complete", "error"},
           NEW o \in {"none", "preview", "stub", "agent"},
           PatchCell(c, st, o) \/ SetStatus(c, st)
    PROVE  CellHas(c, st)
<1>1. /\ sheet \in Seq(SheetRecords) /\ IdsApart(sheet) /\ DOMAIN sheet = 1 .. Len(sheet)
      /\ Len(sheet) \in Nat
  BY DEF NbInv, NbShape
<1>2. \A cell \in SheetRecords :
         LET y == [cell EXCEPT !.status = st]
         IN  y \in SheetRecords /\ y.id = cell.id /\ y.status = st
  BY DEF SheetRecords
<1>3. \A cell \in SheetRecords :
         LET y == [cell EXCEPT !.status = st, !.out = o]
         IN  y \in SheetRecords /\ y.id = cell.id /\ y.status = st
  <2> SUFFICES ASSUME NEW cell \in SheetRecords
               PROVE  LET y == [cell EXCEPT !.status = st, !.out = o]
                      IN  y \in SheetRecords /\ y.id = cell.id /\ y.status = st
    OBVIOUS
  <2>1. [cell EXCEPT !.status = st, !.out = o] = [[cell EXCEPT !.status = st] EXCEPT !.out = o]
    BY DEF SheetRecords
  <2>2. PICK y : y = [cell EXCEPT !.status = st] /\ y \in SheetRecords /\ y.id = cell.id /\ y.status = st
    BY <1>2
  <2>3. LET z == [y EXCEPT !.out = o]
        IN  z \in SheetRecords /\ z.id = y.id /\ z.status = y.status
    BY <2>2 DEF SheetRecords
  <2> QED
    BY <2>1, <2>2, <2>3
<1>4. \A i \in DOMAIN sheet : sheet[i] \in SheetRecords
  BY <1>1
<1>5. /\ DOMAIN sheet' = DOMAIN sheet /\ sheet' = [i \in DOMAIN sheet |-> sheet'[i]]
      /\ \A i \in DOMAIN sheet :
            /\ sheet'[i] \in SheetRecords /\ sheet'[i].id = sheet[i].id
            /\ sheet[i].id = c => sheet'[i].status = st
            /\ sheet[i].id # c => sheet'[i].status = sheet[i].status
  <2>1. CASE PatchCell(c, st, o)
    BY <1>3, <1>4, <2>1 DEF PatchCell
  <2>2. CASE SetStatus(c, st)
    BY <1>2, <1>4, <2>2 DEF SetStatus
  <2> QED
    BY <2>1, <2>2
<1>6. sheet' \in [1 .. Len(sheet) -> SheetRecords]
  BY <1>1, <1>5
<1>7. sheet' \in Seq(SheetRecords) /\ IdsApart(sheet')
  BY <1>1, <1>5, <1>6 DEF IdsApart
<1> QED
  BY <1>5, <1>7 DEF CellHas

\* What the run of a cell leaves, whatever the page does about "run all".
LEMMA NbRuns ==
    ASSUME NbInv, nbOpen, NEW cell, cell.id \in used, NEW by \in {"user", "all"},
           RunCellV2(cell, by), UNCHANGED <<nbOpen, used>>,
           \/ cell.type \in {"prompt", "code", "sql"}
           \/ \E i \in DOMAIN sheet : sheet[i] = cell /\ cell.status # "running",
           runAll' \in [on : BOOLEAN, left : Seq(LeftRecords)],
           \A k \in DOMAIN runAll'.left : runAll'.left[k].id \in used
    PROVE  NbInv'
<1>0. PICK c \in Sheets : c = cell.id /\ c \in used
  BY DEF NbInv, NbShape
<1>1. /\ twice' = IF PendingOf(c) = {} THEN twice \ {c} ELSE twice \cup {c}
      /\ stuckCells' = stuckCells \ {c}
  BY <1>0 DEF RunCellV2
<1>2. PendingOf(c) = {} <=> ~PromptOut(c)
  BY DEF PendingOf, PromptOut, IsOut
<1>3. /\ sheet \in Seq(SheetRecords) /\ IdsApart(sheet) /\ prompts \in Seq(PromptRecords)
      /\ used \subseteq Sheets /\ DOMAIN prompts = 1 .. Len(prompts) /\ Len(prompts) \in Nat
      /\ \A i \in DOMAIN sheet : sheet[i].id \in used
      /\ \A p \in DOMAIN prompts : prompts[p].cell \in used
      /\ \A i \in DOMAIN sheet : SheetTells(sheet[i])
      /\ \A d \in Sheets \ twice : Answerable(d)
  BY DEF NbInv, NbShape
<1>4. ASSUME prompts' \in Seq(PromptRecords), \A p \in DOMAIN prompts' : prompts'[p].cell \in used,
             \A d \in Sheets \ {c} : \A p : IsOut(p, d)' <=> IsOut(p, d),
             c \notin twice' => Answerable(c)',
             sheet' \in Seq(SheetRecords), IdsApart(sheet'), DOMAIN sheet' = DOMAIN sheet,
             \A i \in DOMAIN sheet : /\ sheet'[i].id = sheet[i].id
                                     /\ sheet[i].id # c => sheet'[i].status = sheet[i].status,
             \A i \in DOMAIN sheet : sheet[i].id = c =>
                /\ sheet'[i].status = "running" => PromptOut(c)'
                /\ PromptOut(c)' => sheet'[i].status = "running" \/ c \in twice'
      PROVE  NbInv'
  <2>1. NbShape'
    BY <1>3, <1>4 DEF NbShape
  <2>2. \A d \in Sheets \ {c} : (PromptOut(d)' <=> PromptOut(d)) /\ (Answerable(d)' <=> Answerable(d))
    BY <1>4 DEF PromptOut, Answerable
  <2>3. \A d \in Sheets \ twice' : Answerable(d)'
    <3> SUFFICES ASSUME NEW d \in Sheets \ twice' PROVE Answerable(d)'
      OBVIOUS
    <3>1. CASE d = c
      BY <1>4, <3>1
    <3>2. CASE d # c
      BY <1>1, <1>3, <2>2, <3>2
    <3> QED
      BY <3>1, <3>2
  <2>4. ASSUME NEW i \in DOMAIN sheet' PROVE SheetTells(sheet[i])'
    <3>1. sheet[i].id \in Sheets /\ SheetTells(sheet[i]) /\ i \in DOMAIN sheet
      BY <1>3, <1>4
    <3>2. CASE sheet[i].id = c
      BY <1>4, <3>1, <3>2 DEF SheetTells
    <3>3. CASE sheet[i].id # c
      BY <1>1, <1>4, <2>2, <3>1, <3>3 DEF SheetTells
    <3> QED
      BY <3>2, <3>3
  <2>5. nbOpen' /\ used' = used /\ \A i \in DOMAIN sheet' : sheet'[i].id \in used'
    BY <1>3, <1>4
  <2> QED
    BY <1>4, <2>1, <2>3, <2>4, <2>5 DEF NbInv
<1>5. CASE cell.type = "prompt"
  <2>1. /\ prompts' = Append(prompts, [cell |-> c, by |-> by, stage |-> "sent"])
        /\ PatchCell(c, "running", "none")
    BY <1>0, <1>5 DEF RunCellV2, SendPrompt
  <2>2. CellHas(c, "running")
    BY <2>1, PatchGives
  <2>3. PICK n \in Nat : n = Len(prompts) + 1
    BY <1>3
  <2>4. [cell |-> c, by |-> by, stage |-> "sent"] \in PromptRecords
    BY DEF PromptRecords
  <2>5. /\ prompts' \in Seq(PromptRecords) /\ DOMAIN prompts' = DOMAIN prompts \cup {n}
        /\ n \notin DOMAIN prompts
        /\ prompts'[n] = [cell |-> c, by |-> by, stage |-> "sent"]
        /\ \A p \in DOMAIN prompts : prompts'[p] = prompts[p]
    BY <1>3, <2>1, <2>3, <2>4
  <2>6. \A p \in DOMAIN prompts' : prompts'[p].cell \in used
    BY <1>0, <1>3, <2>5
  <2>7. \A d \in Sheets \ {c} : \A p : IsOut(p, d)' <=> IsOut(p, d)
    BY <2>5 DEF IsOut
  <2>8. IsOut(n, c)' /\ PromptOut(c)'
    BY <2>5 DEF IsOut, PromptOut
  <2>9. c \notin twice' => Answerable(c)'
    <3>1. c \notin twice' => ~PromptOut(c)
      BY <1>1, <1>2
    <3>2. ~PromptOut(c) => \A p : IsOut(p, c)' => p = n
      BY <2>5 DEF IsOut, PromptOut
    <3> QED
      BY <3>1, <3>2 DEF Answerable
  <2> QED
    BY <1>4, <2>2, <2>5, <2>6, <2>7, <2>8, <2>9 DEF CellHas
<1>6. CASE cell.type # "prompt"
  <2>1. RunWithoutModel(cell) /\ prompts' = prompts
    BY <1>6 DEF RunCellV2, RunWithoutModel
  <2>2. \A d, p : IsOut(p, d)' <=> IsOut(p, d)
    BY <2>1 DEF IsOut
  <2>3. /\ \A d : PromptOut(d)' <=> PromptOut(d)
        /\ c \notin twice' => ~PromptOut(c) /\ Answerable(c)'
    BY <1>1, <1>2, <2>2 DEF PromptOut, Answerable
  <2>4. CASE cell.type \in {"code", "sql", "markdown"}
    <3>1. PICK o \in {"preview", "stub"} : PatchCell(c, "complete", o)
      BY <1>0, <2>1, <2>4 DEF RunWithoutModel
    <3>2. CellHas(c, "complete")
      BY <3>1, PatchGives
    <3> QED
      BY <1>3, <1>4, <2>1, <2>2, <2>3, <3>2 DEF CellHas
  <2>5. CASE cell.type \notin {"code", "sql", "markdown"}
    <3>1. sheet' = sheet
      BY <2>1, <2>5 DEF RunWithoutModel
    <3>2. \A i \in DOMAIN sheet : sheet[i].id = c => sheet[i].status # "running"
      BY <1>0, <1>3, <1>6, <2>5 DEF IdsApart
    <3> QED
      BY <1>3, <1>4, <2>1, <2>2, <2>3, <3>1, <3>2
  <2> QED
    BY <2>4, <2>5
<1> QED
  BY <1>5, <1>6

LEMMA NbAnswers ==
    ASSUME NbInv, NEW p, NEW ok \in BOOLEAN, PromptAnswers(p, ok)
    PROVE  NbInv'
<1>1. /\ sheet \in Seq(SheetRecords) /\ IdsApart(sheet) /\ prompts \in Seq(PromptRecords)
      /\ used \subseteq Sheets /\ DOMAIN prompts = 1 .. Len(prompts) /\ Len(prompts) \in Nat
      /\ \A i \in DOMAIN sheet : sheet[i].id \in used
      /\ \A q \in DOMAIN prompts : prompts[q].cell \in used
      /\ \A d \in Sheets \ twice : Answerable(d)
  BY DEF NbInv, NbShape
<1>2. /\ p \in DOMAIN prompts /\ prompts[p].stage = "sent" /\ nbOpen
      /\ prompts' = [prompts EXCEPT ![p].stage = "over"]
      /\ UNCHANGED <<nbOpen, stuckCells, used, runAll, twice>>
  BY DEF PromptAnswers
<1>3. PICK c \in Sheets : c = prompts[p].cell
  BY <1>1, <1>2
<1>4. PICK st \in {"complete", "error"} : CellHas(c, st)
  <2>1. CASE ok
    <3>1. PatchCell(c, "complete", "agent")
      BY <1>3, <2>1 DEF PromptAnswers
    <3> QED
      BY <3>1, PatchGives
  <2>2. CASE ~ok
    <3>1. SetStatus(c, "error")
      BY <1>3, <2>2 DEF PromptAnswers
    <3> QED
      BY <3>1, PatchGives
  <2> QED
    BY <2>1, <2>2
<1>5. /\ DOMAIN prompts' = DOMAIN prompts
      /\ \A q \in DOMAIN prompts :
            /\ prompts'[q] \in PromptRecords /\ prompts'[q].cell = prompts[q].cell
            /\ prompts'[q].stage = IF q = p THEN "over" ELSE prompts[q].stage
  <2>1. \A x \in PromptRecords :
           LET y == [x EXCEPT !.stage = "over"]
           IN  y \in PromptRecords /\ y.cell = x.cell /\ y.stage = "over"
    BY DEF PromptRecords
  <2>2. \A q \in DOMAIN prompts : prompts[q] \in PromptRecords
    BY <1>1
  <2>3. /\ DOMAIN prompts' = DOMAIN prompts
        /\ prompts'[p] = [prompts[p] EXCEPT !.stage = "over"]
        /\ \A q \in DOMAIN prompts : q # p => prompts'[q] = prompts[q]
    BY <1>2
  <2> QED
    BY <1>2, <2>1, <2>2, <2>3
<1>6. prompts' \in Seq(PromptRecords)
  <2>1. prompts' \in [1 .. Len(prompts) -> PromptRecords]
    BY <1>1, <1>2, <1>5
  <2> QED
    BY <1>1, <2>1
<1>7. \A d, q : IsOut(q, d)' <=> IsOut(q, d) /\ q # p
  BY <1>5 DEF IsOut
<1>8. IsOut(p, c)
  BY <1>2, <1>3 DEF IsOut
<1>9. \A d \in Sheets \ twice : Answerable(d)'
  BY <1>1, <1>7 DEF Answerable
<1>10. ASSUME NEW i \in DOMAIN sheet' PROVE SheetTells(sheet[i])'
  <2>1. i \in DOMAIN sheet /\ sheet'[i].id = sheet[i].id /\ sheet[i].id \in Sheets
    BY <1>1, <1>4, <1>10 DEF CellHas
  <2>2. CASE sheet[i].id = c
    <3>1. sheet'[i].status # "running"
      BY <1>4, <2>1, <2>2 DEF CellHas
    <3>2. c \notin twice => ~PromptOut(c)'
      BY <1>1, <1>7, <1>8 DEF Answerable, PromptOut
    <3> QED
      BY <1>2, <2>1, <2>2, <3>1, <3>2 DEF SheetTells
  <2>3. CASE sheet[i].id # c
    <3>1. sheet'[i].status = sheet[i].status /\ SheetTells(sheet[i])
      BY <1>2, <1>4, <2>1, <2>3 DEF CellHas, NbInv
    <3>2. PICK d \in Sheets : d = sheet[i].id
      BY <2>1
    <3>3. PromptOut(d)' <=> PromptOut(d)
      BY <1>3, <1>7, <2>3, <3>2 DEF PromptOut, IsOut
    <3>4. sheet'[i].id = d /\ sheet'[i].status = sheet[i].status
      BY <2>1, <3>1, <3>2
    <3>5. d \notin stuckCells =>
             /\ sheet[i].status = "running" => PromptOut(d)
             /\ PromptOut(d) => sheet[i].status = "running" \/ d \in twice
      BY <3>1, <3>2 DEF SheetTells
    <3>6. d \notin stuckCells' =>
             /\ sheet'[i].status = "running" => PromptOut(d)'
             /\ PromptOut(d)' => sheet'[i].status = "running" \/ d \in twice'
      BY <1>2, <3>3, <3>4, <3>5
    <3> QED
      BY <3>4, <3>6 DEF SheetTells
  <2> QED
    BY <2>2, <2>3
<1>11. NbShape'
  BY <1>1, <1>2, <1>4, <1>6 DEF NbShape, NbInv, CellHas
<1>12. /\ \A i \in DOMAIN sheet' : sheet'[i].id \in used'
       /\ \A q \in DOMAIN prompts' : prompts'[q].cell \in used'
  BY <1>1, <1>2, <1>4, <1>5 DEF CellHas
<1> QED
  BY <1>2, <1>9, <1>10, <1>11, <1>12 DEF NbInv

LEMMA NbLeaves ==
    ASSUME NbInv, LeaveNotebook
    PROVE  NbInv'
<1>1. /\ nbOpen' = FALSE /\ runAll' = [on |-> FALSE, left |-> <<>>]
      /\ prompts' = [p \in DOMAIN prompts |-> [prompts[p] EXCEPT !.stage = "over"]]
      /\ UNCHANGED <<sheet, used, twice, stuckCells>>
  BY DEF LeaveNotebook
<1>2. /\ prompts \in Seq(PromptRecords) /\ DOMAIN prompts = 1 .. Len(prompts)
      /\ Len(prompts) \in Nat
  BY DEF NbInv, NbShape
<1>3. /\ DOMAIN prompts' = DOMAIN prompts
      /\ \A q \in DOMAIN prompts : /\ prompts'[q] \in PromptRecords
                                   /\ prompts'[q].cell = prompts[q].cell
                                   /\ prompts'[q].stage = "over"
  <2>1. \A x \in PromptRecords :
           LET y == [x EXCEPT !.stage = "over"]
           IN  y \in PromptRecords /\ y.cell = x.cell /\ y.stage = "over"
    BY DEF PromptRecords
  <2>2. \A q \in DOMAIN prompts : prompts[q] \in PromptRecords
    BY <1>2
  <2> QED
    BY <1>1, <2>1, <2>2
<1>4. prompts' \in Seq(PromptRecords)
  <2>1. prompts' \in [1 .. Len(prompts) -> PromptRecords]
    BY <1>1, <1>2, <1>3
  <2> QED
    BY <1>2, <2>1
<1>5. runAll' \in [on : BOOLEAN, left : Seq(LeftRecords)] /\ DOMAIN runAll'.left = {}
  BY <1>1, EmptySeq
<1>6. NbShape'
  BY <1>1, <1>4, <1>5 DEF NbShape, NbInv, IdsApart
<1>7. \A c : Answerable(c)'
  BY <1>3 DEF Answerable, IsOut
<1>8. /\ \A i \in DOMAIN sheet' : sheet'[i].id \in used'
      /\ \A q \in DOMAIN prompts' : prompts'[q].cell \in used' /\ prompts'[q].stage = "over"
  BY <1>1, <1>3 DEF NbInv
<1> QED
  BY <1>1, <1>5, <1>6, <1>7, <1>8 DEF NbInv

\* What was stored comes back, what ran as running: none of it is out.
LEMMA NbReturns ==
    ASSUME NbInv, ReturnToNotebook
    PROVE  NbInv'
<1>1. /\ ~nbOpen /\ nbOpen' /\ UNCHANGED <<runAll, prompts>>
      /\ stuckCells' = {c \in Sheets : OnSheet(c) /\ CellAt(c).status = "running"}
  BY DEF ReturnToNotebook
<1>2. /\ sheet \in Seq(SheetRecords) /\ IdsApart(sheet) /\ used \subseteq Sheets
      /\ \A i \in DOMAIN sheet : sheet[i].id \in used
      /\ \A q \in DOMAIN prompts : prompts[q].cell \in used /\ prompts[q].stage = "over"
  BY <1>1 DEF NbInv, NbShape
<1>3. \A c : ~PromptOut(c)' /\ Answerable(c)'
  BY <1>1, <1>2 DEF PromptOut, Answerable, IsOut
<1>4. CASE UNCHANGED <<sheet, used>>
  <2>1. ASSUME NEW i \in DOMAIN sheet' PROVE SheetTells(sheet[i])'
    <3>1. i \in DOMAIN sheet /\ sheet'[i] = sheet[i] /\ sheet[i].id \in Sheets
      BY <1>2, <1>4
    <3>2. sheet[i].status = "running" => sheet[i].id \in stuckCells'
      <4>1. OnSheet(sheet[i].id)
        BY <3>1 DEF OnSheet, IndexOf
      <4>2. PlaceOf(sheet[i].id) = i
        BY <1>2, <3>1, <4>1, NbPlaceOf DEF IdsApart
      <4> QED
        BY <1>1, <3>1, <4>1, <4>2 DEF CellAt
    <3> QED
      BY <1>3, <3>1, <3>2 DEF SheetTells
  <2>2. NbShape'
    BY <1>1, <1>4 DEF NbShape, NbInv, IdsApart
  <2> QED
    BY <1>1, <1>2, <1>3, <1>4, <2>1, <2>2 DEF NbInv
<1>5. CASE \E c \in Sheets \ used : sheet' = StarterCells(c) /\ used' = used \cup {c}
  <2>1. PICK c \in Sheets \ used : sheet' = <<NewCell(c, "prompt")>> /\ used' = used \cup {c}
    BY <1>5 DEF StarterCells
  <2>2. NewCell(c, "prompt") \in SheetRecords /\ NewCell(c, "prompt").id = c
        /\ NewCell(c, "prompt").status = "idle"
    BY DEF NewCell, SheetRecords, SheetKindsAll, SheetTypes
  <2>3. sheet' \in Seq(SheetRecords) /\ DOMAIN sheet' = {1} /\ sheet'[1].id = c /\ sheet'[1].status = "idle"
    BY <2>1, <2>2
  <2>4. NbShape'
    BY <1>1, <1>2, <2>1, <2>3 DEF NbShape, NbInv, IdsApart
  <2>5. \A i \in DOMAIN sheet' : SheetTells(sheet[i])'
    BY <1>3, <2>3 DEF SheetTells
  <2>6. /\ \A i \in DOMAIN sheet' : sheet'[i].id \in used'
        /\ \A q \in DOMAIN prompts' : prompts'[q].cell \in used'
        /\ \A k \in DOMAIN runAll'.left : runAll'.left[k].id \in used'
    BY <1>1, <1>2, <2>1, <2>3 DEF NbInv
  <2> QED
    BY <1>1, <1>3, <2>4, <2>5, <2>6 DEF NbInv
<1> QED
  BY <1>4, <1>5 DEF ReturnToNotebook

LEMMA NbRunsAll ==
    ASSUME NbInv, RunAll \/ NextOfAll
    PROVE  NbInv'
<1>1. /\ sheet \in Seq(SheetRecords) /\ used \subseteq Sheets /\ DOMAIN sheet = 1 .. Len(sheet)
      /\ Len(sheet) \in Nat /\ runAll \in [on : BOOLEAN, left : Seq(LeftRecords)]
      /\ \A i \in DOMAIN sheet : sheet[i].id \in used /\ sheet[i] \in SheetRecords
      /\ \A k \in DOMAIN runAll.left : runAll.left[k].id \in used
  BY DEF NbInv, NbShape
<1>2. ASSUME UNCHANGED <<nbOpen, stuckCells, sheet, used, prompts, twice>>,
             runAll' \in [on : BOOLEAN, left : Seq(LeftRecords)],
             \A k \in DOMAIN runAll'.left : runAll'.left[k].id \in used
      PROVE  NbInv'
  <2>1. \A c : (PromptOut(c)' <=> PromptOut(c)) /\ (Answerable(c)' <=> Answerable(c))
    BY <1>2 DEF PromptOut, Answerable, IsOut
  <2>2. NbShape'
    BY <1>2 DEF NbShape, NbInv, IdsApart
  <2>3. nbOpen => \A i \in DOMAIN sheet' : SheetTells(sheet[i])'
    BY <1>2, <2>1 DEF SheetTells, NbInv
  <2> QED
    BY <1>2, <2>1, <2>2, <2>3 DEF NbInv
<1>3. CASE RunAll
  <2> DEFINE left == [i \in DOMAIN sheet |-> [id |-> sheet[i].id, type |-> sheet[i].type]]
  <2>1. runAll' = [on |-> TRUE, left |-> left] /\ UNCHANGED <<nbOpen, stuckCells, sheet, used, prompts, twice>>
    BY <1>3 DEF RunAll
  <2>2. \A i \in DOMAIN sheet : [id |-> sheet[i].id, type |-> sheet[i].type] \in LeftRecords
    BY <1>1 DEF SheetRecords, LeftRecords
  <2>3. left \in Seq(LeftRecords) /\ \A k \in DOMAIN left : left[k].id \in used
    BY <1>1, <2>2
  <2> HIDE DEF left
  <2>4. runAll' \in [on : BOOLEAN, left : Seq(LeftRecords)] /\ runAll'.left = left
    BY <2>1, <2>3
  <2> QED
    BY <1>2, <2>1, <2>3, <2>4
<1>4. CASE NextOfAll
  <2>1. nbOpen /\ UNCHANGED <<nbOpen, used>>
    BY <1>4 DEF NextOfAll
  <2>2. CASE runAll.left = <<>>
    <3>1. runAll' = [on |-> FALSE, left |-> <<>>] /\ UNCHANGED <<sheet, prompts, twice, stuckCells>>
      BY <1>4, <2>2 DEF NextOfAll
    <3>2. runAll' \in [on : BOOLEAN, left : Seq(LeftRecords)] /\ DOMAIN runAll'.left = {}
      BY <3>1, EmptySeq
    <3> QED
      BY <1>2, <2>1, <3>1, <3>2
  <2>3. CASE runAll.left # <<>>
    <3>1. PICK h : h = Head(runAll.left)
      OBVIOUS
    <3>2. runAll' = [runAll EXCEPT !.left = Tail(runAll.left)]
      BY <1>4, <2>3 DEF NextOfAll
    <3>3. h.id \in used /\ Tail(runAll.left) \in Seq(LeftRecords)
          /\ \A k \in DOMAIN Tail(runAll.left) : Tail(runAll.left)[k].id \in used
      <4>1. PICK l \in Seq(LeftRecords) : l = runAll.left
        BY <1>1
      <4>2. l # <<>> /\ \A k \in DOMAIN l : l[k].id \in used
        BY <1>1, <2>3, <4>1
      <4>3. /\ Tail(l) \in Seq(LeftRecords) /\ Head(l) = l[1] /\ 1 \in DOMAIN l
            /\ \A k \in DOMAIN Tail(l) : k + 1 \in DOMAIN l /\ Tail(l)[k] = l[k + 1]
        BY <4>2
      <4> QED
        BY <3>1, <4>1, <4>2, <4>3
    <3>4. runAll' \in [on : BOOLEAN, left : Seq(LeftRecords)] /\ runAll'.left = Tail(runAll.left)
      BY <1>1, <3>2, <3>3
    <3>5. CASE h.type \in {"prompt", "code", "sql"}
      <4>1. RunCellV2(h, "all")
        BY <1>4, <2>3, <3>1, <3>5 DEF NextOfAll
      <4> QED
        BY <2>1, <3>3, <3>4, <3>5, <4>1, NbRuns
    <3>6. CASE h.type \notin {"prompt", "code", "sql"}
      <4>1. UNCHANGED <<sheet, prompts, twice, stuckCells>>
        BY <1>4, <2>3, <3>1, <3>6 DEF NextOfAll
      <4> QED
        BY <1>2, <2>1, <3>3, <3>4, <4>1
    <3> QED
      BY <3>5, <3>6
  <2> QED
    BY <2>2, <2>3
<1> QED
  BY <1>3, <1>4

LEMMA NbInvStep ==
    ASSUME NbInv, NotebookNext \/ UNCHANGED nbVars
    PROVE  NbInv'
<1>1. /\ sheet \in Seq(SheetRecords) /\ used \subseteq Sheets /\ DOMAIN sheet = 1 .. Len(sheet)
      /\ Len(sheet) \in Nat /\ runAll \in [on : BOOLEAN, left : Seq(LeftRecords)]
      /\ \A i \in DOMAIN sheet : sheet[i].id \in used /\ sheet[i] \in SheetRecords
      /\ \A k \in DOMAIN runAll.left : runAll.left[k].id \in used
  BY DEF NbInv, NbShape
<1>2. Convertible \subseteq SheetKindsAll /\ "prompt" \in SheetKindsAll
  BY DEF Convertible, SheetKindsAll, SheetTypes
<1>3. Len(sheet) + 1 \in 1 .. Len(sheet) + 1
  BY <1>1
<1>4. ASSUME NEW c, OnSheet(c)
      PROVE  PlaceOf(c) + 1 \in 1 .. Len(sheet) + 1 /\ CellAt(c).type \in SheetKindsAll
  <2>1. PlaceOf(c) \in DOMAIN sheet
    BY <1>4, NbPlaceOf
  <2>2. sheet[PlaceOf(c)] \in SheetRecords
    BY <1>1, <2>1
  <2> QED
    BY <1>1, <2>1, <2>2 DEF CellAt, SheetRecords
<1>5. ASSUME NEW c \in Sheets, NEW d \in Sheets, NEW t \in Convertible, AddCellV2(c, t, d)
      PROVE  NbInv'
  <2>1. PICK at \in 1 .. Len(sheet) + 1 : Insert(c, t, at)
    <3>1. CASE OnSheet(d)
      BY <1>4, <1>5, <3>1 DEF AddCellV2
    <3>2. CASE ~OnSheet(d)
      BY <1>3, <1>5, <3>2 DEF AddCellV2
    <3> QED
      BY <3>1, <3>2
  <2>2. UNCHANGED nbRest
    BY <1>5 DEF AddCellV2
  <2> QED
    BY <1>2, <2>1, <2>2, NbInserted
<1>6. ASSUME NEW c \in Sheets, NEW d \in Sheets, DuplicateCell(c, d) PROVE NbInv'
  <2>1. OnSheet(c) /\ Insert(d, CellAt(c).type, PlaceOf(c) + 1) /\ UNCHANGED nbRest
    BY <1>6 DEF DuplicateCell
  <2> QED
    BY <1>4, <2>1, NbInserted
<1>7. ASSUME NEW c \in Sheets, SubmitInstruction(c) PROVE NbInv'
  BY <1>2, <1>3, <1>7, NbInserted DEF SubmitInstruction
<1>8. ASSUME NEW c \in Sheets, ActivateCell(c) PROVE NbInv'
  <2>1. UNCHANGED <<sheet, used, nbRest>>
    BY <1>8 DEF ActivateCell
  <2>2. sheet' \in Seq(SheetRecords) /\ IdsApart(sheet')
    BY <2>1 DEF NbInv, NbShape, IdsApart
  <2>3. \A k \in DOMAIN sheet' : \E n \in DOMAIN sheet : sheet'[k] = sheet[n]
    BY <2>1
  <2> QED
    BY <1>1, <2>1, <2>2, <2>3, NbPlaced
<1>9. ASSUME NEW i, RunOne(i) PROVE NbInv'
  <2>1. /\ nbOpen /\ i \in DOMAIN sheet /\ sheet[i].status # "running" /\ RunCellV2(sheet[i], "user")
        /\ UNCHANGED <<nbOpen, used, runAll>>
    BY <1>9 DEF RunOne, CellRunnable
  <2>2. sheet[i].id \in used
    BY <1>1, <2>1
  <2>3. /\ runAll' \in [on : BOOLEAN, left : Seq(LeftRecords)]
        /\ \A k \in DOMAIN runAll'.left : runAll'.left[k].id \in used
    BY <1>1, <2>1
  <2> QED
    BY <2>1, <2>2, <2>3, NbRuns
<1>10. CASE UNCHANGED nbVars
  <2>1. UNCHANGED <<sheet, used, nbRest>>
    BY <1>10 DEF nbVars, nbRest
  <2>2. sheet' \in Seq(SheetRecords) /\ IdsApart(sheet')
    BY <2>1 DEF NbInv, NbShape, IdsApart
  <2>3. \A k \in DOMAIN sheet' : \E n \in DOMAIN sheet : sheet'[k] = sheet[n]
    BY <2>1
  <2> QED
    BY <1>1, <2>1, <2>2, <2>3, NbPlaced
<1> QED
  BY <1>2, <1>5, <1>6, <1>7, <1>8, <1>9, <1>10, NbRemoved, NbMoved, NbConverted, NbRunsAll, NbLeaves,
     NbReturns, NbAnswers DEF NotebookNext

LEMMA NbSound == ASSUME NbInv PROVE SheetShowsItsRun
<1>1. \A c : PromptOut(c) <=> PendingOf(c) # {}
  BY DEF PromptOut, PendingOf, IsOut
<1> QED
  BY <1>1 DEF SheetShowsItsRun, NbInv, SheetTells

-----------------------------------------------------------------------------
(* The run of the canvas.                                                  *)

RunRecords == [id : Nat, status : {"queued", "completed"}, best : BOOLEAN]
RunBlocks == [stage : 0 .. PhaseCount + 1, of : Nat, metrics : Nat]
RunLoops == [id : Nat, at : 1 .. PhaseCount, cancelled : BOOLEAN]

\* Records of the first n runs, each once, at most one of them marked best.
GoodRecords(recs, n) ==
    /\ recs \in Seq(RunRecords)
    /\ \A i \in DOMAIN recs : recs[i].id <= n
    /\ \A i, j \in DOMAIN recs : recs[i].id = recs[j].id => i = j
    /\ \A i, j \in DOMAIN recs : recs[i].best /\ recs[j].best => i = j

\* The metrics of a block are those of the newest record, which has completed.
MetricsAreOfNewest(b, recs) ==
    b.metrics # NoRun => /\ recs # <<>> /\ recs[1].id = b.metrics
                         /\ recs[1].status = "completed" /\ b.stage = Completed

Tidy(b, recs, n) == b \in RunBlocks /\ GoodRecords(recs, n) /\ MetricsAreOfNewest(b, recs)

\* The loop whose token was not cancelled has the block, the newest record and
\* the stop button.
Drives(l) ==
    /\ canvasAbort = l.id /\ runBlock.of = l.id /\ runBlock.stage = l.at
    /\ records # <<>> /\ records[1].id = l.id

LoopsFit ==
    /\ loops \subseteq RunLoops /\ (~canvasOpen => loops = {})
    /\ \A l, k \in loops : ~l.cancelled /\ ~k.cancelled => l = k
    /\ \A l \in loops : ~l.cancelled => Drives(l)

CanvasInv ==
    /\ canvasStarts \in Nat
    /\ GoodRecords(records, canvasStarts) /\ GoodRecords(keptCanvas[2], canvasStarts)
    /\ ~astray => /\ LoopsFit /\ Tidy(runBlock, records, canvasStarts)
                  /\ Tidy(keptCanvas[1], keptCanvas[2], canvasStarts)

LEMMA FreshIsTidy == \A n \in Nat : Tidy(FreshBlock, <<>>, n)
<1>1. FreshBlock \in RunBlocks /\ FreshBlock.metrics = NoRun
  BY CanvasRunAssumption DEF FreshBlock, RunBlocks, Idle, NoRun
<1>2. <<>> \in Seq(RunRecords) /\ DOMAIN <<>> = {}
  BY EmptySeq
<1> QED
  BY <1>1, <1>2 DEF Tidy, GoodRecords, MetricsAreOfNewest

LEMMA CanvasInvInit == ASSUME CanvasRunInit PROVE CanvasInv
<1>1. canvasStarts = 0 /\ runBlock = FreshBlock /\ records = <<>> /\ keptCanvas[1] = FreshBlock
      /\ keptCanvas[2] = <<>> /\ loops = {}
  BY DEF CanvasRunInit
<1>2. Tidy(FreshBlock, <<>>, 0)
  BY FreshIsTidy
<1> QED
  BY <1>1, <1>2 DEF CanvasInv, LoopsFit, Tidy

\* The new record is the first one, and the others follow as they were.
LEMMA AddRunGives ==
    ASSUME NEW recs \in Seq(RunRecords), NEW r \in Nat
    PROVE  /\ AddRun(recs, r) \in Seq(RunRecords) /\ AddRun(recs, r) # <<>>
           /\ AddRun(recs, r)[1] = [id |-> r, status |-> "queued", best |-> FALSE]
           /\ \A i \in DOMAIN AddRun(recs, r) :
                 i # 1 => i - 1 \in DOMAIN recs /\ AddRun(recs, r)[i] = recs[i - 1]
<1> DEFINE new == [id |-> r, status |-> "queued", best |-> FALSE]
           all == <<new>> \o recs
           n == IF Len(all) > RecordsKept THEN RecordsKept ELSE Len(all)
<1>1. new \in RunRecords
  BY DEF RunRecords
<1> HIDE DEF new
<1>2. <<new>> \in Seq(RunRecords) /\ Len(<<new>>) = 1 /\ <<new>>[1] = new
  BY <1>1
<1>3. /\ all \in Seq(RunRecords) /\ Len(all) = 1 + Len(recs)
      /\ \A i \in 1 .. 1 + Len(recs) : all[i] = IF i <= 1 THEN <<new>>[i] ELSE recs[i - 1]
  BY <1>2, ConcatProperties
<1> HIDE DEF all
<1>4. n \in 1 .. Len(all)
  BY <1>3, CanvasRunAssumption, LenProperties
<1> HIDE DEF n
<1>5. /\ SubSeq(all, 1, n) \in Seq(RunRecords) /\ Len(SubSeq(all, 1, n)) = n
      /\ \A i \in 1 .. n : SubSeq(all, 1, n)[i] = all[i]
  BY <1>3, <1>4
<1>6. AddRun(recs, r) = SubSeq(all, 1, n)
  BY DEF AddRun, all, n, new
<1>7. n \in Nat /\ 1 \in 1 .. n /\ 1 \in 1 .. 1 + Len(recs)
  BY <1>3, <1>4, LenProperties
<1>8. AddRun(recs, r)[1] = new
  BY <1>2, <1>3, <1>5, <1>6, <1>7
<1>9. ASSUME NEW i \in 1 .. n, i # 1
      PROVE  i - 1 \in DOMAIN recs /\ AddRun(recs, r)[i] = recs[i - 1]
  <2>1. i \in 1 .. 1 + Len(recs) /\ ~(i <= 1) /\ i - 1 \in 1 .. Len(recs)
    BY <1>3, <1>4, <1>9, LenProperties
  <2> QED
    BY <1>3, <1>5, <1>6, <2>1
<1>10. DOMAIN AddRun(recs, r) = 1 .. n /\ AddRun(recs, r) \in Seq(RunRecords)
  BY <1>5, <1>6
<1>11. AddRun(recs, r) # <<>>
  BY <1>7, <1>10
<1>12. \A i \in 1 .. n : i # 1 => i - 1 \in DOMAIN recs /\ AddRun(recs, r)[i] = recs[i - 1]
  BY <1>9
<1> QED
  BY <1>8, <1>10, <1>11, <1>12 DEF new

LEMMA RecordFields ==
    ASSUME NEW recs \in Seq(RunRecords), NEW i \in DOMAIN recs
    PROVE  recs[i] \in RunRecords /\ recs[i].id \in Nat /\ recs[i].best \in BOOLEAN
<1>1. recs[i] \in RunRecords
  OBVIOUS
<1> QED
  BY <1>1 DEF RunRecords

LEMMA TidyStart ==
    ASSUME NEW n \in Nat, NEW recs, GoodRecords(recs, n)
    PROVE  /\ Tidy([stage |-> 1, of |-> n + 1, metrics |-> NoRun], AddRun(recs, n + 1), n + 1)
           /\ AddRun(recs, n + 1) # <<>> /\ AddRun(recs, n + 1)[1].id = n + 1
<1> DEFINE added == AddRun(recs, n + 1)
           block == [stage |-> 1, of |-> n + 1, metrics |-> NoRun]
<1>0. n + 1 \in Nat /\ recs \in Seq(RunRecords)
  BY DEF GoodRecords
<1>1. /\ added \in Seq(RunRecords) /\ added # <<>>
      /\ added[1].id = n + 1 /\ added[1].best = FALSE
      /\ \A i \in DOMAIN added : i # 1 => i - 1 \in DOMAIN recs /\ added[i] = recs[i - 1]
  <2>1. /\ added \in Seq(RunRecords) /\ added # <<>>
        /\ added[1] = [id |-> n + 1, status |-> "queued", best |-> FALSE]
        /\ \A i \in DOMAIN added : i # 1 => i - 1 \in DOMAIN recs /\ added[i] = recs[i - 1]
    BY <1>0, AddRunGives, Zenon
  <2> HIDE DEF added
  <2> QED
    BY <2>1
<1>2. block \in RunBlocks /\ block.metrics = NoRun
  BY CanvasRunAssumption DEF RunBlocks, NoRun
<1> HIDE DEF added, block
<1>3. \A i \in DOMAIN recs : recs[i].id \in Nat /\ recs[i].id <= n
  BY RecordFields DEF GoodRecords
<1>4. DOMAIN added \subseteq Nat
  BY <1>1
<1>5. \A i \in DOMAIN added : added[i].id <= n + 1 /\ (i # 1 => added[i].id <= n /\ added[i].id \in Nat)
  BY <1>1, <1>3
<1>6. \A i, j \in DOMAIN added : added[i].id = added[j].id => i = j
  <2> SUFFICES ASSUME NEW i \in DOMAIN added, NEW j \in DOMAIN added, added[i].id = added[j].id
               PROVE  i = j
    OBVIOUS
  <2>1. CASE i = 1 \/ j = 1
    BY <1>1, <1>5, <2>1
  <2>2. CASE i # 1 /\ j # 1
    <3>1. i - 1 = j - 1
      BY <1>1, <2>2 DEF GoodRecords
    <3> QED
      BY <1>4, <3>1
  <2> QED
    BY <2>1, <2>2
<1>7. \A i, j \in DOMAIN added : added[i].best /\ added[j].best => i = j
  <2> SUFFICES ASSUME NEW i \in DOMAIN added, NEW j \in DOMAIN added, added[i].best, added[j].best
               PROVE  i = j
    OBVIOUS
  <2>1. i # 1 /\ j # 1
    BY <1>1
  <2>2. i - 1 = j - 1
    BY <1>1, <2>1 DEF GoodRecords
  <2> QED
    BY <1>4, <2>2
<1>8. Tidy(block, added, n + 1)
  BY <1>1, <1>2, <1>5, <1>6, <1>7 DEF Tidy, GoodRecords, MetricsAreOfNewest
<1> QED
  BY <1>1, <1>8 DEF added, block

LEMMA TidyLater ==
    ASSUME NEW b, NEW recs, NEW n \in Nat, Tidy(b, recs, n)
    PROVE  Tidy(b, recs, n + 1)
<1>1. ASSUME NEW i \in DOMAIN recs PROVE recs[i].id <= n + 1
  <2>1. recs[i].id \in Nat /\ recs[i].id <= n
    BY RecordFields DEF Tidy, GoodRecords
  <2> QED
    BY <2>1
<1> QED
  BY <1>1 DEF Tidy, GoodRecords

LEMMA PatchedRecords ==
    ASSUME NEW recs, NEW n, GoodRecords(recs, n), NEW r
    PROVE  /\ GoodRecords(PatchRun(recs, r, "completed"), n)
           /\ DOMAIN PatchRun(recs, r, "completed") = DOMAIN recs
           /\ \A i \in DOMAIN recs :
                /\ PatchRun(recs, r, "completed")[i].id = recs[i].id
                /\ recs[i].id = r => PatchRun(recs, r, "completed")[i].status = "completed"
<1> DEFINE patched == PatchRun(recs, r, "completed")
<1>1. recs \in Seq(RunRecords)
  BY DEF GoodRecords
<1>2. \A i \in DOMAIN recs : /\ patched[i] \in RunRecords /\ patched[i].id = recs[i].id
                             /\ patched[i].best = recs[i].best
                             /\ recs[i].id = r => patched[i].status = "completed"
  <2> SUFFICES ASSUME NEW i \in DOMAIN recs
               PROVE  /\ patched[i] \in RunRecords /\ patched[i].id = recs[i].id
                      /\ patched[i].best = recs[i].best
                      /\ recs[i].id = r => patched[i].status = "completed"
    OBVIOUS
  <2>1. recs[i] \in RunRecords
    BY <1>1
  <2>2. patched[i] = IF recs[i].id = r THEN [recs[i] EXCEPT !.status = "completed"] ELSE recs[i]
    BY DEF PatchRun
  <2> HIDE DEF patched
  <2>3. CASE recs[i].id = r
    BY <2>1, <2>2, <2>3 DEF RunRecords
  <2>4. CASE recs[i].id # r
    BY <2>1, <2>2, <2>4
  <2> QED
    BY <2>3, <2>4
<1>3. DOMAIN patched = DOMAIN recs /\ patched \in Seq(RunRecords)
  BY <1>1, <1>2 DEF PatchRun
<1> HIDE DEF patched
<1>4. GoodRecords(patched, n)
  BY <1>2, <1>3 DEF GoodRecords
<1> QED
  BY <1>2, <1>3, <1>4 DEF patched

LEMMA TidyCompletes ==
    ASSUME NEW b, NEW recs, NEW n \in Nat, Tidy(b, recs, n), NEW r \in Nat,
           recs # <<>>, recs[1].id = r
    PROVE  Tidy([b EXCEPT !.stage = Completed, !.metrics = r], PatchRun(recs, r, "completed"), n)
<1> DEFINE block == [b EXCEPT !.stage = Completed, !.metrics = r]
           patched == PatchRun(recs, r, "completed")
<1>1. block \in RunBlocks /\ block.metrics = r /\ block.stage = Completed
  <2> DEFINE ended == [b EXCEPT !.stage = Completed]
  <2>1. ended \in RunBlocks /\ ended.stage = Completed
    BY CanvasRunAssumption DEF Tidy, RunBlocks, Completed
  <2>2. block = [ended EXCEPT !.metrics = r]
    BY DEF Tidy, RunBlocks
  <2> HIDE DEF ended, block
  <2> QED
    BY <2>1, <2>2 DEF RunBlocks
<1>2. recs \in Seq(RunRecords) /\ 1 \in DOMAIN recs /\ GoodRecords(recs, n)
  BY EmptySeq DEF Tidy, GoodRecords
<1>3. /\ GoodRecords(patched, n) /\ DOMAIN patched = DOMAIN recs
      /\ \A i \in DOMAIN recs : patched[i].id = recs[i].id
                              /\ (recs[i].id = r => patched[i].status = "completed")
  BY <1>2, PatchedRecords
<1> HIDE DEF block, patched
<1>4. patched # <<>>
  BY <1>2, <1>3
<1>5. MetricsAreOfNewest(block, patched)
  BY <1>1, <1>2, <1>3, <1>4 DEF MetricsAreOfNewest
<1> QED
  BY <1>1, <1>3, <1>5 DEF Tidy, block, patched

LEMMA TidyBest ==
    ASSUME NEW b, NEW recs, NEW n \in Nat, Tidy(b, recs, n), NEW r \in Nat, NEW marked,
           marked = [i \in DOMAIN recs |-> [recs[i] EXCEPT !.best = (recs[i].id = r)]]
    PROVE  /\ Tidy(b, marked, n) /\ DOMAIN marked = DOMAIN recs
           /\ \A i \in DOMAIN recs : marked[i].id = recs[i].id
<1>1. recs \in Seq(RunRecords)
  BY DEF Tidy, GoodRecords
<1>2. \A i \in DOMAIN recs : /\ marked[i] \in RunRecords /\ marked[i].id = recs[i].id
                             /\ marked[i].best <=> recs[i].id = r
                             /\ marked[i].status = recs[i].status
  <2> SUFFICES ASSUME NEW i \in DOMAIN recs
               PROVE  /\ marked[i] \in RunRecords /\ marked[i].id = recs[i].id
                      /\ marked[i].best <=> recs[i].id = r
                      /\ marked[i].status = recs[i].status
    OBVIOUS
  <2>1. recs[i] \in RunRecords /\ marked[i] = [recs[i] EXCEPT !.best = (recs[i].id = r)]
    BY <1>1
  <2> QED
    BY <2>1 DEF RunRecords
<1>3. DOMAIN marked = DOMAIN recs /\ marked \in Seq(RunRecords)
  <2>1. DOMAIN recs = 1 .. Len(recs) /\ Len(recs) \in Nat
    BY <1>1
  <2>2. marked \in [1 .. Len(recs) -> RunRecords]
    BY <1>2, <2>1
  <2> QED
    BY <2>1, <2>2
<1>4. recs # <<>> => marked # <<>> /\ 1 \in DOMAIN recs
  BY <1>1, <1>3
<1>5. GoodRecords(marked, n)
  <2>1. GoodRecords(recs, n)
    BY DEF Tidy
  <2>2. \A i, j \in DOMAIN recs : marked[i].best /\ marked[j].best => i = j
    BY <1>2, <2>1, Zenon DEF GoodRecords
  <2>3. /\ \A i \in DOMAIN recs : marked[i].id <= n
        /\ \A i, j \in DOMAIN recs : marked[i].id = marked[j].id => i = j
    BY <1>2, <2>1, Zenon DEF GoodRecords
  <2> QED
    BY <1>3, <2>2, <2>3 DEF GoodRecords
<1>6. MetricsAreOfNewest(b, marked)
  BY <1>2, <1>3, <1>4 DEF MetricsAreOfNewest, Tidy
<1> QED
  BY <1>2, <1>3, <1>5, <1>6 DEF Tidy

\* The records are good also under a loop the notebook was reset under.
LEMMA CanvasRecords ==
    ASSUME CanvasInv, CanvasRunNext \/ UNCHANGED canvasRunVars
    PROVE  /\ canvasStarts' \in Nat
           /\ GoodRecords(records', canvasStarts') /\ GoodRecords(keptCanvas'[2], canvasStarts')
<1>1. /\ canvasStarts \in Nat
      /\ GoodRecords(records, canvasStarts) /\ GoodRecords(keptCanvas[2], canvasStarts)
  BY DEF CanvasInv
<1>2. \A recs : GoodRecords(recs, canvasStarts) <=> Tidy(FreshBlock, recs, canvasStarts)
  BY <1>1, FreshIsTidy DEF Tidy, MetricsAreOfNewest, FreshBlock
<1>3. CASE StartRun
  <2>1. canvasStarts' = canvasStarts + 1 /\ records' = AddRun(records, canvasStarts + 1)
        /\ keptCanvas' = keptCanvas
    BY <1>3 DEF StartRun
  <2>2. GoodRecords(AddRun(records, canvasStarts + 1), canvasStarts + 1)
    BY <1>1, TidyStart DEF Tidy
  <2>3. GoodRecords(keptCanvas[2], canvasStarts + 1)
    BY <1>1, <1>2, TidyLater DEF Tidy
  <2> QED
    BY <1>1, <2>1, <2>2, <2>3
<1>4. ASSUME NEW l \in loops, Completes(l)
      PROVE  /\ GoodRecords(records', canvasStarts) /\ UNCHANGED <<keptCanvas, canvasStarts>>
  BY <1>1, <1>4, PatchedRecords DEF Completes
<1>5. CASE ResetCanvas
  <2>1. records' = <<>> /\ keptCanvas'[2] = <<>> /\ canvasStarts' = canvasStarts
    BY <1>5 DEF ResetCanvas
  <2>2. GoodRecords(<<>>, canvasStarts)
    BY <1>1, FreshIsTidy DEF Tidy
  <2> QED
    BY <1>1, <2>1, <2>2
<1>6. ASSUME NEW r \in 1 .. MaxCanvasRuns, MarkBest(r)
      PROVE  GoodRecords(records', canvasStarts) /\ UNCHANGED <<keptCanvas, canvasStarts>>
  <2>1. /\ records' = [i \in DOMAIN records |-> [records[i] EXCEPT !.best = (records[i].id = r)]]
        /\ UNCHANGED <<keptCanvas, canvasStarts>>
    BY <1>6 DEF MarkBest
  <2>2. Tidy(FreshBlock, records', canvasStarts)
    BY <1>1, <1>2, <2>1, TidyBest
  <2> QED
    BY <2>1, <2>2 DEF Tidy
<1>7. CASE CanvasSaved \/ ReturnToCanvas
  BY <1>1, <1>7 DEF CanvasSaved, ReturnToCanvas, canvasData
<1>8. CASE CancelRun \/ LeaveCanvas \/ UNCHANGED canvasRunVars
  BY <1>1, <1>8 DEF CancelRun, LeaveCanvas, canvasRunVars, canvasData
<1>9. ASSUME NEW l \in loops, StopsQuietly(l) \/ NextPhase(l)
      PROVE  UNCHANGED <<records, keptCanvas, canvasStarts>>
  BY <1>9 DEF StopsQuietly, NextPhase, canvasData
<1>10. ASSUME NEW r \in 1 .. MaxCanvasRuns, NEW s \in {"A", "B"}, PickForSlot(s, r)
       PROVE  UNCHANGED <<records, keptCanvas, canvasStarts>>
  BY <1>10 DEF PickForSlot
<1> QED
  BY <1>1, <1>3, <1>4, <1>5, <1>6, <1>7, <1>8, <1>9, <1>10 DEF CanvasRunNext

LEMMA CanvasInvStep ==
    ASSUME CanvasInv, CanvasRunNext \/ UNCHANGED canvasRunVars
    PROVE  CanvasInv'
<1> SUFFICES ASSUME ~astray'
             PROVE  /\ LoopsFit' /\ Tidy(runBlock', records', canvasStarts')
                    /\ Tidy(keptCanvas'[1], keptCanvas'[2], canvasStarts')
  BY CanvasRecords DEF CanvasInv
<1>1. ~astray
  BY DEF CanvasRunNext, StartRun, CancelRun, ResetCanvas, CanvasSaved, LeaveCanvas, ReturnToCanvas,
         StopsQuietly, NextPhase, Completes, MarkBest, PickForSlot, canvasRunVars
<1>2. /\ canvasStarts \in Nat /\ LoopsFit /\ Tidy(runBlock, records, canvasStarts)
      /\ Tidy(keptCanvas[1], keptCanvas[2], canvasStarts)
  BY <1>1 DEF CanvasInv
<1>3. CASE StartRun
  <2> DEFINE r == canvasStarts + 1
             new == [id |-> r, at |-> 1, cancelled |-> FALSE]
             block == [stage |-> 1, of |-> r, metrics |-> NoRun]
  <2>1. /\ canvasOpen /\ runBlock.stage \in Resting /\ runBlock' = block /\ loops' = loops \cup {new}
        /\ canvasAbort' = r /\ records' = AddRun(records, r) /\ canvasStarts' = r
        /\ UNCHANGED <<canvasOpen, keptCanvas>>
    BY <1>3 DEF StartRun
  <2>2. \A l \in loops : l.cancelled
    BY <1>2, <2>1, CanvasRunAssumption DEF LoopsFit, Drives, RunLoops, Resting, Idle, Completed
  <2>3. Tidy(block, records', r) /\ records' # <<>> /\ records'[1].id = r
    BY <1>2, <2>1, TidyStart DEF Tidy
  <2>4. Tidy(keptCanvas[1], keptCanvas[2], r)
    BY <1>2, TidyLater
  <2>5. new \in RunLoops /\ new.id = r /\ new.at = 1 /\ block.stage = 1 /\ block.of = r /\ r \in Nat
    BY <1>2, CanvasRunAssumption DEF RunLoops
  <2> HIDE DEF r, new, block
  <2>6. LoopsFit'
    BY <1>2, <2>1, <2>2, <2>3, <2>5 DEF LoopsFit, Drives
  <2> QED
    BY <2>1, <2>3, <2>4, <2>5, <2>6
<1>4. ASSUME NEW l \in loops, StopsQuietly(l)
      PROVE  LoopsFit' /\ UNCHANGED <<runBlock, records, keptCanvas, canvasStarts>>
  BY <1>2, <1>4 DEF StopsQuietly, LoopsFit, Drives, canvasData
<1>5. ASSUME NEW l \in loops, NextPhase(l)
      PROVE  /\ LoopsFit' /\ UNCHANGED <<records, keptCanvas, canvasStarts>>
             /\ Tidy(runBlock', records', canvasStarts')
  <2> DEFINE next == [l EXCEPT !.at = @ + 1]
             block == [runBlock EXCEPT !.stage = l.at + 1]
  <2>1. /\ ~l.cancelled /\ l.at < PhaseCount /\ loops' = (loops \ {l}) \cup {next}
        /\ runBlock' = block /\ UNCHANGED <<canvasOpen, records, canvasAbort, keptCanvas, canvasStarts>>
    BY <1>5 DEF NextPhase
  <2>2. l \in RunLoops /\ Drives(l) /\ \A k \in loops \ {l} : k.cancelled
    BY <1>2, <2>1 DEF LoopsFit
  <2>3. next \in RunLoops /\ next.id = l.id /\ next.at = l.at + 1 /\ l.at + 1 \in 0 .. PhaseCount
    BY <2>1, <2>2, CanvasRunAssumption DEF RunLoops
  <2>4. block \in RunBlocks /\ block.stage = l.at + 1 /\ block.of = runBlock.of
        /\ block.metrics = runBlock.metrics
    BY <1>2, <2>3, CanvasRunAssumption DEF Tidy, RunBlocks
  <2>5. runBlock.metrics = NoRun
    BY <1>2, <2>2, CanvasRunAssumption DEF Tidy, MetricsAreOfNewest, Drives, RunLoops, Completed
  <2> HIDE DEF next, block
  <2>6. LoopsFit'
    BY <1>2, <2>1, <2>2, <2>3, <2>4 DEF LoopsFit, Drives
  <2>7. Tidy(block, records, canvasStarts)
    BY <1>2, <2>4, <2>5 DEF Tidy, MetricsAreOfNewest
  <2> QED
    BY <2>1, <2>6, <2>7
<1>6. ASSUME NEW l \in loops, Completes(l)
      PROVE  /\ LoopsFit' /\ UNCHANGED <<keptCanvas, canvasStarts>>
             /\ Tidy(runBlock', records', canvasStarts')
  <2>1. /\ ~l.cancelled /\ loops' = loops \ {l} /\ UNCHANGED <<canvasOpen, keptCanvas, canvasStarts>>
        /\ runBlock' = [runBlock EXCEPT !.stage = Completed, !.metrics = l.id]
        /\ records' = PatchRun(records, l.id, "completed")
    BY <1>6 DEF Completes
  <2>2. l.id \in Nat /\ Drives(l) /\ \A k \in loops \ {l} : k.cancelled
    BY <1>2, <2>1 DEF LoopsFit, RunLoops
  <2>3. Tidy(runBlock', records', canvasStarts)
    BY <1>2, <2>1, <2>2, TidyCompletes DEF Drives
  <2>4. LoopsFit'
    BY <1>2, <2>1, <2>2 DEF LoopsFit
  <2> QED
    BY <2>1, <2>3, <2>4
<1>7. CASE CancelRun
  <2> DEFINE block == [runBlock EXCEPT !.stage = Idle]
  <2>1. /\ canvasOpen /\ runBlock.stage \notin Resting /\ loops' = CancelToken /\ runBlock' = block
        /\ UNCHANGED <<canvasOpen, records, keptCanvas, canvasStarts>>
    BY <1>7 DEF CancelRun
  <2>2. \A l \in loops' : l \in RunLoops /\ l.cancelled
    <3>1. \A l \in loops : ~l.cancelled => l.id = canvasAbort
      BY <1>2 DEF LoopsFit, Drives
    <3>2. \A l \in loops : l \in RunLoops
      BY <1>2 DEF LoopsFit
    <3>3. \A l \in RunLoops : [l EXCEPT !.cancelled = TRUE] \in RunLoops /\ [l EXCEPT !.cancelled = TRUE].cancelled
      BY DEF RunLoops
    <3>4. \A k \in loops' : \E l \in loops : k = IF l.id = canvasAbort THEN [l EXCEPT !.cancelled = TRUE] ELSE l
      BY <2>1 DEF CancelToken
    <3>5. ASSUME NEW l \in loops,
                 NEW k, k = IF l.id = canvasAbort THEN [l EXCEPT !.cancelled = TRUE] ELSE l
          PROVE  k \in RunLoops /\ k.cancelled
      <4>1. CASE l.id = canvasAbort
        BY <3>2, <3>3, <3>5, <4>1, Zenon
      <4>2. CASE l.id # canvasAbort
        BY <3>1, <3>2, <3>5, <4>2, Zenon
      <4> QED
        BY <4>1, <4>2
    <3> QED
      BY <3>4, <3>5
  <2>3. block \in RunBlocks /\ block.metrics = runBlock.metrics /\ runBlock.metrics = NoRun
    BY <1>2, <2>1, CanvasRunAssumption DEF Tidy, RunBlocks, MetricsAreOfNewest, Idle, Resting
  <2> HIDE DEF block
  <2>4. Tidy(block, records, canvasStarts)
    BY <1>2, <2>3 DEF Tidy, MetricsAreOfNewest
  <2>5. LoopsFit'
    BY <2>1, <2>2 DEF LoopsFit
  <2> QED
    BY <1>2, <2>1, <2>4, <2>5
<1>8. CASE ResetCanvas
  <2>1. /\ runBlock' = FreshBlock /\ records' = <<>> /\ keptCanvas'[1] = FreshBlock /\ keptCanvas'[2] = <<>>
        /\ canvasOpen /\ UNCHANGED <<canvasOpen, loops, canvasStarts>>
        /\ \A l \in loops : l.cancelled
    BY <1>8 DEF ResetCanvas
  <2>2. LoopsFit'
    BY <1>2, <2>1 DEF LoopsFit
  <2>3. Tidy(FreshBlock, <<>>, canvasStarts)
    BY <1>2, FreshIsTidy
  <2> QED
    BY <1>2, <2>1, <2>2, <2>3
<1>9. CASE CanvasSaved
  <2>1. /\ keptCanvas'[1] = runBlock /\ keptCanvas'[2] = records
        /\ UNCHANGED <<canvasOpen, runBlock, records, loops, canvasAbort, canvasStarts>>
    BY <1>9 DEF CanvasSaved, canvasData
  <2> QED
    BY <1>2, <2>1 DEF LoopsFit, Drives
<1>10. CASE LeaveCanvas
  <2>1. loops' = {} /\ UNCHANGED <<runBlock, records, keptCanvas, canvasStarts>>
    BY <1>10 DEF LeaveCanvas, canvasData
  <2> QED
    BY <1>2, <2>1 DEF LoopsFit
<1>11. CASE ReturnToCanvas
  <2>1. /\ ~canvasOpen /\ canvasOpen' = TRUE /\ runBlock' = keptCanvas[1] /\ records' = keptCanvas[2]
        /\ UNCHANGED <<loops, keptCanvas, canvasStarts>>
    BY <1>11 DEF ReturnToCanvas
  <2> QED
    BY <1>2, <2>1 DEF LoopsFit
<1>12. ASSUME NEW r \in 1 .. MaxCanvasRuns, MarkBest(r)
       PROVE  /\ LoopsFit' /\ UNCHANGED <<runBlock, keptCanvas, canvasStarts>>
              /\ Tidy(runBlock', records', canvasStarts')
  <2>1. /\ records' = [i \in DOMAIN records |-> [records[i] EXCEPT !.best = (records[i].id = r)]]
        /\ UNCHANGED <<canvasOpen, runBlock, loops, canvasAbort, keptCanvas, canvasStarts>>
    BY <1>12 DEF MarkBest
  <2>2. /\ Tidy(runBlock, records', canvasStarts) /\ DOMAIN records' = DOMAIN records
        /\ \A i \in DOMAIN records : records'[i].id = records[i].id
    BY <1>2, <2>1, TidyBest
  <2>3. \A l \in loops : Drives(l) => Drives(l)'
    <3>1. records \in Seq(RunRecords) /\ records' \in Seq(RunRecords)
      BY <1>2, <2>2 DEF Tidy, GoodRecords
    <3> QED
      BY <2>1, <2>2, <3>1 DEF Drives
  <2> QED
    BY <1>2, <2>1, <2>2, <2>3 DEF LoopsFit
<1>13. ASSUME NEW r \in 1 .. MaxCanvasRuns, NEW s \in {"A", "B"}, PickForSlot(s, r)
       PROVE  LoopsFit' /\ UNCHANGED <<runBlock, records, keptCanvas, canvasStarts>>
  BY <1>2, <1>13 DEF PickForSlot, LoopsFit, Drives
<1>14. CASE UNCHANGED canvasRunVars
  BY <1>2, <1>14 DEF canvasRunVars, canvasData, LoopsFit, Drives
<1> QED
  BY <1>2, <1>3, <1>4, <1>5, <1>6, <1>7, <1>8, <1>9, <1>10, <1>11, <1>12, <1>13, <1>14
  DEF CanvasRunNext

LEMMA CanvasSound == ASSUME CanvasInv PROVE BlockShowsItsRun
<1>1. \A i, j \in DOMAIN records : records[i].best /\ records[j].best => i = j
  BY DEF CanvasInv, GoodRecords
<1>2. ASSUME ~astray
      PROVE  /\ \A l, m \in loops : ~l.cancelled /\ ~m.cancelled => l = m
             /\ \A l \in loops : ~l.cancelled =>
                    canvasAbort = l.id /\ runBlock.of = l.id /\ runBlock.stage = l.at
             /\ runBlock.metrics # NoRun =>
                    /\ runBlock.metrics = records[1].id /\ HasMetrics(runBlock.metrics)
                    /\ runBlock.stage = Completed
  <2>1. LoopsFit /\ Tidy(runBlock, records, canvasStarts)
    BY <1>2 DEF CanvasInv
  <2>2. records # <<>> => 1 \in DOMAIN records
    BY <2>1 DEF Tidy, GoodRecords
  <2>3. /\ \A l, m \in loops : ~l.cancelled /\ ~m.cancelled => l = m
        /\ \A l \in loops : ~l.cancelled =>
               canvasAbort = l.id /\ runBlock.of = l.id /\ runBlock.stage = l.at
    BY <2>1 DEF LoopsFit, Drives
  <2> QED
    BY <2>1, <2>2, <2>3 DEF Tidy, MetricsAreOfNewest, HasMetrics
<1> QED
  BY <1>1, <1>2 DEF BlockShowsItsRun

-----------------------------------------------------------------------------
(* The blocks of the canvas.                                               *)

\* Unless a block was folded under its request: one request for each block,
\* which its buttons know of, and one for data was asked with the warnings there are.
BlocksInv ==
    /\ numbered \in Nat /\ DOMAIN busyId = CanvasBlocks /\ \A q \in underWay : q.block \in CanvasBlocks
    /\ ~refolded =>
          /\ warnings = concerned
          /\ \A p, q \in underWay : p.block = q.block => p = q
          /\ \A b \in CanvasBlocks : busyId[b] # NoAction <=> \E q \in underWay : q.block = b
          /\ \A q \in underWay : q.block = "data" => q.warnings = warnings

LEMMA BlocksInvInit == ASSUME BlocksInit PROVE BlocksInv
BY DEF BlocksInit, BlocksInv

LEMMA BlocksInvStep ==
    ASSUME BlocksInv, BlocksNext \/ UNCHANGED blockVars
    PROVE  BlocksInv'
<1>1. ASSUME UNCHANGED <<busyId, underWay, warnings, numbered, concerned, refolded>>
      PROVE  BlocksInv'
  BY <1>1 DEF BlocksInv
<1>2. ASSUME NEW f \in EditedFields, FillField(f) PROVE BlocksInv'
  BY <1>1, <1>2 DEF FillField
<1>3. CASE SwitchRag
  BY <1>1, <1>3 DEF SwitchRag
<1>4. ASSUME NEW b \in AssistedBlocks, ToggleBlock(b) PROVE BlocksInv'
  <2>1. /\ busyId' = [busyId EXCEPT ![b] = NoAction] /\ UNCHANGED <<underWay, warnings, numbered, concerned>>
        /\ refolded' = (refolded \/ \E q \in underWay : q.block = b)
    BY <1>4 DEF ToggleBlock
  <2> QED
    BY <2>1, AgentsAssumption DEF BlocksInv
<1>5. ASSUME NEW b \in AssistedBlocks, NEW id \in DOMAIN ActionsOfBlock(b), Execute(b, id)
      PROVE  BlocksInv'
  <2> DEFINE new == [number |-> numbered + 1, block |-> b, request |-> Request(b, id), warnings |-> warnings]
  <2>1. /\ busyId[b] = NoAction /\ numbered' = numbered + 1 /\ busyId' = [busyId EXCEPT ![b] = id]
        /\ underWay' = underWay \cup {new} /\ UNCHANGED <<warnings, concerned, refolded>>
    BY <1>5 DEF Execute, ActionAllowed
  <2>2. new.block = b /\ new.warnings = warnings
    OBVIOUS
  <2>3. b \in CanvasBlocks /\ id # NoAction
    BY AgentsAssumption
  <2> HIDE DEF new
  <2>4. numbered' \in Nat /\ DOMAIN busyId' = CanvasBlocks /\ \A q \in underWay' : q.block \in CanvasBlocks
    BY <2>1, <2>2, <2>3 DEF BlocksInv
  <2>5. ASSUME ~refolded
        PROVE  /\ \A p, q \in underWay' : p.block = q.block => p = q
               /\ \A d \in CanvasBlocks : busyId'[d] # NoAction <=> \E q \in underWay' : q.block = d
               /\ \A q \in underWay' : q.block = "data" => q.warnings = warnings
    BY <2>1, <2>2, <2>3, <2>5 DEF BlocksInv
  <2> QED
    BY <2>1, <2>4, <2>5 DEF BlocksInv
<1>6. ASSUME NEW q \in underWay, AgentFails(q) PROVE BlocksInv'
  <2>1. /\ underWay' = underWay \ {q} /\ busyId' = [busyId EXCEPT ![q.block] = NoAction]
        /\ UNCHANGED <<warnings, numbered, concerned, refolded>>
    BY <1>6 DEF AgentFails
  <2> QED
    BY <2>1 DEF BlocksInv
<1>7. ASSUME NEW q \in underWay, NEW fields \in Outputs, AgentAnswers(q, fields) PROVE BlocksInv'
  <2>1. /\ underWay' = underWay \ {q} /\ busyId' = [busyId EXCEPT ![q.block] = NoAction]
        /\ UNCHANGED <<numbered, refolded>>
        /\ warnings' = WarningsAfter(q, fields)
        /\ concerned' = IF q.block = "data" /\ "data_quality_concerns" \in fields THEN q.number ELSE concerned
    BY <1>7 DEF AgentAnswers
  <2>2. CASE q.block # "data"
    <3>1. warnings' = warnings /\ concerned' = concerned
      BY <2>1, <2>2 DEF WarningsAfter
    <3> QED
      BY <2>1, <3>1 DEF BlocksInv
  <2>3. CASE q.block = "data" /\ "data_quality_concerns" \in fields
    <3>1. warnings' = q.number /\ concerned' = q.number
      BY <2>1, <2>3 DEF WarningsAfter
    <3> QED
      BY <2>1, <2>3, <3>1 DEF BlocksInv
  <2>4. CASE q.block = "data" /\ "data_quality_concerns" \notin fields
    <3>1. warnings' = q.warnings /\ concerned' = concerned
      BY <2>1, <2>4 DEF WarningsAfter
    <3> QED
      BY <2>1, <2>4, <3>1 DEF BlocksInv
  <2> QED
    BY <2>2, <2>3, <2>4
<1>8. CASE UNCHANGED blockVars
  BY <1>1, <1>8 DEF blockVars
<1> QED
  BY <1>2, <1>3, <1>4, <1>5, <1>6, <1>7, <1>8 DEF BlocksNext

-----------------------------------------------------------------------------
(* The free cells of the canvas.                                           *)

DynRecords ==
    [type : {"prompt", "markdown", "code"}, text : BOOLEAN,
     status : {"idle", "running", "completed", "failed"}, output : {"none", "preview", "stub", "agent"}]
DynPrompts == [cell : DynCells, visit : Nat]

DynOut(c) == \E q \in dynAsked : q.cell = c /\ q.visit = dynVisit

DynShape ==
    /\ dynOrder \in Seq(DynCells) /\ Apart(dynOrder) /\ ToSet(dynOrder) \subseteq dynMade
    /\ dynCell \in [DynCells -> DynRecords] /\ dynVisit \in Nat /\ dynAsked \subseteq DynPrompts
    /\ \A q \in dynAsked : q.cell \in dynMade /\ q.visit <= dynVisit

\* The component of a cell on the page knows of its prompt.
DynInv ==
    /\ DynShape
    /\ \A c \in ToSet(dynOrder) : DynOut(c) => c \in dynBusy
    /\ \A c \in ToSet(dynOrder) \ dynRestored : dynCell[c].status = "running" <=> DynOut(c)

LEMMA DynFields ==
    ASSUME NEW d \in DynRecords
    PROVE  /\ [d EXCEPT !.text = ~@] \in DynRecords /\ [d EXCEPT !.text = ~@].status = d.status
           /\ \A st \in {"idle", "running", "completed", "failed"} :
                 [d EXCEPT !.status = st] \in DynRecords /\ [d EXCEPT !.status = st].status = st
           /\ \A o \in {"none", "preview", "stub", "agent"} :
                 [d EXCEPT !.output = o] \in DynRecords /\ [d EXCEPT !.output = o].status = d.status
           /\ d.output \in {"none", "preview", "stub", "agent"}
BY DEF DynRecords

LEMMA DynInvInit == ASSUME CellsInit PROVE DynInv
<1>1. /\ dynOrder = <<>> /\ dynAsked = {} /\ dynVisit = 1
      /\ dynCell = [c \in DynCells |-> [type |-> "prompt", text |-> TRUE, status |-> "idle", output |-> "none"]]
  BY DEF CellsInit
<1>2. ToSet(<<>>) = {} /\ Apart(<<>>) /\ <<>> \in Seq(DynCells)
  BY EmptySeq DEF ToSet, Apart
<1>3. dynCell \in [DynCells -> DynRecords]
  BY <1>1 DEF DynRecords
<1> QED
  BY <1>1, <1>2, <1>3 DEF DynInv, DynShape

LEMMA DynInvStep ==
    ASSUME DynInv, CellsNext \/ UNCHANGED dynVars
    PROVE  DynInv'
<1>0. DynShape
  BY DEF DynInv
<1>1. ASSUME UNCHANGED <<dynMade, dynBusy, dynAsked, dynVisit, dynRestored>>,
             dynOrder' \in Seq(DynCells), Apart(dynOrder)', ToSet(dynOrder') = ToSet(dynOrder),
             dynCell' \in [DynCells -> DynRecords],
             \A c \in DynCells : dynCell'[c].status = dynCell[c].status
      PROVE  DynInv'
  <2>1. \A c \in ToSet(dynOrder) : c \in DynCells
    BY <1>0 DEF DynShape, ToSet
  <2> QED
    BY <1>1, <2>1 DEF DynInv, DynShape, DynOut
<1>2. ASSUME NEW c \in DynCells, NEW type \in {"prompt", "markdown", "code"}, AddDynCell(c, type)
      PROVE  DynInv'
  <2> DEFINE new == [type |-> type, text |-> TRUE, status |-> "idle", output |-> "none"]
  <2>1. /\ c \notin dynMade /\ dynMade' = dynMade \cup {c} /\ dynOrder' = Append(dynOrder, c)
        /\ dynCell' = [dynCell EXCEPT ![c] = new]
        /\ UNCHANGED <<dynBusy, dynAsked, dynVisit, dynRestored>>
    BY <1>2 DEF AddDynCell
  <2>2. new \in DynRecords /\ new.status = "idle"
    BY DEF DynRecords
  <2> HIDE DEF new
  <2>3. /\ dynOrder' \in Seq(DynCells) /\ ToSet(dynOrder') = ToSet(dynOrder) \cup {c}
        /\ Apart(dynOrder')
    BY <1>0, <2>1, AppendApart DEF DynShape
  <2>4. ~DynOut(c) /\ \A d : DynOut(d)' <=> DynOut(d)
    BY <1>0, <2>1 DEF DynShape, DynOut
  <2>5. /\ dynCell' \in [DynCells -> DynRecords] /\ dynCell'[c].status = "idle"
        /\ \A d \in DynCells \ {c} : dynCell'[d] = dynCell[d]
    BY <1>0, <2>1, <2>2 DEF DynShape
  <2>6. DynShape'
    BY <1>0, <2>1, <2>3, <2>5 DEF DynShape, Apart
  <2>7. \A d \in ToSet(dynOrder) : d \in DynCells
    BY <1>0 DEF DynShape, ToSet
  <2> QED
    BY <2>1, <2>3, <2>4, <2>5, <2>6, <2>7 DEF DynInv
<1>3. ASSUME NEW c \in DynCells, EditDynCell(c) PROVE DynInv'
  <2>1. /\ dynCell' = [dynCell EXCEPT ![c].text = ~@]
        /\ UNCHANGED <<dynMade, dynOrder, dynBusy, dynAsked, dynVisit, dynRestored>>
    BY <1>3 DEF EditDynCell
  <2>2. dynCell[c] \in DynRecords /\ dynCell' = [dynCell EXCEPT ![c] = [dynCell[c] EXCEPT !.text = ~@]]
    BY <1>0, <2>1 DEF DynShape
  <2>3. /\ dynCell' \in [DynCells -> DynRecords]
        /\ \A d \in DynCells : dynCell'[d].status = dynCell[d].status
    <3> DEFINE edited == [dynCell[c] EXCEPT !.text = ~@]
    <3>1. edited \in DynRecords /\ edited.status = dynCell[c].status
      BY <2>2, DynFields
    <3> HIDE DEF edited
    <3>2. dynCell' = [dynCell EXCEPT ![c] = edited]
      BY <2>2 DEF edited
    <3> QED
      BY <1>0, <3>1, <3>2 DEF DynShape
  <2> QED
    BY <1>0, <1>1, <2>1, <2>3 DEF DynShape, Apart
<1>4. ASSUME NEW i \in 1 .. Cardinality(DynCells), MoveDynCell(i) PROVE DynInv'
  <2>1. /\ i \in 1 .. Len(dynOrder) - 1
        /\ dynOrder' = [dynOrder EXCEPT ![i] = dynOrder[i + 1], ![i + 1] = dynOrder[i]]
        /\ UNCHANGED <<dynMade, dynCell, dynBusy, dynAsked, dynVisit, dynRestored>>
    BY <1>4 DEF MoveDynCell
  <2> DEFINE j == i + 1
  <2>2. dynOrder \in Seq(DynCells) /\ i \in DOMAIN dynOrder /\ j \in DOMAIN dynOrder
    BY <1>0, <2>1 DEF DynShape
  <2>3. dynOrder' \in Seq(DynCells) /\ ToSet(dynOrder') = ToSet(dynOrder) /\ Apart(dynOrder')
    <3>1. Apart(dynOrder) /\ dynOrder' = Swapped(dynOrder, i, j)
      BY <1>0, <2>1 DEF DynShape, Swapped
    <3> HIDE DEF j
    <3> QED
      BY <2>2, <3>1, SwapApart
  <2> QED
    BY <1>0, <1>1, <2>1, <2>3 DEF DynShape, Apart
<1>5. ASSUME NEW c \in DynCells, RemoveDynCell(c) PROVE DynInv'
  <2>1. PICK i \in DOMAIN dynOrder : dynOrder[i] = c /\ dynOrder' = RemoveAt(dynOrder, i)
    BY <1>5 DEF RemoveDynCell
  <2>2. dynBusy' = dynBusy \ {c} /\ UNCHANGED <<dynMade, dynCell, dynAsked, dynVisit, dynRestored>>
    BY <1>5 DEF RemoveDynCell
  <2>3. dynOrder \in Seq(DynCells) /\ Apart(dynOrder)
    BY <1>0 DEF DynShape
  <2>4. Apart(dynOrder') /\ ToSet(dynOrder') = ToSet(dynOrder) \ {c} /\ dynOrder' \in Seq(DynCells)
    BY <2>1, <2>3, RemoveAtApart, RemoveAtLeaves
  <2>5. DynShape'
    BY <1>0, <2>2, <2>4 DEF DynShape, Apart
  <2> QED
    BY <2>2, <2>4, <2>5 DEF DynInv, DynOut
<1>6. ASSUME NEW c \in DynCells, RunDynCell(c) PROVE DynInv'
  <2>1. /\ c \in ToSet(dynOrder) \ dynBusy /\ dynRestored' = dynRestored \ {c}
        /\ UNCHANGED <<dynMade, dynOrder, dynVisit>>
    BY <1>6 DEF RunDynCell
  <2>2. dynCell[c] \in DynRecords /\ ~DynOut(c)
    BY <1>0, <2>1 DEF DynInv, DynShape
  <2>3. \A d \in ToSet(dynOrder) : d \in DynCells
    BY <1>0 DEF DynShape, ToSet
  <2>4. CASE dynCell[c].type = "prompt" /\ dynCell[c].text
    <3> DEFINE ran == [dynCell[c] EXCEPT !.status = "running"]
               new == [cell |-> c, visit |-> dynVisit]
    <3>1. dynCell' = [dynCell EXCEPT ![c] = ran] /\ dynBusy' = dynBusy \cup {c} /\ dynAsked' = dynAsked \cup {new}
      BY <1>0, <1>6, <2>4 DEF RunDynCell, DynShape
    <3>2. ran \in DynRecords /\ ran.status = "running"
      BY <2>2, DynFields
    <3>3. new \in DynPrompts /\ new.cell = c /\ new.visit = dynVisit
      BY <1>0 DEF DynPrompts, DynShape
    <3> HIDE DEF ran, new
    <3>4. /\ dynCell' \in [DynCells -> DynRecords] /\ dynCell'[c].status = "running"
          /\ \A d \in DynCells \ {c} : dynCell'[d] = dynCell[d]
      BY <1>0, <3>1, <3>2 DEF DynShape
    <3>5. DynOut(c)' /\ \A d \in DynCells \ {c} : DynOut(d)' <=> DynOut(d)
      BY <2>1, <3>1, <3>3 DEF DynOut
    <3>6. DynShape'
      BY <1>0, <2>1, <3>1, <3>3, <3>4 DEF DynShape, Apart
    <3> QED
      BY <2>1, <2>3, <3>1, <3>4, <3>5, <3>6 DEF DynInv
  <2>5. CASE ~(dynCell[c].type = "prompt" /\ dynCell[c].text)
    <3> DEFINE final == IF dynCell[c].type = "prompt" THEN "failed" ELSE "completed"
               out == CASE dynCell[c].type = "markdown" -> "preview" [] dynCell[c].type = "code" -> "stub"
                        [] OTHER -> dynCell[c].output
               ended == [dynCell[c] EXCEPT !.status = final]
               became == [ended EXCEPT !.output = out]
    <3>1. UNCHANGED <<dynBusy, dynAsked>>
          /\ dynCell' = [dynCell EXCEPT
                   ![c].status = IF dynCell[c].type = "prompt" THEN "failed" ELSE "completed",
                   ![c].output = CASE dynCell[c].type = "markdown" -> "preview"
                                   [] dynCell[c].type = "code" -> "stub" [] OTHER -> @]
      BY <1>6, <2>5 DEF RunDynCell
    <3>2. /\ final \in {"idle", "running", "completed", "failed"} /\ final # "running"
          /\ out \in {"none", "preview", "stub", "agent"}
      BY <2>2, DynFields
    <3>3. dynCell' = [dynCell EXCEPT ![c] = became]
      BY <1>0, <2>2, <3>1 DEF DynShape, DynRecords
    <3> HIDE DEF final, out
    <3>4. ended \in DynRecords /\ ended.status = final
      BY <2>2, <3>2 DEF DynRecords
    <3> HIDE DEF ended
    <3>5. became \in DynRecords /\ became.status = final
      BY <3>2, <3>4, DynFields
    <3> HIDE DEF became
    <3>6. /\ dynCell' \in [DynCells -> DynRecords] /\ dynCell'[c].status # "running"
          /\ \A d \in DynCells \ {c} : dynCell'[d] = dynCell[d]
      BY <1>0, <3>2, <3>3, <3>5 DEF DynShape
    <3>7. \A d \in DynCells : DynOut(d)' <=> DynOut(d)
      BY <2>1, <3>1 DEF DynOut
    <3>8. DynShape'
      BY <1>0, <2>1, <3>1, <3>6 DEF DynShape, Apart
    <3> QED
      BY <2>1, <2>2, <2>3, <3>1, <3>6, <3>7, <3>8 DEF DynInv
  <2> QED
    BY <2>4, <2>5
<1>7. ASSUME NEW q \in dynAsked, NEW ok \in BOOLEAN, DynAnswers(q, ok) PROVE DynInv'
  <2>1. dynAsked' = dynAsked \ {q} /\ UNCHANGED <<dynMade, dynOrder, dynVisit, dynRestored>>
    BY <1>7 DEF DynAnswers
  <2>2. \A d \in ToSet(dynOrder) : d \in DynCells
    BY <1>0 DEF DynShape, ToSet
  <2>3. CASE ~(q.visit = dynVisit /\ q.cell \in ToSet(dynOrder))
    <3>1. UNCHANGED <<dynBusy, dynCell>>
      BY <1>7, <2>3 DEF DynAnswers
    <3>2. \A d \in ToSet(dynOrder) : DynOut(d)' <=> DynOut(d)
      BY <2>1, <2>3 DEF DynOut
    <3>3. DynShape'
      BY <1>0, <2>1, <3>1 DEF DynShape, Apart
    <3> QED
      BY <2>1, <3>1, <3>2, <3>3 DEF DynInv
  <2>4. CASE q.visit = dynVisit /\ q.cell \in ToSet(dynOrder)
    <3> DEFINE c == q.cell
               final == IF ok THEN "completed" ELSE "failed"
               out == IF ok THEN "agent" ELSE dynCell[c].output
               ended == [dynCell[c] EXCEPT !.status = final]
               became == [ended EXCEPT !.output = out]
    <3>1. /\ dynBusy' = dynBusy \ {c} /\ c \in DynCells /\ dynCell[c] \in DynRecords /\ c \in ToSet(dynOrder)
          /\ dynCell' = [dynCell EXCEPT ![c].status = IF ok THEN "completed" ELSE "failed",
                                        ![c].output = IF ok THEN "agent" ELSE @]
      BY <1>0, <1>7, <2>2, <2>4 DEF DynAnswers, DynShape
    <3>2. /\ final \in {"idle", "running", "completed", "failed"} /\ final # "running"
          /\ out \in {"none", "preview", "stub", "agent"}
      BY <3>1, DynFields
    <3>3. dynCell' = [dynCell EXCEPT ![c] = became]
      BY <1>0, <3>1 DEF DynShape, DynRecords
    <3>4. \A p \in dynAsked : p.cell = c /\ p.visit = dynVisit => p = q
      BY <1>0, <2>4 DEF DynShape, DynPrompts
    <3>5. c = q.cell
      OBVIOUS
    <3> HIDE DEF c, final, out
    <3>6. ended \in DynRecords /\ ended.status = final
      BY <3>1, <3>2 DEF DynRecords
    <3> HIDE DEF ended
    <3>7. became \in DynRecords /\ became.status = final
      BY <3>2, <3>6, DynFields
    <3> HIDE DEF became
    <3>8. /\ dynCell' \in [DynCells -> DynRecords] /\ dynCell'[c].status # "running"
          /\ \A d \in DynCells \ {c} : dynCell'[d] = dynCell[d]
      BY <1>0, <3>1, <3>2, <3>3, <3>7 DEF DynShape
    <3>9. ~DynOut(c)' /\ \A d \in DynCells \ {c} : DynOut(d)' <=> DynOut(d)
      BY <2>1, <3>4, <3>5 DEF DynOut
    <3>10. DynShape'
      BY <1>0, <2>1, <3>8 DEF DynShape, Apart
    <3> QED
      BY <2>1, <2>2, <3>1, <3>8, <3>9, <3>10 DEF DynInv
  <2> QED
    BY <2>3, <2>4
<1>8. CASE ReopenCells
  <2>1. /\ dynVisit' = dynVisit + 1 /\ dynRestored' = {c \in DynCells : dynCell[c].status = "running"}
        /\ UNCHANGED <<dynMade, dynOrder, dynCell, dynAsked>>
    BY <1>8 DEF ReopenCells
  <2>2. \A q \in dynAsked : q.visit \in Nat /\ q.visit <= dynVisit
    BY <1>0 DEF DynShape, DynPrompts
  <2>3. dynVisit \in Nat
    BY <1>0 DEF DynShape
  <2>4. \A q \in dynAsked : q.visit # dynVisit + 1 /\ q.visit <= dynVisit + 1
    BY <2>2, <2>3
  <2>5. \A d : ~DynOut(d)'
    BY <2>1, <2>4 DEF DynOut
  <2>6. \A d \in ToSet(dynOrder) : d \in DynCells
    BY <1>0 DEF DynShape, ToSet
  <2>7. DynShape'
    BY <1>0, <2>1, <2>3, <2>4 DEF DynShape, Apart
  <2> QED
    BY <2>1, <2>5, <2>6, <2>7 DEF DynInv
<1>9. CASE UNCHANGED dynVars
  BY <1>0, <1>9, <1>1 DEF dynVars, DynShape, Apart
<1> QED
  BY <1>2, <1>3, <1>4, <1>5, <1>6, <1>7, <1>8, <1>9 DEF CellsNext

LEMMA AgentsSound == BlocksInv /\ DynInv => AnswersInTheirPlace
<1> SUFFICES ASSUME BlocksInv, DynInv PROVE AnswersInTheirPlace
  OBVIOUS
<1>1. ASSUME ~refolded, NEW b \in CanvasBlocks
      PROVE  LET mine == {q \in underWay : q.block = b}
             IN  Cardinality(mine) <= 1 /\ (mine # {}) = (busyId[b] # NoAction)
  <2> DEFINE mine == {q \in underWay : q.block = b}
  <2>1. \A p, q \in mine : p = q
    BY <1>1 DEF BlocksInv
  <2>2. Cardinality(mine) \in {0, 1}
    BY <2>1, AtMostOne
  <2>3. mine # {} <=> busyId[b] # NoAction
    BY <1>1 DEF BlocksInv
  <2> QED
    BY <2>2, <2>3
<1>2. \A c \in ToSet(dynOrder) \ dynRestored :
          (dynCell[c].status = "running") = (\E q \in dynAsked : q.cell = c /\ q.visit = dynVisit)
  BY DEF DynInv, DynOut
<1>3. ~refolded => warnings = concerned
  BY DEF BlocksInv
<1> QED
  BY <1>1, <1>2, <1>3 DEF AnswersInTheirPlace

-----------------------------------------------------------------------------
(* The comparison of runs.                                                 *)

RunsUnder(places) == {HistoryRuns[i] : i \in places}

PanelInv ==
    /\ \E n \in 0 .. MaxListed : listedRuns = [i \in 1 .. n |-> i]
    /\ picked \in Seq(Nat) /\ Apart(picked) /\ ToSet(picked) \subseteq DOMAIN HistoryRuns
    /\ Len(picked) <= 3 /\ grown \in BOOLEAN
    /\ picked = <<>> => ticked = {} /\ ~grown
    /\ ~grown => ticked = RunsUnder(ToSet(picked))

\* The list is shown with the newest run first.
LEMMA ListedGives ==
    ASSUME NEW n \in Nat, listedRuns = [i \in 1 .. n |-> i]
    PROVE  /\ Len(listedRuns) = n /\ DOMAIN HistoryRuns = 1 .. n
           /\ \A i \in 1 .. n : HistoryRuns[i] = n - i + 1
<1>1. listedRuns \in Seq(Nat) /\ Len(listedRuns) = n
  OBVIOUS
<1>2. HistoryRuns = [i \in 1 .. n |-> listedRuns[n - i + 1]]
  BY <1>1 DEF HistoryRuns, Reverse
<1> QED
  BY <1>1, <1>2

LEMMA PanelInvInit == ASSUME PanelInit PROVE PanelInv
<1>1. listedRuns = <<>> /\ picked = <<>> /\ ticked = {} /\ grown = FALSE
  BY DEF PanelInit
<1>2. listedRuns = [i \in 1 .. 0 |-> i] /\ 0 \in 0 .. MaxListed
  BY <1>1, PanelAssumption
<1>3. picked \in Seq(Nat) /\ Apart(picked) /\ ToSet(picked) = {} /\ Len(picked) <= 3
  BY <1>1, EmptySeq DEF Apart, ToSet
<1>4. RunsUnder({}) = {}
  BY DEF RunsUnder
<1> QED
  BY <1>1, <1>2, <1>3, <1>4 DEF PanelInv

LEMMA PanelInvStep ==
    ASSUME PanelInv, ResultsNext \/ UNCHANGED resultsVars
    PROVE  PanelInv'
<1>1. PICK n \in 0 .. MaxListed : listedRuns = [i \in 1 .. n |-> i]
  BY DEF PanelInv
<1>2. MaxListed \in Nat /\ n \in Nat
  BY PanelAssumption
<1>3. /\ Len(listedRuns) = n /\ DOMAIN HistoryRuns = 1 .. n
      /\ \A i \in 1 .. n : HistoryRuns[i] = n - i + 1
  BY <1>1, <1>2, ListedGives
<1>4. /\ picked \in Seq(Nat) /\ Apart(picked) /\ ToSet(picked) \subseteq 1 .. n /\ Len(picked) <= 3
      /\ grown \in BOOLEAN /\ Len(picked) \in Nat
      /\ picked = <<>> => ticked = {} /\ ~grown
      /\ ~grown => ticked = RunsUnder(ToSet(picked))
  BY <1>3 DEF PanelInv
<1>5. CASE UNCHANGED <<listedRuns, picked, ticked, grown>>
  <2>1. HistoryRuns' = HistoryRuns
    BY <1>5 DEF HistoryRuns
  <2> QED
    BY <1>5, <2>1 DEF PanelInv, RunsUnder, Apart
<1>6. ASSUME NEW m \in 1 .. MaxListed, HistoryLoads(m) PROVE PanelInv'
  <2>1. /\ m \in Nat /\ m > n /\ listedRuns' = [i \in 1 .. m |-> i]
        /\ grown' = (grown \/ picked # <<>>) /\ UNCHANGED <<picked, ticked>>
    BY <1>2, <1>3, <1>6 DEF HistoryLoads
  <2>2. (DOMAIN HistoryRuns)' = 1 .. m
    <3>1. listedRuns' \in Seq(Nat) /\ Len(listedRuns') = m
      BY <2>1
    <3> QED
      BY <3>1 DEF HistoryRuns, Reverse
  <2>3. ToSet(picked') \subseteq 1 .. m /\ Apart(picked')
    BY <1>2, <1>4, <2>1 DEF Apart
  <2>4. ASSUME picked = <<>> PROVE ticked' = {} /\ ~grown' /\ RunsUnder(ToSet(picked))' = {}
    BY <1>4, <2>1, <2>4 DEF RunsUnder, ToSet
  <2>5. m \in 0 .. MaxListed
    BY <1>2, <2>1
  <2> QED
    BY <1>4, <2>1, <2>2, <2>3, <2>4, <2>5 DEF PanelInv
<1>7. ASSUME NEW i \in 1 .. n, listedRuns' = listedRuns,
             grown' = (grown /\ picked' # <<>>),
             \/ /\ \E k \in DOMAIN picked : picked[k] = i /\ picked' = RemoveAt(picked, k)
                /\ ticked' = IF picked' = <<>> THEN {} ELSE ticked \ {HistoryRuns[i]}
             \/ /\ i \notin ToSet(picked) /\ Len(picked) < 3
                /\ picked' = Append(picked, i) /\ ticked' = ticked \cup {HistoryRuns[i]}
      PROVE  PanelInv'
  <2>1. HistoryRuns' = HistoryRuns
    BY <1>7 DEF HistoryRuns
  <2>2. i \in Nat
    BY <1>2
  <2>3. CASE /\ \E k \in DOMAIN picked : picked[k] = i /\ picked' = RemoveAt(picked, k)
             /\ ticked' = IF picked' = <<>> THEN {} ELSE ticked \ {HistoryRuns[i]}
    <3>1. PICK k \in DOMAIN picked : picked[k] = i /\ picked' = RemoveAt(picked, k)
      BY <2>3
    <3>2. picked' \in Seq(Nat) /\ Len(picked') = Len(picked) - 1
      BY <1>4, <3>1, RemoveAtLeaves
    <3>3. Apart(picked') /\ ToSet(picked') = ToSet(picked) \ {i}
      BY <1>4, <3>1, RemoveAtApart
    <3>4. RunsUnder(ToSet(picked) \ {i}) = RunsUnder(ToSet(picked)) \ {HistoryRuns[i]}
      <4>1. \A j \in ToSet(picked) : HistoryRuns[j] = HistoryRuns[i] => j = i
        BY <1>2, <1>3, <1>4
      <4> QED
        BY <4>1 DEF RunsUnder
    <3>5. RunsUnder(ToSet(picked))' = RunsUnder(ToSet(picked'))
      BY <2>1 DEF RunsUnder
    <3>6. picked' = <<>> => RunsUnder(ToSet(picked')) = {}
      BY DEF RunsUnder, ToSet
    <3>7. grown' \in BOOLEAN /\ (picked' = <<>> => ticked' = {} /\ ~grown')
      BY <1>4, <1>7, <2>3
    <3>8. ~grown' => ticked' = RunsUnder(ToSet(picked))'
      BY <1>4, <1>7, <2>3, <3>3, <3>4, <3>5, <3>6
    <3>9. Len(picked') <= 3 /\ ToSet(picked') \subseteq (DOMAIN HistoryRuns)'
      BY <1>3, <1>4, <2>1, <3>2, <3>3
    <3>10. listedRuns' = [j \in 1 .. n |-> j]
      BY <1>1, <1>7
    <3> QED
      BY <3>2, <3>3, <3>7, <3>8, <3>9, <3>10 DEF PanelInv
  <2>4. CASE /\ i \notin ToSet(picked) /\ Len(picked) < 3
             /\ picked' = Append(picked, i) /\ ticked' = ticked \cup {HistoryRuns[i]}
    <3>1. /\ picked' \in Seq(Nat) /\ Len(picked') = Len(picked) + 1
      BY <1>4, <2>2, <2>4
    <3>2. Apart(picked') /\ ToSet(picked') = ToSet(picked) \cup {i}
      BY <1>4, <2>2, <2>4, AppendApart
    <3>3. RunsUnder(ToSet(picked) \cup {i}) = RunsUnder(ToSet(picked)) \cup {HistoryRuns[i]}
      BY DEF RunsUnder
    <3>4. RunsUnder(ToSet(picked))' = RunsUnder(ToSet(picked'))
      BY <2>1 DEF RunsUnder
    <3>5. picked' # <<>> /\ grown' = grown
      BY <1>4, <1>7, <3>1
    <3>6. ~grown' => ticked' = RunsUnder(ToSet(picked))'
      BY <1>4, <2>4, <3>2, <3>3, <3>4, <3>5
    <3>7. Len(picked') <= 3 /\ ToSet(picked') \subseteq (DOMAIN HistoryRuns)'
      BY <1>3, <1>4, <2>1, <2>4, <3>1, <3>2
    <3>8. listedRuns' = [j \in 1 .. n |-> j]
      BY <1>1, <1>7
    <3> QED
      BY <1>4, <3>1, <3>2, <3>5, <3>6, <3>7, <3>8 DEF PanelInv
  <2> QED
    BY <1>7, <2>3, <2>4
<1>8. ASSUME NEW i, ToggleRun(i) PROVE PanelInv'
  <2>1. i \in 1 .. n /\ listedRuns' = listedRuns /\ grown' = (grown /\ picked' # <<>>)
    BY <1>3, <1>8 DEF ToggleRun
  <2> QED
    BY <1>7, <1>8, <2>1 DEF ToggleRun
<1>9. ASSUME ClearRuns PROVE PanelInv'
  <2>1. /\ picked' = <<>> /\ ticked' = {} /\ grown' = FALSE /\ listedRuns' = listedRuns
    BY <1>9 DEF ClearRuns
  <2>2. picked' \in Seq(Nat) /\ Apart(picked') /\ ToSet(picked') = {} /\ Len(picked') <= 3
    BY <2>1, EmptySeq DEF Apart, ToSet
  <2>3. RunsUnder(ToSet(picked))' = {}
    BY <2>2 DEF RunsUnder
  <2>4. listedRuns' = [j \in 1 .. n |-> j]
    BY <1>1, <2>1
  <2> QED
    BY <2>1, <2>2, <2>3, <2>4 DEF PanelInv
<1>10. ASSUME ToggleCompare \/ SizeNext \/ PanelViewNext \/ UNCHANGED resultsVars
              \/ (panelTab # "history" /\ panelTab' = "history"
                    /\ UNCHANGED <<compareVars, panelFrame, facts>>)
       PROVE  UNCHANGED <<listedRuns, picked, ticked, grown>>
  BY <1>10 DEF ToggleCompare, SizeNext, PanelViewNext, FrameThePanel, ChooseTab, FactChanges, compareVars,
     resultsVars
<1> QED
  BY <1>5, <1>6, <1>8, <1>9, <1>10 DEF ResultsNext, CompareNext

-----------------------------------------------------------------------------
\* A value that beats one that is not beaten is not beaten by what that was not
\* beaten by.
LEMMA BeatsOrders ==
    ASSUME NEW m, NEW a \in DOMAIN Value, NEW b \in DOMAIN Value, NEW c \in DOMAIN Value,
           m \in DOMAIN Value[a], m \in DOMAIN Value[b], m \in DOMAIN Value[c]
    PROVE  /\ ~Beats(m, a, a)
           /\ ~Beats(m, a, b) /\ Beats(m, c, b) => ~Beats(m, a, c)
<1>1. Value[a][m] \in Int /\ Value[b][m] \in Int /\ Value[c][m] \in Int
  BY PanelAssumption
<1> QED
  BY <1>1 DEF Beats

\* After k columns: none of them has the metric, or b is one no other beats.
BestSoFar(m, k, b) ==
    /\ b \in 0 .. k
    /\ b = 0 => \A j \in 1 .. k : m \notin DOMAIN Value[RunColumns[j]]
    /\ b # 0 => /\ m \in DOMAIN Value[RunColumns[b]]
                /\ \A j \in 1 .. k : m \in DOMAIN Value[RunColumns[j]] =>
                                        ~Beats(m, RunColumns[j], RunColumns[b])
NextBest(m, k, b) ==
    IF \/ m \notin DOMAIN Value[RunColumns[k]]
       \/ b # 0 /\ ~Beats(m, RunColumns[k], RunColumns[b])
    THEN b ELSE k

LEMMA BestStep ==
    ASSUME NEW m, NEW k \in Nat, k + 1 \in 1 .. Len(RunColumns), NEW b,
           RunColumns \in Seq(DOMAIN Value), BestSoFar(m, k, b)
    PROVE  BestSoFar(m, k + 1, NextBest(m, k + 1, b))
<1>1. /\ Len(RunColumns) \in Nat /\ b \in 0 .. k
      /\ \A j \in 1 .. k + 1 : RunColumns[j] \in DOMAIN Value
      /\ k + 1 \in 1 .. k + 1 /\ \A j \in 1 .. k + 1 : j \in 1 .. k \/ j = k + 1
  BY DEF BestSoFar
<1>2. CASE m \notin DOMAIN Value[RunColumns[k + 1]]
  <2>1. NextBest(m, k + 1, b) = b /\ b \in 0 .. k + 1
    BY <1>1, <1>2 DEF NextBest
  <2> QED
    BY <1>1, <1>2, <2>1 DEF BestSoFar
<1>3. CASE m \in DOMAIN Value[RunColumns[k + 1]] /\ b = 0
  <2>1. NextBest(m, k + 1, b) = k + 1 /\ k + 1 \in 0 .. k + 1 /\ k + 1 # 0
    BY <1>1, <1>3 DEF NextBest
  <2>2. ~Beats(m, RunColumns[k + 1], RunColumns[k + 1])
    BY <1>1, <1>3, BeatsOrders
  <2> QED
    BY <1>1, <1>3, <2>1, <2>2 DEF BestSoFar
<1>4. CASE m \in DOMAIN Value[RunColumns[k + 1]] /\ b # 0
  <2>1. b \in 1 .. k /\ b \in 1 .. k + 1 /\ m \in DOMAIN Value[RunColumns[b]]
    BY <1>1, <1>4 DEF BestSoFar
  <2>2. CASE ~Beats(m, RunColumns[k + 1], RunColumns[b])
    <3>1. NextBest(m, k + 1, b) = b /\ b \in 0 .. k + 1
      BY <1>1, <2>2, <1>4 DEF NextBest
    <3> QED
      BY <1>1, <1>4, <2>2, <3>1 DEF BestSoFar
  <2>3. CASE Beats(m, RunColumns[k + 1], RunColumns[b])
    <3>1. NextBest(m, k + 1, b) = k + 1 /\ k + 1 \in 0 .. k + 1 /\ k + 1 # 0
      BY <1>1, <1>4, <2>3 DEF NextBest
    <3>2. ASSUME NEW j \in 1 .. k + 1, m \in DOMAIN Value[RunColumns[j]]
          PROVE  ~Beats(m, RunColumns[j], RunColumns[k + 1])
      <4>1. CASE j = k + 1
        BY <1>1, <1>4, <4>1, BeatsOrders
      <4>2. CASE j \in 1 .. k
        <5>1. ~Beats(m, RunColumns[j], RunColumns[b])
          BY <1>4, <3>2, <4>2 DEF BestSoFar
        <5> QED
          BY <1>1, <1>4, <2>1, <2>3, <3>2, <5>1, BeatsOrders
      <4> QED
        BY <1>1, <4>1, <4>2
    <3> QED
      BY <1>4, <3>1, <3>2 DEF BestSoFar
  <2> QED
    BY <2>2, <2>3
<1> QED
  BY <1>2, <1>3, <1>4

\* The column with the star, of two or three.
LEMMA BestColumnIsBest ==
    ASSUME NEW m, RunColumns \in Seq(DOMAIN Value), Len(RunColumns) \in {2, 3}
    PROVE  BestSoFar(m, Len(RunColumns), BestColumn(m))
<1>0. PICK L \in {2, 3} : L = Len(RunColumns)
  OBVIOUS
<1> DEFINE Steps(f) == [k \in 0 .. L |->
                          IF k = 0 THEN 0 ELSE NextBest(m, k, f[k - 1])]
           best == CHOOSE f : f = Steps(f)
           b1 == NextBest(m, 1, 0)
           b2 == NextBest(m, 2, b1)
           b3 == NextBest(m, 3, b2)
           w == [k \in 0 .. L |->
                   IF k = 0 THEN 0 ELSE IF k = 1 THEN b1 ELSE IF k = 2 THEN b2 ELSE b3]
<1>1. BestColumn(m) = best[L]
  BY <1>0 DEF BestColumn, NextBest
<1>2. w = Steps(w)
  <2> HIDE DEF b1, b2, b3
  <2>1. \A k \in 0 .. L : k = 0 \/ k = 1 \/ k = 2 \/ k = 3
    OBVIOUS
  <2>2. /\ 0 \in 0 .. L /\ 1 \in 0 .. L /\ 2 \in 0 .. L
        /\ w[0] = 0 /\ w[1] = b1 /\ w[2] = b2
    OBVIOUS
  <2>3. ASSUME NEW k \in 0 .. L
        PROVE  w[k] = IF k = 0 THEN 0 ELSE NextBest(m, k, w[k - 1])
    <3>1. CASE k = 0
      BY <3>1, <2>2
    <3>2. CASE k = 1
      BY <3>2, <2>2 DEF b1
    <3>3. CASE k = 2
      BY <3>3, <2>2 DEF b2
    <3>4. CASE k = 3
      <4>1. w[3] = b3
        BY <3>4
      <4> QED
        BY <3>4, <2>2, <4>1 DEF b3
    <3> QED
      BY <2>1, <3>1, <3>2, <3>3, <3>4
  <2> QED
    BY <2>3
<1> HIDE DEF w
<1>3. best = Steps(best)
  BY <1>2
<1> HIDE DEF best
<1>4. \A k \in 0 .. L : best[k] = IF k = 0 THEN 0 ELSE NextBest(m, k, best[k - 1])
  BY <1>3
<1>5. BestSoFar(m, 0, best[0])
  <2>1. 0 \in 0 .. L
    OBVIOUS
  <2> QED
    BY <1>4, <2>1 DEF BestSoFar
<1>6. ASSUME NEW k \in 0 .. 2, k + 1 <= L, BestSoFar(m, k, best[k])
      PROVE  BestSoFar(m, k + 1, best[k + 1])
  <2>1. /\ k \in Nat /\ k + 1 \in 0 .. L /\ k + 1 # 0 /\ (k + 1) - 1 = k /\ k + 1 \in 1 .. L
    BY <1>6
  <2>2. best[k + 1] = NextBest(m, k + 1, best[k])
    BY <1>4, <2>1
  <2>3. k + 1 \in 1 .. Len(RunColumns)
    BY <1>0, <2>1
  <2>4. BestSoFar(m, k + 1, NextBest(m, k + 1, best[k]))
    BY <1>6, <2>1, <2>3, BestStep
  <2> QED
    BY <2>2, <2>4
<1>7. BestSoFar(m, 1, best[1])
  <2>1. 0 \in 0 .. 2 /\ 0 + 1 <= L /\ 0 + 1 = 1
    OBVIOUS
  <2> QED
    BY <1>5, <1>6, <2>1
<1>8. BestSoFar(m, 2, best[2])
  <2>1. 1 \in 0 .. 2 /\ 1 + 1 <= L /\ 1 + 1 = 2
    OBVIOUS
  <2> QED
    BY <1>6, <1>7, <2>1
<1>9. L = 3 => BestSoFar(m, 3, best[3])
  <2>1. L = 3 => 2 \in 0 .. 2 /\ 2 + 1 <= L /\ 2 + 1 = 3
    OBVIOUS
  <2> QED
    BY <1>6, <1>8, <2>1
<1>10. BestSoFar(m, L, best[L])
  BY <1>8, <1>9
<1> QED
  BY <1>0, <1>1, <1>10

\* One more.
LEMMA OneMore ==
    ASSUME NEW S, NEW n \in Nat, IsFiniteSet(S) /\ Cardinality(S) = n, NEW x, x \notin S
    PROVE  IsFiniteSet(S \cup {x}) /\ Cardinality(S \cup {x}) = n + 1
BY FS_AddElement

\* So many places without repetition are so many runs.
ValuesAt(f, s) == {f[p] : p \in ToSet(s)}

LEMMA RunsCounted ==
    ASSUME NEW s \in Seq(Nat), Len(s) \in {2, 3}, NEW f,
           \A i, j \in DOMAIN s : f[s[i]] = f[s[j]] => i = j
    PROVE  Cardinality(ValuesAt(f, s)) \in 2 .. 3
<1> DEFINE F == {f[p] : p \in ToSet(s)}
<1>1. DOMAIN s = 1 .. Len(s)
  OBVIOUS
<1>2. PICK a, b, c : a = f[s[1]] /\ b = f[s[2]] /\ c = f[s[3]]
  OBVIOUS
<1>3. IsFiniteSet({a}) /\ Cardinality({a}) = 1
  BY FS_Singleton
<1>4. 1 + 1 = 2 /\ 2 + 1 = 3
  OBVIOUS
<1>5. a # b
  <2>1. 1 \in DOMAIN s /\ 2 \in DOMAIN s
    BY <1>1
  <2> QED
    BY <1>2, <2>1
<1>6. IsFiniteSet({a} \cup {b}) /\ Cardinality({a} \cup {b}) = 2
  <2>1. IsFiniteSet({a}) /\ Cardinality({a}) = 1 /\ b \notin {a}
    BY <1>3, <1>5
  <2>2. IsFiniteSet({a} \cup {b}) /\ Cardinality({a} \cup {b}) = 1 + 1
    BY <2>1, OneMore
  <2> QED
    BY <1>4, <2>2
<1>7. ASSUME Len(s) = 2 PROVE Cardinality(F) \in {2, 3}
  <2>1. DOMAIN s = {1, 2}
    BY <1>1, <1>7
  <2>2. ToSet(s) = {s[1], s[2]}
    BY <2>1 DEF ToSet
  <2>3. F = {a} \cup {b}
    BY <1>2, <2>2
  <2> HIDE DEF F
  <2>4. Cardinality(F) = 2
    BY <1>6, <2>3
  <2> QED
    BY <2>4
<1>8. ASSUME Len(s) = 3 PROVE Cardinality(F) \in {2, 3}
  <2>1. DOMAIN s = {1, 2, 3}
    BY <1>1, <1>8
  <2>2. ToSet(s) = {s[1], s[2], s[3]}
    BY <2>1 DEF ToSet
  <2>3. F = ({a} \cup {b}) \cup {c}
    BY <1>2, <2>2
  <2>4. c \notin {a} \cup {b}
    BY <1>2, <2>1
  <2>5. Cardinality(({a} \cup {b}) \cup {c}) = 2 + 1
    BY <1>6, <2>4, OneMore
  <2> HIDE DEF F
  <2>6. Cardinality(F) = 3
    BY <1>4, <2>3, <2>5
  <2> QED
    BY <2>6
<1>9. Cardinality(F) \in {2, 3}
  BY <1>7, <1>8
<1> HIDE DEF F
<1>10. Cardinality(F) \in 2 .. 3
  BY <1>9
<1> QED
  BY <1>10 DEF F, ValuesAt

LEMMA PanelSound == ASSUME PanelInv PROVE TableComparesTicked
<1> SUFFICES ASSUME TableShown
             PROVE  /\ ~grown => SelectedRuns = ticked /\ Cardinality(ticked) \in 2 .. 3
                    /\ \A m \in MetricKeys :
                          LET b == BestColumn(m)
                          IN  /\ b # 0
                              /\ \A r \in SelectedRuns : m \in DOMAIN Value[r]
                                                           => ~Beats(m, r, RunColumns[b])
  BY DEF TableComparesTicked
<1>1. PICK n \in 0 .. MaxListed : listedRuns = [i \in 1 .. n |-> i]
  BY DEF PanelInv
<1>2. MaxListed \in Nat /\ n \in Nat /\ DOMAIN Value = 1 .. MaxListed
  BY PanelAssumption
<1>3. DOMAIN HistoryRuns = 1 .. n /\ \A i \in 1 .. n : HistoryRuns[i] = n - i + 1
  BY <1>1, <1>2, ListedGives
<1>4. /\ picked \in Seq(Nat) /\ Apart(picked) /\ ToSet(picked) \subseteq 1 .. n
      /\ DOMAIN picked = 1 .. Len(picked) /\ Len(picked) \in {2, 3}
      /\ ~grown => ticked = RunsUnder(ToSet(picked))
  <2>1. /\ picked \in Seq(Nat) /\ Len(picked) <= 3 /\ Len(picked) >= 2 /\ Len(picked) \in Nat
    BY DEF PanelInv, TableShown, CanCompare
  <2>2. PICK k \in Nat : k = Len(picked) /\ k <= 3 /\ k >= 2
    BY <2>1
  <2>3. k \in {2, 3}
    BY <2>2
  <2> QED
    BY <1>3, <2>1, <2>2, <2>3 DEF PanelInv
<1>5. SelectedRuns = RunsUnder(ToSet(picked))
  BY <1>3, <1>4 DEF SelectedRuns, RunsUnder
<1>6. \A k \in DOMAIN picked : picked[k] \in 1 .. n /\ HistoryRuns[picked[k]] \in DOMAIN Value
  <2>1. \A k \in DOMAIN picked : picked[k] \in 1 .. n
    BY <1>4 DEF ToSet
  <2> QED
    BY <1>2, <1>3, <2>1
<1>7. Cardinality(RunsUnder(ToSet(picked))) \in 2 .. 3
  <2>1. \A i, j \in DOMAIN picked : HistoryRuns[picked[i]] = HistoryRuns[picked[j]] => i = j
    BY <1>2, <1>3, <1>4, <1>6 DEF Apart
  <2>2. Cardinality({HistoryRuns[p] : p \in ToSet(picked)}) \in 2 .. 3
    <3>1. PICK f : f = HistoryRuns
      OBVIOUS
    <3>2. \A i, j \in DOMAIN picked : f[picked[i]] = f[picked[j]] => i = j
      BY <2>1, <3>1
    <3>3. Cardinality(ValuesAt(f, picked)) \in 2 .. 3
      BY <1>4, <3>2, RunsCounted
    <3> QED
      BY <3>1, <3>3 DEF ValuesAt
  <2> QED
    BY <2>2 DEF RunsUnder
<1>8. RunColumns \in Seq(DOMAIN Value) /\ Len(RunColumns) = Len(picked)
  <2>1. RunColumns \in [1 .. Len(picked) -> DOMAIN Value]
    BY <1>4, <1>6 DEF RunColumns
  <2> QED
    BY <1>4, <2>1
<1>9. SelectedRuns = {RunColumns[k] : k \in DOMAIN picked}
  BY <1>5 DEF RunsUnder, RunColumns, ToSet
<1>10. ASSUME NEW m \in MetricKeys
       PROVE  /\ BestColumn(m) # 0
              /\ \A r \in SelectedRuns : m \in DOMAIN Value[r] => ~Beats(m, r, RunColumns[BestColumn(m)])
  <2>1. BestSoFar(m, Len(picked), BestColumn(m))
    BY <1>4, <1>8, BestColumnIsBest
  <2>2. \E k \in 1 .. Len(picked) : m \in DOMAIN Value[RunColumns[k]]
    BY <1>4, <1>9 DEF MetricKeys
  <2> QED
    BY <1>4, <1>9, <2>1, <2>2 DEF BestSoFar
<1> QED
  BY <1>4, <1>5, <1>7, <1>10

-----------------------------------------------------------------------------
(* Types: what each part keeps besides the invariants above. *)

\* What is selected and flagged, besides ProfileType and what is in flight.
SelType ==
    /\ cur \in Ids /\ {locked, disturbed} \subseteq BOOLEAN
    /\ reg \in [stage : RegStages, pid : NewProjects \cup {None}]

LEMMA SelTypeInit == ASSUME SelInit PROVE SelType
BY DEF SelInit, SelType, Ids, RegStages

LEMMA SelTypeStep ==
    ASSUME SelInv, SelType, SelNext \/ UNCHANGED selVars
    PROVE  SelType'
<1> USE DEF SelType
<1>1. ASSUME NEW p \in Ids, Activate(p), UNCHANGED <<reg, disturbed>>
      PROVE  SelType'
  BY <1>1 DEF Activate
<1>2. ASSUME NEW p \in Ids, SelectProject(p) PROVE SelType'
  BY <1>1, <1>2 DEF SelectProject
<1>3. CASE StartNewProject
  BY <1>1, <1>3 DEF StartNewProject, Ids
<1>4. CASE Register \/ Activated \/ Finished
  BY <1>4 DEF Register, Activated, Finished, RegStages
<1>5. CASE Created
  <2>1. PICK p \in NewProjects : Activate(p) /\ reg' = [stage |-> "activating", pid |-> p]
    BY <1>5 DEF Created
  <2> QED
    BY <1>5, <2>1 DEF Created, Activate, Ids, RegStages
<1>6. CASE RegisterFails
  BY <1>6 DEF RegisterFails, RegStages
<1>7. CASE Refreshed
  BY <1>7 DEF Refreshed, Activate, Ids, RegStages
<1>8. ASSUME NEW i \in DOMAIN saves, ServerSaves(i) PROVE SelType'
  BY <1>8 DEF ServerSaves
<1>9. ASSUME NEW i \in DOMAIN loads, ServerReads(i) PROVE SelType'
  BY <1>9 DEF ServerReads
<1>10. ASSUME NEW i \in DOMAIN loads, ProfileArrives(i) PROVE SelType'
  <2>1. loads[i] \in ProfileLoad /\ loads[i].state = "read"
    BY <1>10 DEF ProfileArrives, SelInv, SelInFlight
  <2>2. loads[i].pid \in Ids
    BY <2>1 DEF ProfileLoad
  <2> QED
    BY <1>10, <2>2 DEF ProfileArrives
<1>11. ASSUME NEW i \in DOMAIN loads, ProfileFails(i) PROVE SelType'
  BY <1>11 DEF ProfileFails, Ids
<1>12. CASE UNCHANGED selVars
  BY <1>12 DEF selVars
<1> QED
  BY <1>2, <1>3, <1>4, <1>5, <1>6, <1>7, <1>8, <1>9, <1>10, <1>11, <1>12
  DEF SelNext, RegistrationStep, Answered

LEMMA SelTypeSound == ASSUME SelInv, ProfileType, SelType PROVE SelTypeOK
BY DEF SelInv, SelInFlight, ProfileLoad, ProfileType, SelType, SelTypeOK

-----------------------------------------------------------------------------
\* An upload that is sent is within the bound.
DeskType ==
    /\ DeskTypeOK /\ asked \in Seq([file : Files, v : 0 .. MaxUploads])
    /\ upload.stage = "sent" => version[upload.file] < MaxUploads

LEMMA OffersColumns ==
    ASSUME NEW p \in Previews
    PROVE  Offers(p) \subseteq Columns
<1>1. CASE p = NoPreview
  BY <1>1 DEF Offers
<1>2. CASE p \in [file : Files, v : 1 .. MaxUploads]
  BY <1>2, DeskAssumption DEF Offers
<1> QED
  BY <1>1, <1>2 DEF Previews

LEMMA DeskTypeInit == ASSUME DeskInit PROVE DeskType
<1>1. asked = <<>> /\ asked \in Seq([file : Files, v : 0 .. MaxUploads])
  BY EmptySeq DEF DeskInit
<1>2. version \in [Files -> 0 .. MaxUploads]
  BY DeskAssumption DEF DeskInit
<1>3. DOMAIN features = {}
  BY DEF DeskInit
<1> QED
  BY <1>1, <1>2, <1>3 DEF DeskInit, DeskType, DeskTypeOK, Previews

LEMMA DefaultsAreColumns ==
    ASSUME NEW p \in Previews, NEW t
    PROVE  /\ DOMAIN DefaultFeatures(p, t) \subseteq Columns
           /\ \A c \in DOMAIN DefaultFeatures(p, t) : DefaultFeatures(p, t)[c] \in BOOLEAN
BY OffersColumns DEF DefaultFeatures

LEMMA AskType ==
    ASSUME DeskType, NEW f \in Files, Ask(f)
    PROVE  /\ asked' \in Seq([file : Files, v : 0 .. MaxUploads])
           /\ newest' \in {"none", "pending", "shown", "lost"}
<1>1. [file |-> f, v |-> 0] \in [file : Files, v : 0 .. MaxUploads]
  BY DeskAssumption
<1> QED
  BY <1>1 DEF Ask, DeskType, DeskTypeOK

LEMMA SelectType ==
    ASSUME DeskType, NEW f \in Files \cup {NoFile}, Select(f)
    PROVE  /\ selected' = f /\ asked' \in Seq([file : Files, v : 0 .. MaxUploads])
           /\ newest' \in {"none", "pending", "shown", "lost"}
<1>1. CASE Ask(f) /\ f \in Files
  BY <1>1, AskType DEF Select
<1>2. CASE UNCHANGED <<asked, newest>>
  BY <1>2 DEF Select, DeskType, DeskTypeOK
<1> QED
  BY <1>1, <1>2 DEF Select

LEMMA AskedAre ==
    ASSUME NEW S, NEW s \in Seq(S)
    PROVE  \A i \in DOMAIN s : s[i] \in S
OBVIOUS

\* What a step has to show when neither the versions nor the upload change.
LEMMA DeskTypeKept ==
    ASSUME DeskType, UNCHANGED <<version, upload>>,
           listed' \subseteq Files, selected' \in Files \cup {NoFile}, shown' \in Previews,
           target' \in Columns \cup {NoColumn}, DOMAIN features' \subseteq Columns,
           \A c \in DOMAIN features' : features'[c] \in BOOLEAN,
           asked' \in Seq([file : Files, v : 0 .. MaxUploads]),
           newest' \in {"none", "pending", "shown", "lost"}
    PROVE  DeskType'
<1>1. \A i \in DOMAIN asked' : asked'[i] \in [file : Files, v : 0 .. MaxUploads]
  BY AskedAre
<1> QED
  BY <1>1 DEF DeskType, DeskTypeOK

LEMMA DeskTypeStep ==
    ASSUME ViewShape, DeskType, DeskNext \/ UNCHANGED deskVars
    PROVE  DeskType'
<1>0. /\ listed \subseteq Files /\ selected \in Files \cup {NoFile} /\ shown \in Previews
      /\ target \in Columns \cup {NoColumn} /\ DOMAIN features \subseteq Columns
      /\ \A c \in DOMAIN features : features[c] \in BOOLEAN
      /\ asked \in Seq([file : Files, v : 0 .. MaxUploads])
      /\ newest \in {"none", "pending", "shown", "lost"} /\ version \in [Files -> 0 .. MaxUploads]
      /\ \A i \in DOMAIN asked : asked[i] \in [file : Files, v : 0 .. MaxUploads]
  BY DEF DeskType, DeskTypeOK
<1>1. ASSUME NEW f \in Files \cup {NoFile}, ChooseFile(f) PROVE DeskType'
  <2>1. Select(f) /\ UNCHANGED <<version, listed, shown, target, features, upload>>
    BY <1>1 DEF ChooseFile
  <2> QED
    BY <1>0, <2>1, SelectType, DeskTypeKept
<1>2. CASE LoadDatasets
  <2>1. ListArrives /\ UNCHANGED <<version, shown, target, features, upload>>
    BY <1>2 DEF LoadDatasets
  <2>2. listed' \subseteq Files
    BY <2>1 DEF ListArrives
  <2>3. ASSUME NEW f \in Files, Select(f) PROVE DeskType'
    <3>1. f \in Files \cup {NoFile}
      OBVIOUS
    <3>2. selected' = f /\ asked' \in Seq([file : Files, v : 0 .. MaxUploads])
          /\ newest' \in {"none", "pending", "shown", "lost"}
      BY <2>3, <3>1, SelectType
    <3> QED
      BY <1>0, <2>1, <2>2, <3>1, <3>2, DeskTypeKept
  <2>4. CASE UNCHANGED <<selected, asked, newest>>
    BY <1>0, <2>1, <2>2, <2>4, DeskTypeKept
  <2> QED
    BY <2>1, <2>2, <2>3, <2>4 DEF ListArrives
<1>3. CASE RefreshPreview
  <2>1. Ask(selected) /\ selected \in Files /\ UNCHANGED <<version, listed, selected, shown, target, features, upload>>
    BY <1>0, <1>3 DEF RefreshPreview
  <2> QED
    BY <1>0, <2>1, AskType, DeskTypeKept
<1>4. ASSUME NEW i \in DOMAIN asked, PreviewRead(i) PROVE DeskType'
  <2>1. /\ asked' = [asked EXCEPT ![i].v = version[asked[i].file]]
        /\ UNCHANGED <<version, listed, selected, shown, target, features, newest, upload>>
    BY <1>4 DEF PreviewRead
  <2>2. [asked[i] EXCEPT !.v = version[asked[i].file]] \in [file : Files, v : 0 .. MaxUploads]
    BY <1>0
  <2>3. asked' = [asked EXCEPT ![i] = [asked[i] EXCEPT !.v = version[asked[i].file]]]
    BY <2>1
  <2>4. asked' \in Seq([file : Files, v : 0 .. MaxUploads])
    BY <1>0, <2>2, <2>3
  <2> QED
    BY <1>0, <2>1, <2>4, DeskTypeKept
<1>5. ASSUME NEW i \in DOMAIN asked, PreviewArrives(i) PROVE DeskType'
  <2>1. /\ asked[i].v > 0 /\ shown' = asked[i] /\ features' = DefaultFeatures(asked[i], target)
        /\ asked' = RemoveAt(asked, i) /\ UNCHANGED <<version, listed, selected, target, upload>>
        /\ newest' \in {"none", "pending", "shown", "lost"}
    BY <1>5 DEF PreviewArrives
  <2>2. asked[i] \in Previews
    BY <1>0, <2>1, DeskAssumption DEF Previews
  <2>3. asked' \in Seq([file : Files, v : 0 .. MaxUploads])
    BY <1>0, <2>1, RemoveAtLeaves
  <2> QED
    BY <1>0, <2>1, <2>2, <2>3, DefaultsAreColumns, DeskTypeKept
<1>6. ASSUME NEW i \in DOMAIN asked, PreviewFails(i) PROVE DeskType'
  <2>1. /\ asked' = RemoveAt(asked, i) /\ newest' \in {"lost", newest}
        /\ UNCHANGED <<version, listed, selected, shown, target, features, upload>>
    BY <1>6 DEF PreviewFails
  <2>2. asked' \in Seq([file : Files, v : 0 .. MaxUploads])
    BY <1>0, <2>1, RemoveAtLeaves
  <2> QED
    BY <1>0, <2>1, <2>2, DeskTypeKept
<1>7. ASSUME NEW c \in Columns \cup {NoColumn}, ChooseTarget(c) PROVE DeskType'
  <2>1. /\ target' = c /\ features' = DefaultFeatures(shown, c)
        /\ UNCHANGED <<version, listed, selected, shown, asked, newest, upload>>
    BY <1>7 DEF ChooseTarget
  <2> QED
    BY <1>0, <1>7, <2>1, DefaultsAreColumns, DeskTypeKept
<1>8. ASSUME NEW c, ToggleFeature(c) PROVE DeskType'
  <2>1. /\ features' = [features EXCEPT ![c] = ~features[c]]
        /\ UNCHANGED <<version, listed, selected, shown, target, asked, newest, upload>>
    BY <1>8 DEF ToggleFeature
  <2>2. DOMAIN features' \subseteq Columns /\ \A d \in DOMAIN features' : features'[d] \in BOOLEAN
    BY <1>0, <2>1
  <2> QED
    BY <1>0, <2>1, <2>2, DeskTypeKept
<1>9. ASSUME NEW f \in Files, Upload(f) PROVE DeskType'
  BY <1>9 DEF Upload, DeskType, DeskTypeOK
<1>10. CASE ServerStores
  <2>1. upload.file \in Files /\ version[upload.file] < MaxUploads
    BY <1>10 DEF ServerStores, ViewShape, DeskType
  <2>2. version' = [version EXCEPT ![upload.file] = version[upload.file] + 1] /\ upload' = [upload EXCEPT !.stage = "stored"]
        /\ UNCHANGED <<listed, selected, shown, target, features, asked, newest>>
    BY <1>10 DEF ServerStores
  <2>3. version' \in [Files -> 0 .. MaxUploads]
    BY <1>0, <2>1, <2>2, DeskAssumption
  <2>4. upload'.stage = "stored"
    BY <2>2 DEF ViewShape
  <2> QED
    BY <2>2, <2>3, <2>4 DEF DeskType, DeskTypeOK
<1>11. CASE UploadAnswered
  <2>1. /\ Select(upload.file) /\ target' = NoColumn /\ upload' = [upload EXCEPT !.stage = "listing"]
        /\ features' = DefaultFeatures(IF target = NoColumn THEN NoPreview ELSE shown, NoColumn)
        /\ UNCHANGED <<version, listed, shown>>
    BY <1>11 DEF UploadAnswered
  <2>2. upload.file \in Files \cup {NoFile} /\ upload'.stage = "listing"
    BY <2>1 DEF ViewShape
  <2>3. (IF target = NoColumn THEN NoPreview ELSE shown) \in Previews
    BY <1>0 DEF Previews
  <2>4. DOMAIN features' \subseteq Columns /\ \A d \in DOMAIN features' : features'[d] \in BOOLEAN
    BY <2>1, <2>3, DefaultsAreColumns
  <2>5. selected' = upload.file /\ asked' \in Seq([file : Files, v : 0 .. MaxUploads])
        /\ newest' \in {"none", "pending", "shown", "lost"}
    BY <2>1, <2>2, SelectType
  <2>6. \A i \in DOMAIN asked' : asked'[i] \in [file : Files, v : 0 .. MaxUploads]
    BY <2>5, AskedAre
  <2> QED
    BY <1>0, <2>1, <2>2, <2>4, <2>5, <2>6 DEF DeskType, DeskTypeOK
<1>12. CASE UploadListed
  <2>1. /\ Ask(upload.file) /\ upload' = [upload EXCEPT !.stage = "previewing"] /\ listed' \subseteq Files
        /\ UNCHANGED <<selected, version, shown, target, features>>
    BY <1>12 DEF UploadListed
  <2>2. upload.file \in Files /\ upload'.stage = "previewing"
    BY <1>12, <2>1 DEF ViewShape, UploadListed
  <2>3. asked' \in Seq([file : Files, v : 0 .. MaxUploads])
        /\ newest' \in {"none", "pending", "shown", "lost"}
    BY <2>1, <2>2, AskType
  <2>4. \A i \in DOMAIN asked' : asked'[i] \in [file : Files, v : 0 .. MaxUploads]
    BY <2>3, AskedAre
  <2> QED
    BY <1>0, <2>1, <2>2, <2>3, <2>4 DEF DeskType, DeskTypeOK
<1>13. CASE UploadEnds
  BY <1>13 DEF UploadEnds, DeskType, DeskTypeOK
<1>14. CASE UploadFails
  BY <1>14 DEF UploadFails, DeskType, DeskTypeOK
<1>15. CASE UNCHANGED deskVars
  BY <1>15 DEF deskVars, DeskType, DeskTypeOK
<1> QED
  BY <1>1, <1>2, <1>3, <1>4, <1>5, <1>6, <1>7, <1>8, <1>9, <1>10, <1>11, <1>12, <1>13, <1>14, <1>15
  DEF DeskNext

\* What is chosen, counted and shown, besides the handlers and the polls of
\* WorkInv and WatchInv.
ModelFits == task \in DOMAIN ModelsOf /\ modelType \in ModelsFor(task)
RunCounts ==
    /\ runCount \in 0 .. MaxRuns /\ abortRef \in 0 .. MaxRuns /\ result \in 0 .. MaxRuns
    /\ newestJob \in 0 .. MaxRuns /\ jobOver \subseteq RunIds
    /\ {training, predicting, signedIn, cutOff} \subseteq BOOLEAN
RunRecs ==
    /\ trainedOn \in [RunIds -> DataFiles \cup {NoData}]
    /\ predictOn \in [model : 0 .. MaxRuns, file : DataFiles \cup {NoData}]
    /\ line \in [job : 0 .. MaxRuns, over : BOOLEAN]
RunType == ModelFits /\ RunCounts /\ RunRecs

LEMMA ModelsGiven ==
    /\ "classification" \in DOMAIN ModelsOf /\ "random_forest" \in ModelsFor("classification")
    /\ \A t \in DOMAIN ModelsOf : ModelsOf[t][1] \in ModelsFor(t)
<1>1. DOMAIN ModelsOf = {"classification", "regression", "time_series", "anomaly_detection"}
  BY DEF ModelsOf
<1>2. ModelsOf["classification"] = <<"logistic_regression", "random_forest">>
  BY DEF ModelsOf
<1>3. ASSUME NEW t \in DOMAIN ModelsOf PROVE 1 \in DOMAIN ModelsOf[t]
  BY <1>1 DEF ModelsOf
<1> QED
  BY <1>1, <1>2, <1>3 DEF ModelsFor

LEMMA RunTypeInit == ASSUME RunInit PROVE RunType
<1>1. ModelFits
  BY ModelsGiven DEF RunInit, ModelFits
<1>2. RunCounts
  <2>1. 0 \in 0 .. MaxRuns
    BY RunAssumption
  <2> QED
    BY <2>1 DEF RunInit, RunCounts
<1>3. RunRecs
  BY RunAssumption DEF RunInit, RunRecs, NoLine
<1> QED
  BY <1>1, <1>2, <1>3 DEF RunType

LEMMA ModelFitsStep ==
    ASSUME ModelFits, RunNext \/ UNCHANGED runVars
    PROVE  ModelFits'
<1>1. ASSUME UNCHANGED <<task, modelType>> PROVE ModelFits'
  BY <1>1 DEF ModelFits
<1>2. ASSUME NEW t \in DOMAIN ModelsOf, ChooseTask(t) PROVE ModelFits'
  <2>1. task' = t /\ modelType' \in {modelType, ModelsOf[t][1]} /\ (modelType' = modelType => modelType \in ModelsFor(t) \/ modelType = ModelsOf[t][1])
    BY <1>2 DEF ChooseTask
  <2> QED
    BY <2>1, ModelsGiven DEF ModelFits
<1>3. ASSUME NEW m \in ModelsFor(task), ChooseModel(m) PROVE ModelFits'
  BY <1>3 DEF ChooseModel, ModelFits
<1>4. CASE UNCHANGED trainVars
  BY <1>1, <1>4 DEF trainVars
<1>5. ASSUME NEW r \in runs, TrainAnswered(r) \/ TrainQueued(r) \/ TrainEnds(r) PROVE ModelFits'
  BY <1>1, <1>5 DEF TrainAnswered, TrainQueued, TrainEnds
<1>6. ASSUME NEW f, Choose(f) PROVE ModelFits'
  BY <1>1, <1>6 DEF Choose
<1>7. CASE TrainRefused \/ RunTrain \/ CancelTrain
  BY <1>1, <1>7 DEF TrainRefused, RunTrain, CancelTrain
<1>8. CASE TickAgain \/ SignInOrOut \/ \E j \in RunIds : JobEnds(j)
  BY <1>4, <1>8 DEF TickAgain, SignInOrOut, JobEnds
<1>9. ASSUME NEW t, TickRead(t) \/ TickArrives(t) \/ TickFails(t) PROVE ModelFits'
  BY <1>4, <1>9 DEF TickRead, TickArrives, TickFails
<1>10. CASE ChoosePrediction \/ RunPredict \/ PredictEnds \/ UNCHANGED runVars
  BY <1>4, <1>10 DEF ChoosePrediction, RunPredict, PredictEnds, runVars
<1> QED
  BY <1>2, <1>3, <1>5, <1>6, <1>7, <1>8, <1>9, <1>10 DEF RunNext, WorkNext, TaskNext

LEMMA RunCountsStep ==
    ASSUME WorkInv, WatchInv, RunCounts, RunNext \/ UNCHANGED runVars
    PROVE  RunCounts'
<1> USE DEF RunCounts
<1>0. /\ runs \subseteq Handlers /\ \A r \in Handlers : r.n \in 0 .. MaxRuns
      /\ \A j \in RunIds : j \in 0 .. MaxRuns
  BY RunAssumption DEF WorkInv, Handlers, RunIds
<1>1. CASE TaskNext
  BY <1>1 DEF TaskNext, ChooseTask, ChooseModel, jobVars, predictVars
<1>2. ASSUME NEW f, Choose(f) PROVE RunCounts'
  BY <1>2 DEF Choose, jobVars, predictVars
<1>3. CASE TrainRefused
  BY <1>3, RunAssumption DEF TrainRefused, jobVars, predictVars
<1>4. CASE RunTrain
  BY <1>4, RunAssumption DEF RunTrain, jobVars, predictVars
<1>5. CASE CancelTrain
  BY <1>5 DEF CancelTrain, jobVars, predictVars
<1>6. ASSUME NEW r \in runs, TrainAnswered(r) PROVE RunCounts'
  BY <1>0, <1>6 DEF TrainAnswered, jobVars, predictVars
<1>7. ASSUME NEW r \in runs, TrainQueued(r) PROVE RunCounts'
  BY <1>0, <1>7 DEF TrainQueued, predictVars
<1>8. ASSUME NEW r \in runs, TrainEnds(r) PROVE RunCounts'
  <2>1. 0 \in 0 .. MaxRuns
    BY RunAssumption
  <2>2. /\ abortRef' = 0 /\ training' = FALSE
        /\ UNCHANGED <<runCount, result, newestJob, jobOver, predicting, signedIn, cutOff>>
    BY <1>8 DEF TrainEnds, jobVars
  <2> QED
    BY <2>1, <2>2
<1>9. ASSUME NEW j \in RunIds, JobEnds(j) PROVE RunCounts'
  BY <1>9 DEF JobEnds, trainVars, predictVars
<1>10. CASE TickAgain
  BY <1>10 DEF TickAgain, trainVars, predictVars
<1>11. CASE SignInOrOut
  BY <1>11 DEF SignInOrOut, trainVars, predictVars
<1>12. ASSUME NEW t, TickRead(t) \/ TickFails(t) PROVE RunCounts'
  BY <1>12 DEF TickRead, TickFails, trainVars, predictVars
<1>13. ASSUME NEW t, TickArrives(t) PROVE RunCounts'
  BY <1>13 DEF TickArrives, trainVars, predictVars
<1>14. CASE ChoosePrediction \/ RunPredict \/ PredictEnds
  BY <1>14 DEF ChoosePrediction, RunPredict, PredictEnds, trainVars, jobVars
<1>15. CASE UNCHANGED runVars
  BY <1>15 DEF runVars, trainVars, jobVars, predictVars
<1> QED
  BY <1>1, <1>2, <1>3, <1>4, <1>5, <1>6, <1>7, <1>8, <1>9, <1>10, <1>11, <1>12, <1>13, <1>14, <1>15
  DEF RunNext, WorkNext

LEMMA RunRecsStep ==
    ASSUME WorkInv, WatchInv, RunRecs, RunNext \/ UNCHANGED runVars
    PROVE  RunRecs'
<1> USE DEF RunRecs
<1>0. /\ runs \subseteq Handlers /\ NoLine \in [job : 0 .. MaxRuns, over : BOOLEAN]
      /\ \A r \in Handlers : r.n \in RunIds /\ r.file \in DataFiles
      /\ \A t \in ticks : t \in Polls
      /\ \A j \in RunIds : j \in 0 .. MaxRuns
  BY RunAssumption DEF WorkInv, WatchInv, Handlers, RunIds, NoLine
<1>1. ASSUME UNCHANGED <<trainedOn, predictOn>>, line' \in {line, NoLine} PROVE RunRecs'
  BY <1>0, <1>1
<1>2. CASE TaskNext
  BY <1>1, <1>2 DEF TaskNext, ChooseTask, ChooseModel, jobVars, predictVars
<1>3. ASSUME NEW f, Choose(f) PROVE RunRecs'
  BY <1>1, <1>3 DEF Choose, jobVars, predictVars
<1>4. CASE TrainRefused \/ RunTrain \/ CancelTrain
  BY <1>1, <1>4 DEF TrainRefused, RunTrain, CancelTrain, jobVars, predictVars
<1>6. ASSUME NEW r \in runs, TrainAnswered(r) PROVE RunRecs'
  BY <1>0, <1>6 DEF TrainAnswered, jobVars, predictVars
<1>7. ASSUME NEW r \in runs, TrainQueued(r) PROVE RunRecs'
  BY <1>1, <1>7 DEF TrainQueued, WatchJob, predictVars
<1>8. ASSUME NEW r \in runs, TrainEnds(r) PROVE RunRecs'
  <2>1. [model |-> r.n, file |-> r.file] \in [model : 0 .. MaxRuns, file : DataFiles \cup {NoData}]
    BY <1>0
  <2>2. predictOn' \in {[model |-> r.n, file |-> r.file], predictOn} /\ UNCHANGED <<trainedOn, line>>
    BY <1>8 DEF TrainEnds, jobVars
  <2> QED
    BY <2>1, <2>2
<1>9. CASE TickAgain \/ \E j \in RunIds : JobEnds(j)
  BY <1>1, <1>9 DEF TickAgain, JobEnds, trainVars, predictVars
<1>11. CASE SignInOrOut
  BY <1>1, <1>11 DEF SignInOrOut, trainVars, predictVars
<1>12. ASSUME NEW t, TickRead(t) \/ TickFails(t) PROVE RunRecs'
  BY <1>1, <1>12 DEF TickRead, TickFails, trainVars, predictVars
<1>13. ASSUME NEW t \in ticks, TickArrives(t) PROVE RunRecs'
  <2>1. UNCHANGED <<trainedOn, predictOn>> /\ line' \in {line, NoLine, [job |-> t.job, over |-> FALSE]}
    BY <1>13 DEF TickArrives, trainVars, predictVars
  <2>2. t.job \in 0 .. MaxRuns
    BY <1>0, PollFields DEF Polls
  <2>3. [job |-> t.job, over |-> FALSE] \in [job : 0 .. MaxRuns, over : BOOLEAN]
    BY <2>2
  <2> QED
    BY <1>0, <2>1, <2>3
<1>14. CASE ChoosePrediction
  <2>1. PICK n \in KnownModels, f \in DataFiles :
            predictOn' \in {[predictOn EXCEPT !.model = n], [predictOn EXCEPT !.file = f]}
    BY <1>14 DEF ChoosePrediction
  <2>2. n \in 0 .. MaxRuns
    BY <1>0 DEF KnownModels
  <2> QED
    BY <1>14, <2>1, <2>2 DEF ChoosePrediction, trainVars, jobVars
<1>15. CASE RunPredict \/ PredictEnds
  BY <1>1, <1>15 DEF RunPredict, PredictEnds, trainVars, jobVars
<1>16. CASE UNCHANGED runVars
  BY <1>1, <1>16 DEF runVars, trainVars, jobVars, predictVars
<1> QED
  BY <1>2, <1>3, <1>4, <1>6, <1>7, <1>8, <1>9, <1>11, <1>12, <1>13, <1>14, <1>15, <1>16
  DEF RunNext, WorkNext

LEMMA RunTypeStep ==
    ASSUME WorkInv, WatchInv, RunType, RunNext \/ UNCHANGED runVars
    PROVE  RunType'
BY ModelFitsStep, RunCountsStep, RunRecsStep DEF RunType

LEMMA RunTypeSound == ASSUME WorkInv, WatchInv, RunType PROVE RunTypeOK
<1>1. poll \in 0 .. MaxRuns
  BY RunAssumption DEF WatchInv, RunIds
<1> QED
  BY <1>1 DEF WorkInv, WatchInv, RunType, ModelFits, RunCounts, RunRecs, RunTypeOK, Handlers, Polls

NewestStages == {"none", "pending", "shown", "lost"}

\* A log is asked for only of a job: the one that is named, open or acted on.
ConsoleType ==
    /\ DOMAIN status \subseteq JobIds /\ \A j \in DOMAIN status : status[j] \in Statuses
    /\ DOMAIN table \subseteq JobIds
    /\ {focus, openLog, logOf} \subseteq SomeJob /\ logLoading \in BOOLEAN /\ newestLog \in NewestStages
    /\ logAsks \in Seq(JobIds)
    /\ acting \in Acts /\ (acting.kind # "none" => acting.job \in JobIds)

LEMMA ConsoleTypeInit == ASSUME ConsoleInit PROVE ConsoleType
<1>1. logAsks \in Seq(JobIds)
  BY EmptySeq DEF ConsoleInit
<1>2. DOMAIN table = {}
  BY DEF ConsoleInit
<1>3. NoAct.kind = "none"
  BY DEF NoAct
<1> QED
  BY <1>1, <1>2, <1>3, ActFields DEF ConsoleInit, ConsoleType, NewestStages, SomeJob, JobIds, Statuses

LEMMA FetchType ==
    ASSUME ConsoleType, NEW j \in JobIds, FetchLogs(j)
    PROVE  logLoading' \in BOOLEAN /\ logAsks' \in Seq(JobIds) /\ newestLog' \in NewestStages
BY DEF FetchLogs, ConsoleType, NewestStages

LEMMA TableType ==
    ASSUME ConsoleType, TableArrives
    PROVE  /\ table' = status /\ openLog' \in SomeJob
           /\ logLoading' \in BOOLEAN /\ logAsks' \in Seq(JobIds) /\ newestLog' \in NewestStages
<1>1. CASE focus \in DOMAIN status
  <2>1. focus \in JobIds /\ table' = status /\ openLog' = focus /\ FetchLogs(focus)
    BY <1>1 DEF TableArrives, ConsoleType
  <2> QED
    BY <2>1, FetchType DEF SomeJob
<1>2. CASE focus \notin DOMAIN status
  BY <1>2 DEF TableArrives, ConsoleType
<1> QED
  BY <1>1, <1>2

LEMMA ConsoleTypeStep ==
    ASSUME ConsoleType, ConsoleNext \/ UNCHANGED consoleVars
    PROVE  ConsoleType'
<1>0. /\ {focus, openLog, logOf} \subseteq SomeJob /\ JobIds \subseteq SomeJob /\ NoJob \in SomeJob
      /\ SomeJob \ {NoJob} \subseteq JobIds
      /\ logAsks \in Seq(JobIds) /\ acting \in Acts /\ (acting.kind # "none" => acting.job \in JobIds)
      /\ DOMAIN status \subseteq JobIds /\ DOMAIN table \subseteq JobIds
  BY DEF ConsoleType, SomeJob
\* Steps that leave the jobs of the server and the handler alone.
<1>1. ASSUME UNCHANGED <<status, acting>>, DOMAIN table' \subseteq JobIds,
             focus' \in SomeJob, openLog' \in SomeJob, logOf' \in SomeJob,
             logLoading' \in BOOLEAN, logAsks' \in Seq(JobIds), newestLog' \in NewestStages
      PROVE  ConsoleType'
  BY <1>1 DEF ConsoleType
<1>2. logLoading \in BOOLEAN /\ newestLog \in NewestStages
  BY DEF ConsoleType
<1>3. CASE LoadJobs
  <2>1. TableArrives /\ UNCHANGED <<status, focus, logOf, acting>>
    BY <1>3 DEF LoadJobs
  <2> QED
    BY <1>0, <1>1, <2>1, TableType
<1>4. CASE LoadJobsFails
  <2>1. DOMAIN table' = {} /\ UNCHANGED <<status, focus, openLog, logOf, logLoading, logAsks, acting, newestLog>>
    BY <1>4 DEF LoadJobsFails
  <2> QED
    BY <1>0, <1>1, <1>2, <2>1
<1>5. ASSUME NEW j \in JobIds, FocusJob(j) PROVE ConsoleType'
  <2>1. focus' = j /\ UNCHANGED <<status, table, logOf, acting>>
    BY <1>5 DEF FocusJob
  <2>2. CASE openLog' = j /\ FetchLogs(j)
    BY <1>0, <1>1, <2>1, <2>2, FetchType
  <2>3. CASE UNCHANGED <<openLog, logLoading, logAsks, newestLog>>
    BY <1>0, <1>1, <1>2, <2>1, <2>3
  <2> QED
    BY <1>5, <2>2, <2>3 DEF FocusJob
<1>6. ASSUME NEW j \in JobIds, OpenLog(j) PROVE ConsoleType'
  <2>1. openLog' = j /\ FetchLogs(j) /\ UNCHANGED <<status, table, focus, logOf, acting>>
    BY <1>6 DEF OpenLog
  <2> QED
    BY <1>0, <1>1, <2>1, FetchType
<1>7. CASE RefreshLog
  <2>1. openLog # NoJob /\ FetchLogs(openLog) /\ UNCHANGED <<status, table, focus, logOf, acting, openLog>>
    BY <1>7 DEF RefreshLog, DialogParts
  <2>2. openLog \in JobIds
    BY <1>0, <2>1
  <2> QED
    BY <1>0, <1>1, <2>1, <2>2, FetchType
<1>8. CASE CloseLog
  <2>1. openLog' = NoJob /\ logOf' \in {NoJob, logOf} /\ UNCHANGED <<status, table, focus, logLoading, logAsks, acting, newestLog>>
    BY <1>8 DEF CloseLog
  <2> QED
    BY <1>0, <1>1, <1>2, <2>1
<1>9. ASSUME NEW i \in DOMAIN logAsks, LogArrives(i) PROVE ConsoleType'
  <2>1. /\ logOf' \in {logAsks[i], NoJob} /\ logLoading' = FALSE /\ newestLog' \in NewestStages
        /\ logAsks' = RemoveAt(logAsks, i) /\ UNCHANGED <<status, table, focus, openLog, acting>>
    BY <1>2, <1>9 DEF LogArrives, NewestStages
  <2>2. logAsks[i] \in JobIds /\ logAsks' \in Seq(JobIds)
    BY <1>0, <2>1, RemoveAtLeaves
  <2> QED
    BY <1>0, <1>1, <2>1, <2>2
\* Steps of the handler.
<1>10. ASSUME UNCHANGED <<status, focus, logOf>>, acting' \in Acts, acting'.kind # "none" => acting'.job \in JobIds,
             DOMAIN table' \subseteq JobIds, openLog' \in SomeJob,
             logLoading' \in BOOLEAN, logAsks' \in Seq(JobIds), newestLog' \in NewestStages
      PROVE  ConsoleType'
  BY <1>10 DEF ConsoleType
<1>11. ASSUME NEW act \in {"cancel", "retry"}, NEW j \in JobIds, Act(act, j) PROVE ConsoleType'
  <2>1. /\ acting' = [kind |-> act, job |-> j, saw |-> openLog, stage |-> 1]
        /\ UNCHANGED <<status, table, focus, openLog, logOf, logLoading, logAsks, newestLog>>
    BY <1>11 DEF Act
  <2>2. acting' \in Acts /\ acting'.job = j
    BY <1>0, <2>1 DEF Acts
  <2> QED
    BY <1>0, <1>2, <1>10, <2>1, <2>2
<1>12. CASE ServerActs
  <2>1. UNCHANGED <<table, focus, openLog, logOf, logLoading, logAsks, newestLog>>
    BY <1>12 DEF ServerActs
  <2>2. CASE UNCHANGED status /\ acting' = NoAct
    <3>1. acting'.kind = "none" /\ acting' \in Acts
      BY <2>2, ActFields DEF NoAct
    <3> QED
      BY <1>0, <1>2, <1>10, <2>1, <2>2, <3>1
  <2>3. ASSUME DOMAIN status' \subseteq JobIds, \A j \in DOMAIN status' : status'[j] \in Statuses,
               acting' \in Acts, acting'.job \in JobIds
        PROVE  ConsoleType'
    BY <1>0, <1>2, <2>1, <2>3 DEF ConsoleType
  <2>4. CASE acting.kind = "cancel" /\ status' = [status EXCEPT ![acting.job] = "cancelled"] /\ acting' = [acting EXCEPT !.stage = 2]
    <3>1. acting' \in Acts /\ acting'.job = acting.job
      BY <1>0, <2>4, ActStages DEF Acts
    <3> QED
      BY <1>0, <2>3, <2>4, <3>1 DEF ConsoleType, Statuses
  <2>5. ASSUME NEW n \in RetryJobs,
               status' = [j \in DOMAIN status \cup {n} |-> IF j = n THEN "queued" ELSE status[j]],
               acting' = [acting EXCEPT !.stage = 2, !.job = n]
        PROVE  ConsoleType'
    <3>1. n \in JobIds /\ acting' \in Acts /\ acting'.job = n
      BY <1>0, <2>5, ActStages DEF Acts, JobIds, SomeJob
    <3> QED
      BY <1>0, <2>3, <2>5, <3>1 DEF ConsoleType, Statuses
  <2> QED
    BY <1>12, <2>2, <2>4, <2>5 DEF ServerActs
<1>13. CASE ActReloads
  <2>1. acting.stage = 2 /\ TableArrives /\ acting' = [acting EXCEPT !.stage = 3] /\ UNCHANGED <<status, focus, logOf>>
    BY <1>13 DEF ActReloads
  <2>2. acting' \in Acts /\ acting'.kind = acting.kind /\ acting'.job = acting.job
    BY <1>0, <2>1, ActStages DEF Acts
  <2> QED
    BY <1>0, <1>10, <2>1, <2>2, TableType
<1>14. CASE ActShows
  <2>1. acting' = NoAct /\ UNCHANGED <<status, table, focus, logOf>>
    BY <1>14 DEF ActShows
  <2>2. acting'.kind = "none" /\ acting' \in Acts
    BY <2>1, ActFields DEF NoAct
  <2>3. CASE acting.kind # "none" /\ openLog' \in {openLog, acting.job} /\ FetchLogs(acting.job)
    <3>1. acting.job \in JobIds
      BY <1>0, <2>3
    <3> QED
      BY <1>0, <1>10, <2>1, <2>2, <2>3, <3>1, FetchType
  <2>4. CASE UNCHANGED <<openLog, logLoading, logAsks, newestLog>>
    BY <1>0, <1>2, <1>10, <2>1, <2>2, <2>4
  <2> QED
    BY <1>14, <2>3, <2>4 DEF ActShows
<1>15. ASSUME NEW j \in DOMAIN status, JobAdvances(j) PROVE ConsoleType'
  <2>1. /\ DOMAIN status' = DOMAIN status /\ \A i \in DOMAIN status : status'[i] \in {status[i], "running", "completed"}
        /\ UNCHANGED <<table, focus, openLog, logOf, logLoading, logAsks, acting, newestLog>>
    BY <1>15 DEF JobAdvances
  <2> QED
    BY <2>1 DEF ConsoleType, Statuses
<1>16. CASE UNCHANGED consoleVars
  BY <1>16 DEF consoleVars, ConsoleType
<1> QED
  BY <1>3, <1>4, <1>5, <1>6, <1>7, <1>8, <1>9, <1>11, <1>12, <1>13, <1>14, <1>15, <1>16
  DEF ConsoleNext, ConsoleStep

LEMMA ConsoleTypeSound == ASSUME ConsoleType PROVE ConsoleTypeOK
BY DEF ConsoleType, ConsoleTypeOK, NewestStages, SomeJob, Acts

(* The cells of an activity. *)
PageType ==
    /\ \A c \in Cells : cellState[c].outputs \in 0 .. MaxCellRuns
    /\ {runningCell, active} \subseteq Cells \cup {NoCell}
    /\ restored \subseteq Cells /\ overlapped \subseteq Cells

LEMMA PageTypeSound == ASSUME PageInv, PageType PROVE PageTypeOK
<1>1. CellKinds = Types
  BY PageAssumption DEF CellKinds
<1>2. /\ order \in Seq(Cells) /\ kind \in [Cells -> Types] /\ cellState \in [Cells -> CellRecords]
      /\ cellRuns \in Seq(RunRecordsOfCells)
  BY <1>1 DEF PageInv, PageShape
<1>3. \A c \in Cells : cellState[c].status \in {"idle", "running", "done", "error"}
  BY <1>2 DEF CellRecords
<1>4. ASSUME NEW r \in DOMAIN cellRuns PROVE cellRuns[r].stage \in {"starting", "asked", "over"}
  <2>1. cellRuns[r] \in RunRecordsOfCells
    BY <1>2
  <2> QED
    BY <2>1 DEF RunRecordsOfCells
<1> QED
  BY <1>2, <1>3, <1>4 DEF PageType, PageTypeOK

LEMMA PageTypeInit == ASSUME PageInit PROVE PageType
<1>1. cellState = [c \in Cells |-> Fresh] /\ Fresh.outputs = 0 /\ 0 \in 0 .. MaxCellRuns
  BY PageAssumption DEF PageInit, Fresh
<1> QED
  BY <1>1 DEF PageInit, PageType

LEMMA PageTypeStep ==
    ASSUME PageInv, PageType, PageNext \/ UNCHANGED pageVars
    PROVE  PageType'
<1>1. cellState \in [Cells -> CellRecords] /\ cellRuns \in Seq(RunRecordsOfCells)
  BY DEF PageInv, PageShape
<1>0. 0 \in 0 .. MaxCellRuns
  BY PageAssumption
\* What is under a cell is of no run or of one that was begun.
<1>2. ASSUME NEW c \in Cells, NEW s, s.outputs \in 0 .. MaxCellRuns,
             cellState' = [cellState EXCEPT ![c] = s]
      PROVE  \A d \in Cells : cellState'[d].outputs \in 0 .. MaxCellRuns
  BY <1>1, <1>2 DEF PageType
<1>3. CASE UNCHANGED pageVars
  BY <1>3 DEF pageVars, PageType
<1>4. ASSUME NEW c \in Cells, NEW t \in CellTypes, NEW i, AddCell(c, t, i) PROVE PageType'
  BY <1>4 DEF AddCell, PageType
<1>5. ASSUME NEW i, NEW j, MoveCell(i, j) PROVE PageType'
  BY <1>5 DEF MoveCell, PageType
<1>6. ASSUME NEW c \in Cells, RemoveCell(c) PROVE PageType'
  <2>1. cellState' = [cellState EXCEPT ![c] = Fresh] /\ Fresh.outputs \in 0 .. MaxCellRuns
    BY <1>6, <1>0 DEF RemoveCell, Fresh
  <2>2. \A d \in Cells : cellState'[d].outputs \in 0 .. MaxCellRuns
    BY <1>2, <2>1
  <2> QED
    BY <1>6, <2>2 DEF RemoveCell, PageType
<1>7. ASSUME NEW c \in Cells, FocusCell(c) PROVE PageType'
  BY <1>7 DEF FocusCell, keepPage, PageType
<1>8. CASE ChangeActivity \/ StartKernel
  BY <1>8 DEF ChangeActivity, StartKernel, keepPage, PageType
<1>9. ASSUME NEW ok \in BOOLEAN, StartAnswers(ok) PROVE PageType'
  BY <1>9 DEF StartAnswers, keepPage, PageType
<1>10. ASSUME NEW c \in Cells, RunCell(c) PROVE PageType'
  <2> DEFINE s == [status |-> "running", outputs |-> 0]
  <2>1. cellState' = [cellState EXCEPT ![c] = s] /\ s.outputs \in 0 .. MaxCellRuns
    BY <1>10, <1>0 DEF RunCell
  <2> HIDE DEF s
  <2>2. \A d \in Cells : cellState'[d].outputs \in 0 .. MaxCellRuns
    BY <1>2, <2>1
  <2>3. /\ runningCell' = c /\ UNCHANGED active /\ restored' = restored \ {c}
        /\ overlapped' \in {overlapped \ {c}, overlapped \cup {c}}
    BY <1>10 DEF RunCell
  <2> QED
    BY <2>2, <2>3 DEF PageType
<1>11. ASSUME NEW r \in 1 .. MaxCellRuns, NEW st \in {"done", "error"}, RunAnswers(r, st)
       PROVE  PageType'
  <2>0. r \in DOMAIN cellRuns
    BY <1>11 DEF RunAnswers
  <2>9. cellRuns[r] \in RunRecordsOfCells
    BY <1>1, <2>0
  <2>1. cellRuns[r].cell \in Cells
    BY <2>9 DEF RunRecordsOfCells
  <2>2. PICK c \in Cells : c = cellRuns[r].cell
    BY <2>1
  <2> DEFINE s == [status |-> st, outputs |-> r]
  <2>3. s.outputs \in 0 .. MaxCellRuns
    BY PageAssumption
  <2>4. cellState' = [cellState EXCEPT ![c] = s] \/ UNCHANGED cellState
    BY <1>11, <2>2 DEF RunAnswers
  <2> HIDE DEF s
  <2>5. \A d \in Cells : cellState'[d].outputs \in 0 .. MaxCellRuns
    BY <1>2, <2>3, <2>4 DEF PageType
  <2>6. runningCell' = NoCell /\ UNCHANGED <<active, overlapped, restored>>
    BY <1>11 DEF RunAnswers, keepPage
  <2> QED
    BY <2>5, <2>6 DEF PageType
<1>12. CASE LeavePage \/ ReturnToPage
  BY <1>12 DEF LeavePage, ReturnToPage, PageType
<1> QED
  BY <1>3, <1>4, <1>5, <1>6, <1>7, <1>8, <1>9, <1>10, <1>11, <1>12 DEF PageNext

-----------------------------------------------------------------------------
(* The notebook. *)
NbType == activeCell \in Sheets /\ {nbOpen, isRunning} \subseteq BOOLEAN

LEMMA NbTypeSound == ASSUME NbInv, NbType PROVE NotebookV2TypeOK
<1>1. sheet \in Seq(SheetRecords)
  BY DEF NbInv, NbShape
<1>2. ASSUME NEW i \in DOMAIN sheet
      PROVE  /\ sheet[i].id \in Sheets /\ sheet[i].type \in SheetTypes
             /\ sheet[i].status \in {"idle", "running", "complete", "error"}
             /\ CellOutput(sheet[i]) \in {"nothing", "preview", "stub", "agent"}
  <2>1. sheet[i] \in SheetRecords
    BY <1>1
  <2> QED
    BY <2>1, NotebookV2Assumption DEF SheetRecords, SheetKindsAll, SheetTypes, CellOutput
<1> QED
  BY <1>2 DEF NbType, NotebookV2TypeOK

LEMMA NbTypeInit == ASSUME NotebookInit PROVE NbType
<1>1. (CHOOSE s \in Sheets : TRUE) \in Sheets
  BY NotebookV2Assumption
<1> QED
  BY <1>1 DEF NotebookInit, NbType

LEMMA NbTypeStep ==
    ASSUME NbInv, NbType, NotebookNext \/ UNCHANGED nbVars
    PROVE  NbType'
<1>1. CASE UNCHANGED nbVars
  BY <1>1 DEF nbVars, NbType
<1>2. ASSUME NEW c \in Sheets, NEW d \in Sheets, NEW t \in Convertible,
             AddCellV2(c, t, d) \/ SubmitInstruction(c) \/ DuplicateCell(c, d) \/ ActivateCell(c)
      PROVE  NbType'
  BY <1>2 DEF AddCellV2, SubmitInstruction, DuplicateCell, ActivateCell, Insert, nbRest, NbType
<1>3. ASSUME NEW c \in Sheets, RemoveCellV2(c) PROVE NbType'
  <2>1. sheet \in Seq(SheetRecords)
    BY DEF NbInv, NbShape
  <2>2. 1 \in DOMAIN sheet
    BY <1>3, <2>1 DEF RemoveCellV2, OnSheet, IndexOf
  <2>4. sheet[1] \in SheetRecords
    BY <2>1, <2>2
  <2>3. sheet[1].id \in Sheets
    BY <2>4 DEF SheetRecords
  <2> QED
    BY <1>3, <2>3 DEF RemoveCellV2, nbRest, NbType
<1>4. ASSUME NEW i, NEW t \in Convertible, NEW tool \in {"up", "down"},
             MoveCellV2(i, tool) \/ ConvertCell(i, t) \/ RunOne(i)
      PROVE  NbType'
  BY <1>4 DEF MoveCellV2, ConvertCell, RunOne, nbRest, NbType
<1>5. CASE RunAll \/ NextOfAll \/ LeaveNotebook \/ ReturnToNotebook
  BY <1>5 DEF RunAll, NextOfAll, LeaveNotebook, ReturnToNotebook, NbType
<1>6. ASSUME NEW p, NEW ok \in BOOLEAN, PromptAnswers(p, ok) PROVE NbType'
  BY <1>6 DEF PromptAnswers, NbType
<1> QED
  BY <1>1, <1>2, <1>3, <1>4, <1>5, <1>6 DEF NotebookNext

(* The panel of results. *)
PanelType == comparing \in BOOLEAN /\ panelTab \in PanelTabs /\ facts \subseteq Facts

\* The first of the alternatives there is.
LEMMA FirstIsOne ==
    ASSUME NEW S \in SUBSET (1 .. 4), S # {}
    PROVE  (CHOOSE k \in S : \A j \in S : k <= j) \in S
<1>1. \E k \in S : \A j \in S : k <= j
  <2>1. CASE 1 \in S
    BY <2>1
  <2>2. CASE 1 \notin S /\ 2 \in S
    BY <2>2
  <2>3. CASE 1 \notin S /\ 2 \notin S /\ 3 \in S
    BY <2>3
  <2>4. CASE 1 \notin S /\ 2 \notin S /\ 3 \notin S
    <3>1. PICK x \in S : TRUE
      OBVIOUS
    <3>2. x = 4 /\ \A j \in S : x <= j
      BY <2>4
    <3> QED
      BY <3>1, <3>2
  <2> QED
    BY <2>1, <2>2, <2>3, <2>4
<1> QED
  BY <1>1

LEMMA FirstIsFact ==
    ASSUME PanelType, NEW alternatives, DOMAIN alternatives \subseteq 1 .. 4
    PROVE  FirstOf(alternatives) \in Facts \cup {"nothing yet"}
<1> DEFINE there == {k \in DOMAIN alternatives : alternatives[k] \in facts}
<1>1. CASE there = {}
  BY <1>1 DEF FirstOf
<1>2. CASE there # {}
  <2> DEFINE first == CHOOSE k \in there : \A j \in there : k <= j
  <2>1. first \in there
    BY <1>2, FirstIsOne
  <2>2. FirstOf(alternatives) = alternatives[first]
    BY <1>2 DEF FirstOf
  <2> QED
    BY <2>1, <2>2 DEF PanelType
<1> QED
  BY <1>1, <1>2

LEMMA BodyIsFact == ASSUME PanelType PROVE PanelBody \in Facts \cup {"nothing yet"}
<1>1. /\ DOMAIN <<"trainErr", "trainResult", "predictPreview", "history">> \subseteq 1 .. 4
      /\ DOMAIN <<"preview", "predictPreview">> \subseteq 1 .. 4
      /\ DOMAIN <<"trainResult">> \subseteq 1 .. 4 /\ DOMAIN <<"history">> \subseteq 1 .. 4
      /\ DOMAIN <<"plot">> \subseteq 1 .. 4 /\ DOMAIN <<"datasets">> \subseteq 1 .. 4
  OBVIOUS
<1>2. /\ ResultsBody \in Facts \cup {"nothing yet"} /\ TablesBody \in Facts \cup {"nothing yet"}
      /\ FirstOf(<<"trainResult">>) \in Facts \cup {"nothing yet"}
      /\ FirstOf(<<"history">>) \in Facts \cup {"nothing yet"}
      /\ FirstOf(<<"plot">>) \in Facts \cup {"nothing yet"}
      /\ FirstOf(<<"datasets">>) \in Facts \cup {"nothing yet"}
  BY <1>1, FirstIsFact DEF ResultsBody, TablesBody
<1>3. SummaryBody.training = FirstOf(<<"trainResult">>)
  BY DEF SummaryBody
<1> QED
  BY <1>2, <1>3 DEF PanelBody

LEMMA PanelTypeSound == ASSUME PanelInv, PanelType PROVE PanelTypeOK
<1>1. PICK n \in 0 .. MaxListed : listedRuns = [i \in 1 .. n |-> i]
  BY DEF PanelInv
<1>2. MaxListed \in Nat /\ n \in Nat /\ n <= MaxListed
  BY PanelAssumption
<1>3. DOMAIN HistoryRuns = 1 .. n
  BY <1>1, <1>2, ListedGives
<1>4. ToSet(picked) \subseteq 1 .. MaxListed /\ Len(picked) <= 3
  BY <1>2, <1>3 DEF PanelInv
<1>5. \A s \in 1 .. 6 : StepStatus(s, 1) \in {"done", "in_progress", "todo"}
  BY DEF StepStatus
<1>6. {comparing, grown} \subseteq BOOLEAN
  BY DEF PanelType, PanelInv
<1> QED
  BY <1>4, <1>5, <1>6, BodyIsFact DEF PanelType, PanelTypeOK

LEMMA PanelTypeInit == ASSUME PanelInit PROVE PanelType
BY DEF PanelInit, PanelType, PanelTabs

LEMMA PanelTypeStep ==
    ASSUME PanelType, ResultsNext \/ UNCHANGED resultsVars
    PROVE  PanelType'
<1>1. CASE CompareNext
  BY <1>1 DEF CompareNext, HistoryLoads, ToggleRun, ToggleCompare, ClearRuns, panelVars, compareVars,
              PanelType, PanelTabs
<1>2. CASE SizeNext
  BY <1>2 DEF SizeNext, FrameThePanel, compareVars, PanelType
<1>3. CASE PanelViewNext
  BY <1>3 DEF PanelViewNext, ChooseTab, FactChanges, compareVars, PanelType
<1> QED
  BY <1>1, <1>2, <1>3 DEF ResultsNext, resultsVars, compareVars, panelVars, PanelType

-----------------------------------------------------------------------------
(* The run of the canvas, the notebook reset under it or not. *)
BoundedLoops == [id : 0 .. MaxCanvasRuns, at : 1 .. PhaseCount, cancelled : BOOLEAN]
BoundedBlocks == [stage : 0 .. PhaseCount + 1, of : 0 .. MaxCanvasRuns, metrics : 0 .. MaxCanvasRuns]
FewRecords(recs) == recs \in Seq(RunRecords) /\ Len(recs) <= RecordsKept

CanvasType ==
    /\ canvasOpen \in BOOLEAN /\ astray \in BOOLEAN
    /\ canvasStarts \in 0 .. MaxCanvasRuns /\ loops \subseteq BoundedLoops
    /\ runBlock \in BoundedBlocks /\ keptCanvas[1] \in BoundedBlocks
    /\ FewRecords(records) /\ FewRecords(keptCanvas[2])

LEMMA CanvasTypeSound == ASSUME CanvasType PROVE CanvasRunTypeOK
BY DEF CanvasType, BoundedBlocks, FewRecords, CanvasRunTypeOK

LEMMA FreshFits == FreshBlock \in BoundedBlocks /\ FewRecords(<<>>)
<1>1. FreshBlock \in BoundedBlocks
  BY CanvasRunAssumption DEF FreshBlock, BoundedBlocks, Idle, NoRun
<1>2. Len(<<>>) = 0 /\ <<>> \in Seq(RunRecords)
  BY EmptySeq
<1> QED
  BY <1>1, <1>2, CanvasRunAssumption DEF FewRecords

LEMMA CanvasTypeInit == ASSUME CanvasRunInit PROVE CanvasType
<1>1. /\ canvasOpen = TRUE /\ astray = FALSE /\ canvasStarts = 0 /\ loops = {}
      /\ runBlock = FreshBlock /\ records = <<>>
      /\ keptCanvas[1] = FreshBlock /\ keptCanvas[2] = <<>>
  BY DEF CanvasRunInit
<1>2. 0 \in 0 .. MaxCanvasRuns
  BY CanvasRunAssumption
<1> QED
  BY <1>1, <1>2, FreshFits DEF CanvasType

LEMMA AddRunFits ==
    ASSUME NEW recs, FewRecords(recs), NEW r \in Nat
    PROVE  FewRecords(AddRun(recs, r))
<1> DEFINE new == [id |-> r, status |-> "queued", best |-> FALSE]
           all == <<new>> \o recs
           n == IF Len(all) > RecordsKept THEN RecordsKept ELSE Len(all)
<1>0. recs \in Seq(RunRecords) /\ RecordsKept \in Nat
  BY CanvasRunAssumption DEF FewRecords
<1>1. new \in RunRecords
  BY DEF RunRecords
<1> HIDE DEF new
<1>2. <<new>> \in Seq(RunRecords)
  BY <1>1
<1>3. all \in Seq(RunRecords)
  BY <1>0, <1>2
<1> HIDE DEF all
<1>4. n \in 0 .. Len(all) /\ n <= RecordsKept
  BY <1>0, <1>3
<1> HIDE DEF n
<1>5. SubSeq(all, 1, n) \in Seq(RunRecords) /\ Len(SubSeq(all, 1, n)) = n
  BY <1>3, <1>4
<1>6. AddRun(recs, r) = SubSeq(all, 1, n)
  BY DEF AddRun, all, n, new
<1> QED
  BY <1>4, <1>5, <1>6 DEF FewRecords

\* A change of the records that keeps how many they are.
LEMMA SameMany ==
    ASSUME NEW recs, FewRecords(recs), NEW f, DOMAIN f = DOMAIN recs,
           \A i \in DOMAIN recs : f[i] \in RunRecords,
           f = [i \in DOMAIN recs |-> f[i]]
    PROVE  FewRecords(f)
<1>1. recs \in Seq(RunRecords) /\ Len(recs) \in Nat /\ DOMAIN recs = 1 .. Len(recs)
  BY DEF FewRecords
<1>2. f \in Seq(RunRecords) /\ Len(f) = Len(recs)
  BY <1>1
<1> QED
  BY <1>2 DEF FewRecords

LEMMA PatchFits ==
    ASSUME NEW recs, FewRecords(recs), NEW r
    PROVE  FewRecords(PatchRun(recs, r, "completed"))
<1> DEFINE f == PatchRun(recs, r, "completed")
<1>1. recs \in Seq(RunRecords)
  BY DEF FewRecords
<1>2. \A rec \in RunRecords : [rec EXCEPT !.status = "completed"] \in RunRecords
  BY DEF RunRecords
<1>3. DOMAIN f = DOMAIN recs /\ f = [i \in DOMAIN recs |-> f[i]]
  BY DEF PatchRun
<1>4. \A i \in DOMAIN recs : recs[i] \in RunRecords
  BY <1>1
<1>5. \A i \in DOMAIN recs : f[i] \in RunRecords
  BY <1>2, <1>4 DEF PatchRun
<1> HIDE DEF f
<1>6. FewRecords(f)
  BY <1>3, <1>5, SameMany
<1> QED
  BY <1>6 DEF f

LEMMA CanvasTypeStep ==
    ASSUME CanvasType, CanvasRunNext \/ UNCHANGED canvasRunVars
    PROVE  CanvasType'
<1>0. /\ PhaseCount \in Nat \ {0} /\ MaxCanvasRuns \in Nat /\ 0 \in 0 .. MaxCanvasRuns
      /\ canvasOpen \in BOOLEAN /\ astray \in BOOLEAN
      /\ canvasStarts \in 0 .. MaxCanvasRuns /\ loops \subseteq BoundedLoops
      /\ runBlock \in BoundedBlocks /\ keptCanvas[1] \in BoundedBlocks
      /\ FewRecords(records) /\ FewRecords(keptCanvas[2])
  BY CanvasRunAssumption DEF CanvasType
<1>1. CASE StartRun
  <2>1. PICK r : r = canvasStarts + 1
    OBVIOUS
  <2> DEFINE block == [stage |-> 1, of |-> r, metrics |-> NoRun]
             loop == [id |-> r, at |-> 1, cancelled |-> FALSE]
  <2>2. canvasStarts < MaxCanvasRuns
    BY <1>1 DEF StartRun
  <2>3. r \in 0 .. MaxCanvasRuns /\ r \in Nat
    BY <1>0, <2>1, <2>2
  <2>4. block \in BoundedBlocks /\ loop \in BoundedLoops
    BY <1>0, <2>3 DEF BoundedBlocks, BoundedLoops, NoRun
  <2>5. /\ runBlock' = block /\ loops' = loops \cup {loop} /\ records' = AddRun(records, r)
        /\ canvasStarts' = r /\ UNCHANGED <<canvasOpen, keptCanvas, astray>>
    BY <1>1, <2>1 DEF StartRun
  <2> HIDE DEF block, loop
  <2>6. FewRecords(AddRun(records, r))
    BY <1>0, <2>3, AddRunFits
  <2> QED
    BY <1>0, <2>3, <2>4, <2>5, <2>6 DEF CanvasType
<1>2. ASSUME NEW l \in loops, StopsQuietly(l) PROVE CanvasType'
  BY <1>0, <1>2 DEF StopsQuietly, canvasData, CanvasType
<1>3. ASSUME NEW l \in loops, NextPhase(l) PROVE CanvasType'
  <2>1. l \in BoundedLoops /\ l.at < PhaseCount
    BY <1>0, <1>3 DEF NextPhase
  <2> DEFINE loop == [l EXCEPT !.at = @ + 1]
             block == [runBlock EXCEPT !.stage = l.at + 1]
  <2>2. l.at + 1 \in 1 .. PhaseCount /\ l.at + 1 \in 0 .. PhaseCount + 1
    BY <1>0, <2>1 DEF BoundedLoops
  <2>3. loop \in BoundedLoops
    BY <2>1, <2>2 DEF BoundedLoops
  <2>4. block \in BoundedBlocks
    BY <1>0, <2>2 DEF BoundedBlocks
  <2>5. /\ loops' = (loops \ {l}) \cup {loop} /\ runBlock' = block
        /\ UNCHANGED <<canvasOpen, records, keptCanvas, canvasStarts, astray>>
    BY <1>3 DEF NextPhase
  <2> HIDE DEF loop, block
  <2> QED
    BY <1>0, <2>3, <2>4, <2>5 DEF CanvasType
<1>4. ASSUME NEW l \in loops, Completes(l) PROVE CanvasType'
  <2>1. l.id \in 0 .. MaxCanvasRuns
    BY <1>0 DEF BoundedLoops
  <2> DEFINE block == [runBlock EXCEPT !.stage = Completed, !.metrics = l.id]
  <2>2. Completed \in 0 .. PhaseCount + 1
    BY <1>0 DEF Completed
  <2>3. block \in BoundedBlocks
    BY <1>0, <2>1, <2>2 DEF BoundedBlocks
  <2>4. /\ loops' = loops \ {l} /\ runBlock' = block
        /\ records' = PatchRun(records, l.id, "completed")
        /\ UNCHANGED <<canvasOpen, keptCanvas, canvasStarts, astray>>
    BY <1>4 DEF Completes
  <2> HIDE DEF block
  <2>5. FewRecords(PatchRun(records, l.id, "completed"))
    BY <1>0, PatchFits
  <2> QED
    BY <1>0, <2>3, <2>4, <2>5 DEF CanvasType
<1>5. CASE CancelRun
  <2>1. \A l \in BoundedLoops : [l EXCEPT !.cancelled = TRUE] \in BoundedLoops
    BY DEF BoundedLoops
  <2>2. CancelToken \subseteq BoundedLoops
    BY <1>0, <2>1 DEF CancelToken
  <2> DEFINE block == [runBlock EXCEPT !.stage = Idle]
  <2>3. block \in BoundedBlocks
    BY <1>0 DEF BoundedBlocks, Idle
  <2>4. /\ loops' = CancelToken /\ runBlock' = block
        /\ UNCHANGED <<canvasOpen, records, keptCanvas, canvasStarts, astray>>
    BY <1>5 DEF CancelRun
  <2> HIDE DEF block
  <2> QED
    BY <1>0, <2>2, <2>3, <2>4 DEF CanvasType
<1>6. CASE ResetCanvas
  <2>1. /\ runBlock' = FreshBlock /\ records' = <<>>
        /\ keptCanvas'[1] = FreshBlock /\ keptCanvas'[2] = <<>>
        /\ UNCHANGED <<canvasOpen, loops, canvasStarts>>
    BY <1>6 DEF ResetCanvas
  <2>2. astray' \in BOOLEAN
    BY <1>0, <1>6 DEF ResetCanvas
  <2> QED
    BY <1>0, <2>1, <2>2, FreshFits DEF CanvasType
<1>7. CASE CanvasSaved
  <2>1. keptCanvas'[1] = runBlock /\ keptCanvas'[2] = records
        /\ UNCHANGED <<canvasOpen, runBlock, records, loops, canvasStarts, astray>>
    BY <1>7 DEF CanvasSaved, canvasData
  <2> QED
    BY <1>0, <2>1 DEF CanvasType
<1>8. CASE LeaveCanvas
  BY <1>0, <1>8 DEF LeaveCanvas, canvasData, CanvasType
<1>9. CASE ReturnToCanvas
  BY <1>0, <1>9 DEF ReturnToCanvas, CanvasType
<1>10. ASSUME NEW r, MarkBest(r) PROVE CanvasType'
  <2>1. records \in Seq(RunRecords)
    BY <1>0 DEF FewRecords
  <2>2. \A rec \in RunRecords : \A b \in BOOLEAN : [rec EXCEPT !.best = b] \in RunRecords
    BY DEF RunRecords
  <2>3. \A i \in DOMAIN records : records[i] \in RunRecords
    BY <2>1
  <2>4. records' = [i \in DOMAIN records |-> [records[i] EXCEPT !.best = (records[i].id = r)]]
        /\ UNCHANGED <<canvasOpen, runBlock, loops, keptCanvas, canvasStarts, astray>>
    BY <1>10 DEF MarkBest
  <2>5. \A i \in DOMAIN records : records'[i] \in RunRecords
    BY <2>2, <2>3, <2>4
  <2>6. DOMAIN records' = DOMAIN records /\ records' = [i \in DOMAIN records |-> records'[i]]
    BY <2>4
  <2>7. FewRecords(records')
    BY <1>0, <2>5, <2>6, SameMany
  <2> QED
    BY <1>0, <2>4, <2>7 DEF CanvasType
<1>11. ASSUME NEW r, NEW s \in {"A", "B"}, PickForSlot(s, r) PROVE CanvasType'
  BY <1>0, <1>11 DEF PickForSlot, CanvasType
<1>12. CASE UNCHANGED canvasRunVars
  BY <1>0, <1>12 DEF canvasRunVars, canvasData, CanvasType
<1> QED
  BY <1>1, <1>2, <1>3, <1>4, <1>5, <1>6, <1>7, <1>8, <1>9, <1>10, <1>11, <1>12 DEF CanvasRunNext

(* The blocks of the canvas, its free cells and its drawer. *)
BlocksType ==
    /\ numbered \in Nat /\ unfolded \subseteq CanvasBlocks
    /\ warnings \in 0 .. numbered /\ concerned \in 0 .. numbered
    /\ \A q \in underWay : /\ q.number \in 0 .. numbered /\ q.warnings \in 0 .. numbered
                           /\ q.request.told \subseteq ToldOf(q.block)
DynType == dynBusy \subseteq ToSet(dynOrder)
DrawerType == queryMode \in {"answer", "search"} /\ (queryBusy => queried # "none")

LEMMA AgentsTypeSound ==
    ASSUME BlocksType, DynInv, DynType, DrawerType
    PROVE  CanvasAgentsTypeOK
<1>1. ToSet(dynOrder) \subseteq DynCells
  BY DEF DynInv, DynShape, ToSet
<1> QED
  BY <1>1 DEF BlocksType, DynType, DrawerType, CanvasAgentsTypeOK

LEMMA AgentsTypeInit ==
    ASSUME BlocksInit, CellsInit, DrawerInit
    PROVE  BlocksType /\ DynType /\ DrawerType
BY DEF BlocksInit, CellsInit, DrawerInit, BlocksType, DynType, DrawerType

LEMMA BlocksTypeStep ==
    ASSUME BlocksType, BlocksNext \/ UNCHANGED blockVars
    PROVE  BlocksType'
<1>0. /\ numbered \in Nat /\ warnings \in 0 .. numbered /\ concerned \in 0 .. numbered
      /\ unfolded \subseteq CanvasBlocks
      /\ \A q \in underWay : /\ q.number \in 0 .. numbered /\ q.warnings \in 0 .. numbered
                             /\ q.request.told \subseteq ToldOf(q.block)
  BY DEF BlocksType
<1>1. CASE UNCHANGED <<unfolded, warnings, numbered, concerned, underWay>>
  BY <1>0, <1>1 DEF BlocksType
<1>2. ASSUME NEW b \in AssistedBlocks, ToggleBlock(b) PROVE BlocksType'
  <2>1. b \in CanvasBlocks
    BY AgentsAssumption
  <2>2. unfolded' \subseteq CanvasBlocks /\ UNCHANGED <<warnings, numbered, concerned, underWay>>
    BY <1>0, <1>2, <2>1 DEF ToggleBlock
  <2> QED
    BY <1>0, <2>2 DEF BlocksType
<1>3. ASSUME NEW b \in AssistedBlocks, NEW id \in DOMAIN ActionsOfBlock(b), Execute(b, id)
      PROVE  BlocksType'
  <2> DEFINE new == [number |-> numbered + 1, block |-> b, request |-> Request(b, id),
                     warnings |-> warnings]
  <2>1. /\ numbered' = numbered + 1 /\ underWay' = underWay \cup {new}
        /\ UNCHANGED <<unfolded, warnings, concerned>>
    BY <1>3 DEF Execute
  <2>2. Request(b, id).told \subseteq ToldOf(b)
    BY DEF Request
  <2>3. new.number = numbered + 1 /\ new.warnings = warnings /\ new.request.told \subseteq ToldOf(new.block)
    BY <2>2
  <2> HIDE DEF new
  <2>4. numbered' \in Nat /\ 0 .. numbered \subseteq 0 .. numbered' /\ numbered + 1 \in 0 .. numbered'
    BY <1>0, <2>1
  <2> QED
    BY <1>0, <2>1, <2>3, <2>4 DEF BlocksType
<1>4. ASSUME NEW q \in underWay, AgentFails(q) PROVE BlocksType'
  BY <1>0, <1>4 DEF AgentFails, BlocksType
<1>5. ASSUME NEW q \in underWay, NEW fields \in Outputs, AgentAnswers(q, fields) PROVE BlocksType'
  <2>1. /\ underWay' = underWay \ {q} /\ UNCHANGED <<unfolded, numbered>>
        /\ warnings' \in {warnings, q.number, q.warnings} /\ concerned' \in {concerned, q.number}
    BY <1>5 DEF AgentAnswers, WarningsAfter
  <2> QED
    BY <1>0, <2>1 DEF BlocksType
<1> QED
  BY <1>1, <1>2, <1>3, <1>4, <1>5 DEF BlocksNext, blockVars, FillField, SwitchRag

LEMMA DynTypeStep ==
    ASSUME DynInv, DynType, CellsNext \/ UNCHANGED dynVars
    PROVE  DynType'
<1>0. dynOrder \in Seq(DynCells) /\ Apart(dynOrder) /\ dynBusy \subseteq ToSet(dynOrder)
  BY DEF DynInv, DynShape, DynType
<1>1. CASE UNCHANGED dynOrder /\ dynBusy' \subseteq dynBusy
  BY <1>0, <1>1 DEF DynType
<1>2. ASSUME NEW c \in DynCells, NEW type, AddDynCell(c, type) PROVE DynType'
  <2>1. dynOrder' = Append(dynOrder, c) /\ UNCHANGED dynBusy
    BY <1>2 DEF AddDynCell
  <2>2. ToSet(dynOrder') = ToSet(dynOrder) \cup {c}
    BY <1>0, <2>1, AppendApart
  <2> QED
    BY <1>0, <2>1, <2>2 DEF DynType
<1>3. ASSUME NEW i, MoveDynCell(i) PROVE DynType'
  <2>1. i \in DOMAIN dynOrder /\ i + 1 \in DOMAIN dynOrder
    BY <1>0, <1>3 DEF MoveDynCell
  <2>2. dynOrder' = Swapped(dynOrder, i, i + 1) /\ UNCHANGED dynBusy
    BY <1>3 DEF MoveDynCell, Swapped
  <2>3. ToSet(dynOrder') = ToSet(dynOrder)
    BY <1>0, <2>1, <2>2, SwapApart
  <2> QED
    BY <1>0, <2>2, <2>3 DEF DynType
<1>4. ASSUME NEW c \in DynCells, RemoveDynCell(c) PROVE DynType'
  <2>1. PICK i \in DOMAIN dynOrder : dynOrder[i] = c /\ dynOrder' = RemoveAt(dynOrder, i)
    BY <1>4 DEF RemoveDynCell
  <2>2. ToSet(dynOrder') = ToSet(dynOrder) \ {c}
    BY <1>0, <2>1, RemoveAtApart
  <2>3. dynBusy' = dynBusy \ {c}
    BY <1>4 DEF RemoveDynCell
  <2> QED
    BY <1>0, <2>2, <2>3 DEF DynType
<1>5. ASSUME NEW c \in DynCells, RunDynCell(c) PROVE DynType'
  <2>1. c \in ToSet(dynOrder) /\ UNCHANGED dynOrder
        /\ (dynBusy' = dynBusy \cup {c} \/ UNCHANGED dynBusy)
    BY <1>5 DEF RunDynCell
  <2> QED
    BY <1>0, <2>1 DEF DynType
<1>6. ASSUME NEW q \in dynAsked, NEW ok \in BOOLEAN, DynAnswers(q, ok) PROVE DynType'
  <2>1. UNCHANGED dynOrder /\ dynBusy' \subseteq dynBusy
    BY <1>6 DEF DynAnswers
  <2> QED
    BY <1>1, <2>1
<1>7. ASSUME NEW c, EditDynCell(c) PROVE DynType'
  BY <1>1, <1>7 DEF EditDynCell
<1>8. CASE ReopenCells
  <2>1. UNCHANGED dynOrder /\ dynBusy' = {}
    BY <1>8 DEF ReopenCells
  <2> QED
    BY <2>1 DEF DynType
<1> QED
  BY <1>1, <1>2, <1>3, <1>4, <1>5, <1>6, <1>7, <1>8 DEF CellsNext, dynVars

LEMMA DrawerTypeStep ==
    ASSUME DrawerType, DrawerNext \/ UNCHANGED drawerVars
    PROVE  DrawerType'
BY DEF DrawerType, DrawerNext, drawerVars, ToggleDrawer, StatsArrive, ChooseMode, Query,
       QueryAnswers, QueryFails

(* The lists. *)
ListsFit ==
    /\ list \in Lists /\ listVersion \in 1 .. MaxVersions /\ shownList \in 0 .. listVersion
    /\ listLoads \in Seq(0 .. listVersion) /\ Len(listLoads) <= MaxListLoads
    /\ listPage \in ListPages /\ entrySent \in 0 .. 2 /\ lost \in 0 .. MaxLost
ListFlags == {listUser, tabHidden, toolAsked} \subseteq BOOLEAN
ListsType == ListsFit /\ ListFlags

LEMMA ListsTypeSound == ASSUME ListsInv, ListsType PROVE ListsTypeOK
<1>1. PICK m \in Nat : m = Len(listLoads)
  BY DEF ListsType, ListsFit
<1>2. m \in 0 .. MaxListLoads
  BY <1>1, ListsAssumption DEF ListsType, ListsFit
<1>3. listLoads \in [1 .. m -> 0 .. listVersion]
  BY <1>1 DEF ListsType, ListsFit
<1>4. listLoads \in BoundedSeq(0 .. listVersion, MaxListLoads)
  BY <1>2, <1>3 DEF BoundedSeq, SeqOf
<1> QED
  BY <1>4 DEF ListsType, ListsFit, ListFlags, ListsInv, ListsTypeOK

LEMMA ListsTypeInit == ASSUME ListsInit PROVE ListsType
<1>1. listLoads \in Seq(0 .. listVersion) /\ Len(listLoads) = 0
  BY EmptySeq DEF ListsInit
<1>2. ListsFit
  BY <1>1, ListsAssumption DEF ListsInit, ListsFit, ListPages
<1>3. ListFlags
  BY DEF ListsInit, ListFlags
<1> QED
  BY <1>2, <1>3 DEF ListsType

\* New requests have read nothing yet, and there is room for them.
LEMMA LoadFits ==
    ASSUME ListsFit, NEW n \in Nat, NEW v, Load(n, v), NEW w \in Nat, w >= listVersion
    PROVE  listLoads' \in Seq(0 .. w) /\ Len(listLoads') <= MaxListLoads
<1> DEFINE fresh == [i \in 1 .. n |-> 0]
<1>0. listVersion \in Nat /\ listLoads \in Seq(0 .. listVersion) /\ 0 .. listVersion \subseteq 0 .. w
      /\ 0 \in 0 .. w
  BY ListsAssumption DEF ListsFit
<1>1. listLoads \in Seq(0 .. w) /\ fresh \in Seq(0 .. w) /\ Len(fresh) = n
  BY <1>0
<1>2. listLoads' = listLoads \o fresh /\ Len(listLoads) + n <= MaxListLoads
  BY DEF Load
<1> HIDE DEF fresh
<1>3. listLoads \o fresh \in Seq(0 .. w) /\ Len(listLoads \o fresh) = Len(listLoads) + Len(fresh)
  BY <1>1
<1> QED
  BY <1>1, <1>2, <1>3

LEMMA ListsFitStep ==
    ASSUME ListsFit, ListsNext \/ UNCHANGED listVars
    PROVE  ListsFit'
<1>0. /\ listVersion \in Nat /\ listVersion >= 1 /\ listVersion <= MaxVersions /\ MaxVersions \in Nat
      /\ MaxLost \in Nat /\ list \in Lists /\ shownList \in 0 .. listVersion
      /\ listLoads \in Seq(0 .. listVersion) /\ Len(listLoads) <= MaxListLoads
      /\ listPage \in ListPages /\ entrySent \in 0 .. 2 /\ lost \in 0 .. MaxLost
  BY ListsAssumption DEF ListsFit
\* A load, after the server's data changed or not.
<1>1. ASSUME NEW n \in Nat, NEW v, Load(n, v), UNCHANGED <<list, shownList, lost>>,
             listVersion' = listVersion \/ (listVersion < MaxVersions /\ listVersion' = listVersion + 1),
             listPage' \in ListPages, entrySent' \in 0 .. 2
      PROVE  ListsFit'
  <2>1. listVersion' \in Nat /\ listVersion' >= listVersion /\ listVersion' \in 1 .. MaxVersions
    BY <1>0, <1>1
  <2>2. PICK w \in Nat : w = listVersion'
    BY <2>1
  <2>3. listLoads' \in Seq(0 .. w) /\ Len(listLoads') <= MaxListLoads
    BY <1>1, <2>1, <2>2, LoadFits
  <2>4. shownList' \in 0 .. w
    BY <1>0, <1>1, <2>1, <2>2
  <2> QED
    BY <1>0, <1>1, <2>1, <2>2, <2>3, <2>4 DEF ListsFit
<1>2. ASSUME UNCHANGED <<list, listVersion, shownList, listLoads, lost>>,
             listPage' \in ListPages, entrySent' \in 0 .. 2
      PROVE  ListsFit'
  BY <1>0, <1>2 DEF ListsFit
<1>3. CASE UNCHANGED listVars \/ ListSignOut \/ AskChat \/ SendEntry
  <2>1. UNCHANGED <<list, listVersion, shownList, listLoads, lost, listPage>>
    BY <1>3 DEF listVars, ListSignOut, AskChat, SendEntry
  <2>2. entrySent' \in 0 .. 2
    BY <1>0, <1>3 DEF listVars, ListSignOut, AskChat, SendEntry
  <2> QED
    BY <1>0, <1>2, <2>1, <2>2
<1>4. CASE ListSignIn
  <2>1. PICK n \in Nat : n = 1 + AskedByPage(listPage)
    BY DEF AskedByPage
  <2> QED
    BY <1>0, <1>1, <1>4, <2>1 DEF ListSignIn
<1>5. CASE ListTick \/ PressRefresh
  BY <1>0, <1>1, <1>5 DEF ListTick, PressRefresh
<1>6. CASE TurnTab
  <2>1. PICK n \in Nat : n = IF listUser /\ listPage = "home" /\ list = "home" /\ tabHidden THEN 1 ELSE 0
    OBVIOUS
  <2> QED
    BY <1>0, <1>1, <1>6, <2>1 DEF TurnTab
<1>7. CASE DataChanges
  <2>1. listVersion' = listVersion + 1 /\ listVersion < MaxVersions
        /\ UNCHANGED <<list, shownList, listLoads, listPage, entrySent, lost>>
    BY <1>7 DEF DataChanges
  <2>2. PICK w \in Nat : w = listVersion'
    BY <1>0, <2>1
  <2>3. 0 .. listVersion \subseteq 0 .. w /\ w \in 1 .. MaxVersions
    BY <1>0, <2>1, <2>2
  <2>4. listLoads \in Seq(0 .. w) /\ shownList \in 0 .. w
    BY <1>0, <2>3
  <2> QED
    BY <1>0, <2>1, <2>2, <2>3, <2>4 DEF ListsFit
<1>8. ASSUME NEW p \in ListPages, OpenListPage(p) PROVE ListsFit'
  <2>1. PICK n \in Nat : n = AskedByPage(p)
    BY DEF AskedByPage
  <2>2. Load(n, listVersion) /\ listPage' = p /\ entrySent' = 0 /\ UNCHANGED <<list, listVersion, shownList, lost>>
    BY <1>8, <2>1 DEF OpenListPage
  <2>3. entrySent' \in 0 .. 2
    BY <2>2
  <2> QED
    BY <1>1, <2>2, <2>3
<1>9. ASSUME NEW i \in DOMAIN listLoads, LoadRead(i) PROVE ListsFit'
  <2>1. listLoads' = [listLoads EXCEPT ![i] = listVersion]
        /\ UNCHANGED <<list, listVersion, shownList, listPage, entrySent, lost>>
    BY <1>9 DEF LoadRead
  <2>2. listLoads' \in Seq(0 .. listVersion) /\ Len(listLoads') = Len(listLoads)
    BY <1>0, <2>1
  <2> QED
    BY <1>0, <2>1, <2>2 DEF ListsFit
<1>10. ASSUME NEW i \in DOMAIN listLoads, LoadAnswers(i) \/ LoadFails(i) PROVE ListsFit'
  <2>1. listLoads' = RemoveAt(listLoads, i) /\ UNCHANGED <<list, listVersion, listPage, entrySent>>
    BY <1>10 DEF LoadAnswers, LoadFails
  <2>2. RemoveAt(listLoads, i) \in Seq(0 .. listVersion) /\ Len(RemoveAt(listLoads, i)) = Len(listLoads) - 1
    BY <1>0, RemoveAtLeaves
  <2>3. listLoads[i] \in 0 .. listVersion
    BY <1>0
  <2>4. shownList' \in 0 .. listVersion /\ lost' \in 0 .. MaxLost
    BY <1>0, <1>10, <2>3 DEF LoadAnswers, LoadFails
  <2>5. listLoads' \in Seq(0 .. listVersion) /\ Len(listLoads') <= MaxListLoads
    <3>1. Len(listLoads) \in Nat /\ MaxListLoads \in Nat
      BY <1>0, ListsAssumption
    <3>2. Len(listLoads') = Len(listLoads) - 1 /\ listLoads' \in Seq(0 .. listVersion)
      BY <2>1, <2>2
    <3> QED
      BY <1>0, <3>1, <3>2
  <2> QED
    BY <1>0, <2>1, <2>4, <2>5 DEF ListsFit
<1>11. ASSUME NEW name, NEW res, NEW dry, ChatUsedTool(name, res, dry) PROVE ListsFit'
  <2>1. PICK n \in Nat : n = IF ShouldRefreshAfterTools(name, res, dry) /\ list \in ToolLists THEN 1 ELSE 0
    OBVIOUS
  <2>2. PICK v : v = listVersion'
    OBVIOUS
  <2>3. Load(n, v) /\ UNCHANGED <<list, shownList, lost, listPage, entrySent>>
    BY <1>11, <2>1, <2>2 DEF ChatUsedTool, Load
  <2>4. listVersion' = listVersion \/ (listVersion < MaxVersions /\ listVersion' = listVersion + 1)
    BY <1>11 DEF ChatUsedTool
  <2> QED
    BY <1>0, <1>1, <2>3, <2>4
<1>12. ASSUME NEW ok \in BOOLEAN, EntryAnswered(ok) PROVE ListsFit'
  <2>1. PICK n \in Nat : n = IF ok THEN 1 ELSE 0
    OBVIOUS
  <2>2. PICK v : v = listVersion'
    OBVIOUS
  <2>3. Load(n, v) /\ UNCHANGED <<list, shownList, lost, listPage>>
    BY <1>12, <2>1, <2>2 DEF EntryAnswered, Load
  <2>4. listVersion' = listVersion \/ (listVersion < MaxVersions /\ listVersion' = listVersion + 1)
    BY <1>12 DEF EntryAnswered
  <2>5. entrySent' \in 0 .. 2
    BY <1>0, <1>12 DEF EntryAnswered
  <2> QED
    BY <1>0, <1>1, <2>3, <2>4, <2>5
<1> QED
  BY <1>3, <1>4, <1>5, <1>6, <1>7, <1>8, <1>9, <1>10, <1>11, <1>12 DEF ListsNext

LEMMA ListFlagsStep ==
    ASSUME ListFlags, ListsNext \/ UNCHANGED listVars
    PROVE  ListFlags'
<1> USE DEF ListFlags
<1>1. CASE UNCHANGED <<listUser, tabHidden, toolAsked>>
  BY <1>1
<1>2. CASE ListSignIn \/ ListSignOut \/ AskChat \/ TurnTab
  BY <1>2 DEF ListSignIn, ListSignOut, AskChat, TurnTab
<1>3. ASSUME NEW p, OpenListPage(p) PROVE ListFlags'
  BY <1>3 DEF OpenListPage
<1>4. ASSUME NEW name, NEW res, NEW dry, ChatUsedTool(name, res, dry) PROVE ListFlags'
  BY <1>4 DEF ChatUsedTool
<1> QED
  BY <1>1, <1>2, <1>3, <1>4
     DEF ListsNext, listVars, ListTick, PressRefresh, DataChanges, SendEntry, LoadRead, LoadAnswers,
         LoadFails, EntryAnswered

(* The pages of reports, of the system and of the platform. *)
ReportsFlags == {previewErr, previewLoading, previewMixed} \subseteq BOOLEAN
ReportsType ==
    /\ {previewName, previewData} \subseteq Reports \cup {NoReport}
    /\ \A q \in DOMAIN previewAsks : q \in 1 .. MaxPageAsks /\ previewAsks[q] \in Reports

LEMMA ReportsTypeInit == ASSUME ReportsInit PROVE ReportsFlags /\ ReportsType
<1>1. DOMAIN <<>> = {}
  OBVIOUS
<1> QED
  BY <1>1 DEF ReportsInit, ReportsFlags, ReportsType

LEMMA ReportsTypeStep ==
    ASSUME ReportsType, ReportsNext \/ UNCHANGED reportVars
    PROVE  ReportsType'
<1> USE DEF ReportsType
<1>1. CASE UNCHANGED reportVars
  BY <1>1 DEF reportVars
<1>2. CASE ClosePreview
  BY <1>2 DEF ClosePreview
<1>3. CASE LeaveReports
  <2>1. DOMAIN <<>> = {}
    OBVIOUS
  <2> QED
    BY <1>3, <2>1 DEF LeaveReports
<1>4. ASSUME NEW f \in Reports, OpenPreview(f) PROVE ReportsType'
  <2>1. PICK q \in 1 .. MaxPageAsks :
           previewAsks' = [p \in DOMAIN previewAsks \cup {q} |-> IF p = q THEN f ELSE previewAsks[p]]
    BY <1>4 DEF OpenPreview
  <2>2. previewName' = f /\ previewData' = NoReport
    BY <1>4 DEF OpenPreview
  <2> QED
    BY <2>1, <2>2
<1>5. ASSUME NEW q \in DOMAIN previewAsks, NEW ok \in BOOLEAN, PreviewAnswers(q, ok) PROVE ReportsType'
  BY <1>5 DEF PreviewAnswers
<1> QED
  BY <1>1, <1>2, <1>3, <1>4, <1>5 DEF ReportsNext

LEMMA ReportsFlagsStep ==
    ASSUME ReportsFlags, ReportsNext \/ UNCHANGED reportVars
    PROVE  ReportsFlags'
<1> USE DEF ReportsFlags
<1>1. CASE UNCHANGED reportVars
  BY <1>1 DEF reportVars
<1>2. CASE ClosePreview \/ LeaveReports
  BY <1>2 DEF ClosePreview, LeaveReports
<1>3. ASSUME NEW f, OpenPreview(f) PROVE ReportsFlags'
  BY <1>3 DEF OpenPreview
<1>4. ASSUME NEW q, NEW ok, PreviewAnswers(q, ok) PROVE ReportsFlags'
  BY <1>4 DEF PreviewAnswers
<1> QED
  BY <1>1, <1>2, <1>3, <1>4 DEF ReportsNext

-----------------------------------------------------------------------------
\* The runtimes are loaded again at most once for each job, and not yet for
\* the one whose state is asked for.
ProbeType ==
    /\ runtime \in Runtimes /\ {probeJob, probeSaid, probeShown, systemAsked} \subseteq Nat
    /\ probeSaid <= probeJob /\ probeShown <= probeJob /\ systemAsked <= probeJob
    /\ probeStep = "status" => systemAsked < probeJob

LEMMA ProbeTypeInit == ASSUME ProbeInit PROVE ProbeType
BY DEF ProbeInit, ProbeType, Runtimes

LEMMA ProbeTypeStep ==
    ASSUME ProbeType, ProbeNext \/ UNCHANGED probeVars
    PROVE  ProbeType'
<1> USE DEF ProbeType
<1>1. CASE UNCHANGED probeVars
  BY <1>1 DEF probeVars
<1>2. CASE DispatchProbe
  BY <1>2 DEF DispatchProbe
<1>3. CASE ProbeAnswers
  BY <1>3 DEF ProbeAnswers
<1>4. CASE ProbeFails
  BY <1>4 DEF ProbeFails
<1>5. CASE LeaveSystem
  BY <1>5 DEF LeaveSystem
<1>6. ASSUME NEW r \in Runtimes, ChooseRuntime(r) PROVE ProbeType'
  BY <1>6 DEF ChooseRuntime
<1> QED
  BY <1>1, <1>2, <1>3, <1>4, <1>5, <1>6 DEF ProbeNext

-----------------------------------------------------------------------------
FormType ==
    /\ formMixed \in BOOLEAN /\ formDone \in Nat
    /\ \A q \in formAsks : q[1] \in 1 .. formDone

LEMMA FormTypeInit == ASSUME PlatformInit PROVE FormType
BY DEF PlatformInit, FormType

LEMMA FormTypeStep ==
    ASSUME FormType, PlatformNext \/ UNCHANGED formVars
    PROVE  FormType'
<1> USE DEF FormType
<1>1. CASE UNCHANGED formVars
  BY <1>1 DEF formVars
<1>2. ASSUME NEW f \in PlatformForms, NEW parses \in BOOLEAN, UseForm(f, parses) PROVE FormType'
  <2>1. PICK n \in Nat : n = formDone + 1
    OBVIOUS
  <2>2. formDone' = n /\ formAsks' \subseteq formAsks \cup {<<n, f>>} /\ formMixed' = (formAsks # {})
    BY <1>2, <2>1 DEF UseForm
  <2>3. <<n, f>>[1] \in 1 .. n /\ 1 .. formDone \subseteq 1 .. n
    BY <2>1
  <2> QED
    BY <2>2, <2>3
<1>3. ASSUME NEW q \in formAsks, NEW ok \in BOOLEAN, FormAnswers(q, ok) PROVE FormType'
  <2>1. formAsks' \subseteq formAsks \cup {<<q[1], "leaderboard">>} /\ UNCHANGED <<formDone, formMixed>>
    BY <1>3 DEF FormAnswers
  <2>2. <<q[1], "leaderboard">>[1] = q[1]
    OBVIOUS
  <2> QED
    BY <2>1, <2>2
<1>4. ASSUME NEW l \in FormLists, LoadFormList(l) PROVE FormType'
  <2>1. PICK n \in Nat : n = formDone + 1
    OBVIOUS
  <2>2. formDone' = n /\ formAsks' \subseteq formAsks \cup {<<n, l>>} /\ formMixed' \in BOOLEAN
    BY <1>4, <2>1 DEF LoadFormList
  <2>3. <<n, l>>[1] \in 1 .. n /\ 1 .. formDone \subseteq 1 .. n
    BY <2>1
  <2> QED
    BY <2>2, <2>3
<1> QED
  BY <1>1, <1>2, <1>3, <1>4 DEF PlatformNext

LEMMA PagesTypeSound ==
    ASSUME ReportsFlags, ReportsType, ProbeInv, ProbeType, FormInv, FormType
    PROVE  PagesTypeOK
<1>1. {previewErr, previewLoading, previewMixed, formMixed} \subseteq BOOLEAN
  BY DEF ReportsFlags, FormType
<1>2. {probeSaid, probeShown, systemAsked} \subseteq 0 .. probeJob
  BY DEF ProbeType
<1>3. \A q \in formAsks : q[1] \in 1 .. formDone /\ q[2] \in PlatformForms \cup FormLists
  BY DEF FormInv, FormShape, FormType
<1>4. runtime \in Runtimes /\ probeStep \in {"idle", "dispatch", "status"}
  BY DEF ProbeType, ProbeInv
<1> QED
  BY <1>1, <1>2, <1>3, <1>4 DEF ReportsType, PagesTypeOK
=============================================================================
