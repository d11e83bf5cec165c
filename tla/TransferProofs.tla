---------------------------- MODULE TransferProofs ----------------------------
(***************************************************************************)
(* Theorems about Transfer: the watchdog's verdict on a download, and the  *)
(* verification's verdict on its files.                                    *)
(***************************************************************************)
EXTENDS Transfer, FoldProofs

-----------------------------------------------------------------------------
(* The type invariant.  What a walk has summed up stays in range because   *)
(* each entry still to come has at most the size of a file.                *)

Bound == 2 * Size * Cardinality(Files)
SumFits(p) == p.sum + Size * Cardinality(p.left) <= Bound

Contents == {"none", "old"} \cup Current
Watchers == [at : {"off", "first", "walk", "sleep"}, left : SUBSET Entries,
             sum : Nat, high : Nat, quiet : Nat]
Hashers == [at : {"off", "pick", "open", "stat"} \cup Verdicts,
            left : SUBSET Hashed, file : SUBSET Hashed, failures : SUBSET Hashed]

Typed ==
    /\ staged \in [Files -> 0..Size]
    /\ placed \in [Files -> Contents]
    /\ child \in {"off", "ok", "stalled", "live", "hung"}
    /\ poller \in Watchers /\ poller.high <= Bound /\ poller.quiet <= StallTimeout + 1
    /\ poller.at = "sleep" => poller.quiet <= StallTimeout /\ poller.sum = 0
    /\ SumFits(poller)
    /\ hasher \in Hashers
    /\ history \in [wrote : BOOLEAN, silent : 0..StallTimeout, blurred : BOOLEAN]
    /\ gone \subseteq Files

LEMMA Numbers ==
    /\ Size \in Nat /\ Size > 0 /\ StallTimeout \in Nat
    /\ IsFiniteSet(Files) /\ Cardinality(Files) \in Nat /\ Bound \in Nat
    /\ IsFiniteSet(Entries) /\ Cardinality(Entries) = 2 * Cardinality(Files)
    /\ Size * Cardinality(Entries) = Bound
<1>1. /\ Size \in Nat /\ Size > 0 /\ StallTimeout \in Nat
      /\ IsFiniteSet(Files) /\ Cardinality(Files) \in Nat
  BY TransferAssumption, FS_CardinalityType
<1>2. Bound \in Nat
  BY <1>1 DEF Bound
<1> DEFINE places == {"staging", "place"}
<1>3. IsFiniteSet(places) /\ Cardinality(places) = 2
  <2>1. IsFiniteSet({"staging"}) /\ Cardinality({"staging"}) = 1
    BY FS_Singleton
  <2>2. /\ IsFiniteSet({"staging"} \cup {"place"})
        /\ Cardinality({"staging"} \cup {"place"}) = 2
    BY <2>1, FS_AddElement
  <2>3. {"staging"} \cup {"place"} = places
    OBVIOUS
  <2> QED
    BY <2>2, <2>3
<1>4. /\ IsFiniteSet(Entries)
      /\ Cardinality(Entries) = Cardinality(Files) * Cardinality(places)
  BY <1>1, <1>3, FS_Product DEF Entries
<1>5. Cardinality(Entries) = 2 * Cardinality(Files)
  BY <1>1, <1>3, <1>4
<1>6. \A n, m \in Nat : n * (2 * m) = 2 * n * m
  OBVIOUS
<1>7. Size * Cardinality(Entries) = Bound
  BY <1>1, <1>5, <1>6 DEF Bound
<1> QED
  BY <1>1, <1>2, <1>4, <1>5, <1>7

LEMMA FiniteLeft ==
    ASSUME NEW s \in SUBSET Entries
    PROVE  IsFiniteSet(s) /\ Cardinality(s) \in Nat
BY Numbers, FS_Subset, FS_CardinalityType

LEMMA SizesAreSmall ==
    ASSUME Typed, NEW e \in Entries
    PROVE  SizeOf(e) \in Nat /\ SizeOf(e) <= Size
<1>1. e[1] \in Files
  BY DEF Entries
<1>2. staged[e[1]] \in 0..Size /\ Size \in Nat
  BY <1>1, Numbers DEF Typed
<1> QED
  BY <1>2 DEF SizeOf

(* A poller that has not begun to sum. *)
LEMMA FreshWalk ==
    ASSUME NEW p, p.sum = 0, p.left \in {{}, Entries}
    PROVE  SumFits(p)
<1>1. Cardinality({}) = 0
  BY FS_EmptySet
<1>2. Size * 0 = 0 /\ 0 <= Bound
  BY Numbers
<1>3. CASE p.left = {}
  BY <1>1, <1>2, <1>3 DEF SumFits
<1>4. CASE p.left = Entries
  BY <1>4, Numbers DEF SumFits
<1> QED
  BY <1>3, <1>4

LEMMA NoPollerFits ==
    /\ NoPoller \in Watchers /\ NoPoller.at = "off" /\ NoPoller.left = {}
    /\ NoPoller.sum = 0 /\ NoPoller.high = 0 /\ NoPoller.quiet = 0
    /\ SumFits(NoPoller)
<1>1. /\ NoPoller \in Watchers /\ NoPoller.at = "off" /\ NoPoller.left = {}
      /\ NoPoller.sum = 0 /\ NoPoller.high = 0 /\ NoPoller.quiet = 0
  BY DEF NoPoller, Watchers
<1> QED
  BY <1>1, FreshWalk

LEMMA NoHasherFits ==
    /\ NoHasher \in Hashers /\ NoHasher.at = "off" /\ NoHasher.left = {}
    /\ NoHasher.file = {} /\ NoHasher.failures = {}
BY DEF NoHasher, Hashers

LEMMA NoHistoryFits ==
    NoHistory \in [wrote : BOOLEAN, silent : 0..StallTimeout, blurred : BOOLEAN]
BY Numbers DEF NoHistory

LEMMA TypedInit == Init => Typed
BY NoPollerFits, NoHasherFits, NoHistoryFits, Numbers
DEF Init, Typed, Contents

(* What the poller is after a walk, and while it sleeps. *)
LEMMA Resting ==
    ASSUME NEW high \in Nat, NEW quiet \in Nat, Typed, Rests(high, quiet),
           poller.left = {}
    PROVE  /\ poller' \in Watchers /\ poller'.at = "sleep" /\ poller'.left = {}
           /\ poller'.sum = 0 /\ poller'.high = high /\ poller'.quiet = quiet
           /\ SumFits(poller')
<1>1. /\ poller' \in Watchers /\ poller'.at = "sleep" /\ poller'.left = {}
      /\ poller'.sum = 0 /\ poller'.high = high /\ poller'.quiet = quiet
  BY DEF Rests, Typed, Watchers
<1> QED
  BY <1>1, FreshWalk

LEMMA Visiting ==
    ASSUME Typed, NEW e \in Entries, Visits(e)
    PROVE  /\ poller' \in Watchers /\ poller'.at = poller.at
           /\ poller'.left = poller.left \ {e}
           /\ poller'.sum = poller.sum + SizeOf(e)
           /\ poller'.high = poller.high /\ poller'.quiet = poller.quiet
           /\ SumFits(poller')
<1>1. SizeOf(e) \in Nat /\ SizeOf(e) <= Size
  BY SizesAreSmall
<1>2. /\ poller' \in Watchers /\ poller'.at = poller.at
      /\ poller'.left = poller.left \ {e}
      /\ poller'.sum = poller.sum + SizeOf(e)
      /\ poller'.high = poller.high /\ poller'.quiet = poller.quiet
  <2>1. PICK size \in Nat : size = SizeOf(e)
    BY <1>1
  <2>2. poller \in Watchers
    BY DEF Typed
  <2>3. PICK rest \in SUBSET Entries : rest = poller.left \ {e}
    BY <2>2 DEF Watchers
  <2>4. PICK sum \in Nat : sum = poller.sum + size
    BY <2>1, <2>2 DEF Watchers
  <2>5. poller' = [poller EXCEPT !.left = rest, !.sum = sum]
    BY <2>1, <2>3, <2>4 DEF Visits
  <2> QED
    BY <2>1, <2>2, <2>3, <2>4, <2>5 DEF Watchers
<1>3. PICK c \in Nat : /\ Cardinality(poller.left) = c + 1
                       /\ Cardinality(poller.left \ {e}) = c
  BY FiniteLeft, Smaller DEF Typed, Watchers, Visits
<1>4. Size * (c + 1) = Size * c + Size
  BY Numbers
<1>5. PICK n \in Nat : n = Size * c
  BY Numbers
<1>6. poller.sum \in Nat /\ poller.sum + (n + Size) <= Bound
  BY <1>3, <1>4, <1>5 DEF Typed, Watchers, SumFits
<1>7. poller.sum + SizeOf(e) + n <= Bound
  BY <1>1, <1>6, Numbers
<1> QED
  BY <1>2, <1>3, <1>5, <1>7 DEF SumFits

-----------------------------------------------------------------------------
(* The steps, one lemma for the child's, the poller's and the hasher's.    *)

LEMMA ChildTyped ==
    ASSUME Typed, ChildNext
    PROVE  Typed'
<1>1. CASE Launches
  <2> DEFINE p == [NoPoller EXCEPT !.at = "first", !.left = Entries]
  <2>1. /\ p \in Watchers /\ p.at = "first" /\ p.sum = 0 /\ p.high = 0 /\ p.quiet = 0
        /\ p.left = Entries
    BY DEF NoPoller, Watchers
  <2>2. SumFits(p)
    BY <2>1, FreshWalk
  <2>3. poller' = p
    BY <1>1 DEF Launches
  <2> HIDE DEF p
  <2>4. /\ poller' \in Watchers /\ poller'.high <= Bound /\ poller'.quiet <= StallTimeout + 1
        /\ poller'.at # "sleep" /\ SumFits(poller')
    BY <2>1, <2>2, <2>3, Numbers
  <2>5. /\ hasher' \in Hashers
        /\ history' \in [wrote : BOOLEAN, silent : 0..StallTimeout, blurred : BOOLEAN]
    BY <1>1, NoHasherFits, NoHistoryFits DEF Launches
  <2> QED
    BY <1>1, <2>4, <2>5 DEF Launches, Typed
<1>2. CASE Hangs
  BY <1>2 DEF Hangs, Typed
<1>3. ASSUME NEW how \in {"ok", "off"}, Ends(how) PROVE Typed'
  BY <1>3, NoPollerFits, Numbers DEF Ends, Typed
<1>4. ASSUME NEW f \in Files, Fetches(f) PROVE Typed'
  <2>1. staged[f] \in 0..Size /\ staged[f] < Size /\ Size \in Nat
    BY <1>4, Numbers DEF Typed, Fetches
  <2>2. staged[f] + 1 \in 0..Size
    BY <2>1
  <2>3. staged' \in [Files -> 0..Size]
    BY <1>4, <2>2 DEF Fetches, Typed
  <2> QED
    BY <1>4, <2>3 DEF Fetches, Typed
<1>5. ASSUME NEW f \in Files, Places(f) PROVE Typed'
  <2>1. staged' \in [Files -> 0..Size]
    BY <1>5, Numbers DEF Places, Typed
  <2>2. placed' \in [Files -> Contents]
    BY <1>5 DEF Places, Typed, Contents
  <2>3. history' \in [wrote : BOOLEAN, silent : 0..StallTimeout, blurred : BOOLEAN]
    BY <1>5 DEF Places, Typed
  <2> QED
    BY <1>5, <2>1, <2>2, <2>3 DEF Places, Typed
<1>6. ASSUME NEW f \in Files, HubUpdates(f) PROVE Typed'
  BY <1>6 DEF HubUpdates, Typed, Contents
<1> QED
  BY <1>1, <1>2, <1>3, <1>4, <1>5, <1>6 DEF ChildNext, Finishes, Breaks

LEMMA PollerTyped ==
    ASSUME Typed, PollerNext
    PROVE  Typed'
<1>1. poller \in Watchers /\ Bound \in Nat /\ StallTimeout \in Nat
  BY Numbers DEF Typed
<1>2. ASSUME NEW e \in Entries, Visits(e) PROVE Typed'
  BY <1>2, Visiting DEF Visits, Walking, Typed
<1>3. CASE FirstWalk
  <2> DEFINE p == [NoPoller EXCEPT !.at = "walk", !.left = Entries, !.high = poller.sum]
  <2>1. poller.sum \in Nat
    BY <1>1 DEF Watchers
  <2>2. /\ p \in Watchers /\ p.at = "walk" /\ p.sum = 0 /\ p.high = poller.sum
        /\ p.quiet = 0 /\ p.left = Entries
    BY <2>1 DEF NoPoller, Watchers
  <2>3. SumFits(p)
    BY <2>2, FreshWalk
  <2>4. poller' = p
    BY <1>3 DEF FirstWalk
  <2>5. poller.sum <= Bound
    <3>1. Size * Cardinality(poller.left) \in Nat
      BY Numbers, <1>1, FiniteLeft DEF Watchers
    <3> QED
      BY <1>1, <2>1, <3>1 DEF Typed, SumFits
  <2> HIDE DEF p
  <2>6. /\ poller' \in Watchers /\ poller'.high <= Bound /\ poller'.quiet <= StallTimeout + 1
        /\ poller'.at # "sleep" /\ SumFits(poller')
    BY <1>1, <2>2, <2>3, <2>4, <2>5
  <2> QED
    BY <1>3, <2>6 DEF FirstWalk, Typed
<1>4. CASE SeesGrowth
  <2>1. poller.sum \in Nat /\ Size * Cardinality(poller.left) \in Nat
    BY Numbers, <1>1, FiniteLeft DEF Watchers
  <2>2. poller.sum <= Bound
    BY <1>1, <2>1 DEF Typed, SumFits
  <2>3. /\ poller' \in Watchers /\ poller'.at = "sleep"
        /\ poller'.high = poller.sum /\ poller'.quiet = 0 /\ poller'.sum = 0
        /\ SumFits(poller')
    BY <1>4, <2>1, Resting DEF SeesGrowth, Walked
  <2> QED
    BY <1>1, <1>4, <2>2, <2>3 DEF SeesGrowth, Typed
<1>5. CASE SeesNone
  <2>1. poller.high \in Nat /\ poller.quiet \in Nat
    BY <1>1 DEF Watchers
  <2>2. /\ poller' \in Watchers /\ poller'.at = "sleep"
        /\ poller'.high = poller.high /\ poller'.quiet = poller.quiet /\ poller'.sum = 0
        /\ SumFits(poller')
    BY <1>5, <2>1, Resting DEF SeesNone, Walked
  <2> QED
    BY <1>5, <2>2 DEF SeesNone, Typed
<1>6. CASE Stalls
  BY <1>6, NoPollerFits, Numbers DEF Stalls, Ends, Typed
<1>7. CASE Ticks
  <2>1. PICK quiet \in Nat : quiet = poller.quiet + 1
    BY <1>1 DEF Watchers
  <2>2. poller' = [poller EXCEPT !.at = "walk", !.left = Entries, !.quiet = quiet]
    BY <1>7, <2>1 DEF Ticks
  <2>3. /\ poller' \in Watchers /\ poller'.at = "walk" /\ poller'.left = Entries
        /\ poller'.sum = poller.sum /\ poller'.high = poller.high /\ poller'.quiet = quiet
    BY <1>1, <2>2 DEF Watchers
  <2>4. SumFits(poller')
    BY <1>7, <2>3, FreshWalk DEF Ticks, Typed
  <2>5. PICK silent \in 0..StallTimeout :
            silent = IF history.wrote THEN 0
                     ELSE IF history.silent < StallTimeout THEN history.silent + 1
                     ELSE history.silent
    BY <1>1 DEF Typed
  <2>6. history' = [history EXCEPT !.wrote = FALSE, !.silent = silent]
    BY <1>7, <2>5 DEF Ticks
  <2>7. history' \in [wrote : BOOLEAN, silent : 0..StallTimeout, blurred : BOOLEAN]
    BY <2>6 DEF Typed
  <2> QED
    BY <1>1, <1>7, <2>1, <2>3, <2>4, <2>7 DEF Ticks, Typed, Watchers
<1> QED
  BY <1>2, <1>3, <1>4, <1>5, <1>6, <1>7 DEF PollerNext

LEMMA HasherTyped ==
    ASSUME Typed, HasherNext
    PROVE  Typed'
<1>1. hasher \in Hashers /\ Hashed \subseteq Files
  BY TransferAssumption DEF Typed
<1>2. ASSUME UNCHANGED <<staged, placed, child, poller, history>>, gone' \subseteq Files,
             hasher' \in Hashers
      PROVE  Typed'
  BY <1>2 DEF Typed
<1>3. CASE Verifies
  <2>1. hasher' \in Hashers
    BY <1>3 DEF Verifies, NoHasher, Hashers
  <2> QED
    BY <1>2, <1>3, <2>1 DEF Verifies
<1>4. ASSUME NEW next \in Hashers, HashesOn(next) PROVE Typed'
  BY <1>2, <1>4 DEF HashesOn, Typed
<1>5. CASE Aborts
  <2>1. [NoHasher EXCEPT !.at = "aborted"] \in Hashers
    BY DEF NoHasher, Hashers, Verdicts
  <2> QED
    BY <1>4, <1>5, <2>1 DEF Aborts
<1>6. CASE Concludes
  <2>1. /\ [hasher EXCEPT !.at = "verified"] \in Hashers
        /\ [hasher EXCEPT !.at = "corrupted"] \in Hashers
    BY <1>1 DEF Hashers, Verdicts
  <2> QED
    BY <1>4, <1>6, <2>1 DEF Concludes
<1>7. ASSUME NEW failures \in SUBSET Hashed PROVE HasHashed(failures) \in Hashers
  BY <1>1 DEF HasHashed, Hashers
<1>8. ASSUME NEW f \in Files, PicksFile(f) PROVE Typed'
  <2>1. f \in Hashed
    BY <1>1, <1>8 DEF PicksFile, Hashers
  <2>2. /\ [hasher EXCEPT !.left = @ \ {f}, !.failures = @ \cup {f}] \in Hashers
        /\ [hasher EXCEPT !.at = "open", !.file = {f}] \in Hashers
    BY <1>1, <2>1 DEF Hashers
  <2> QED
    BY <1>4, <1>8, <2>2 DEF PicksFile
<1>9. ASSUME NEW f \in Files, ReadsFile(f) PROVE Typed'
  <2>1. f \in Hashed
    BY <1>1, <1>9 DEF ReadsFile, Hashers
  <2>2. /\ [hasher EXCEPT !.at = "stat"] \in Hashers
        /\ [hasher EXCEPT !.at = "stat", !.failures = @ \cup {f}] \in Hashers
    BY <1>1, <2>1 DEF Hashers
  <2>3. HasHashed({f}) \in Hashers
    BY <1>7, <2>1
  <2>4. CASE placed[f] = "none"
    BY <1>4, <1>9, <2>3, <2>4 DEF ReadsFile
  <2>5. CASE placed[f] = "good"
    BY <1>4, <1>9, <2>2, <2>5 DEF ReadsFile
  <2>6. CASE placed[f] \notin {"none", "good"}
    BY <1>4, <1>9, <2>2, <2>6 DEF ReadsFile
  <2> QED
    BY <2>4, <2>5, <2>6
<1>10. ASSUME NEW f \in Files, StatsFile(f) PROVE Typed'
  <2>1. [NoHasher EXCEPT !.at = "raised"] \in Hashers /\ HasHashed({}) \in Hashers
    BY <1>7 DEF NoHasher, Hashers, Verdicts
  <2> QED
    BY <1>4, <1>10, <2>1 DEF StatsFile
<1>11. ASSUME NEW f \in Files, Vanishes(f) PROVE Typed'
  <2>1. placed' \in [Files -> Contents] /\ gone' \subseteq Files
    BY <1>11 DEF Vanishes, Typed, Contents
  <2> QED
    BY <1>11, <2>1 DEF Vanishes, Typed
<1> QED
  BY <1>3, <1>5, <1>6, <1>8, <1>9, <1>10, <1>11 DEF HasherNext
-----------------------------------------------------------------------------
(* What the entries of a directory weigh, and how the child changes it.    *)

Weight(st, pl) ==
    [e \in Entries |-> IF e[2] = "staging" THEN st[e[1]]
                       ELSE IF pl[e[1]] = "none" THEN 0 ELSE Size]

Weighs(s) == SumFunctionOnSet(Weight(staged, placed), s)
Total == Weighs(Entries)
Left == Weighs(poller.left)

LEMMA WeightType ==
    ASSUME NEW st \in [Files -> 0..Size], NEW pl, NEW s \in SUBSET Entries
    PROVE  /\ Weight(st, pl) \in [Entries -> Nat]
           /\ NatOn(Weight(st, pl), s) /\ IsFiniteSet(s)
           /\ SumFunctionOnSet(Weight(st, pl), s) \in Nat
<1>1. ASSUME NEW e \in Entries PROVE Weight(st, pl)[e] \in Nat
  <2>1. e[1] \in Files
    BY DEF Entries
  <2>2. st[e[1]] \in Nat /\ Size \in Nat
    BY <2>1, Numbers
  <2> QED
    BY <2>2 DEF Weight
<1>2. Weight(st, pl) \in [Entries -> Nat]
  BY <1>1 DEF Weight
<1>3. NatOn(Weight(st, pl), s)
  BY <1>1 DEF NatOn
<1>4. IsFiniteSet(s)
  BY FiniteLeft
<1> QED
  BY <1>2, <1>3, <1>4, SumIsNat

LEMMA WeighsWhat ==
    ASSUME Typed, NEW s \in SUBSET Entries
    PROVE  Weighs(s) \in Nat /\ \A e \in s : Weighs(s) = SizeOf(e) + Weighs(s \ {e})
<1> DEFINE w == Weight(staged, placed)
<1>1. NatOn(w, s) /\ IsFiniteSet(s) /\ SumFunctionOnSet(w, s) \in Nat
  BY WeightType DEF Typed
<1>2. ASSUME NEW e \in s
      PROVE  SumFunctionOnSet(w, s) = w[e] + SumFunctionOnSet(w, s \ {e})
  BY <1>1, SumTakesOut
<1>3. \A e \in s : w[e] = SizeOf(e)
  BY DEF Weight, SizeOf
<1> QED
  BY <1>1, <1>2, <1>3 DEF Weighs

(* A byte more of a file weighs one more, where its entry is counted.      *)
Grows(f, st, new) ==
    /\ f \in Files /\ st \in [Files -> 0..Size] /\ new \in [Files -> 0..Size]
    /\ new = [st EXCEPT ![f] = st[f] + 1]

LEMMA OneByteMore ==
    ASSUME NEW f, NEW st, NEW new, Grows(f, st, new), NEW pl, NEW s \in SUBSET Entries
    PROVE  SumFunctionOnSet(Weight(new, pl), s)
               = SumFunctionOnSet(Weight(st, pl), s) + IF <<f, "staging">> \in s THEN 1 ELSE 0
<1> DEFINE v == Weight(st, pl)
           w == Weight(new, pl)
           e == <<f, "staging">>
<1>1. /\ f \in Files /\ st \in [Files -> 0..Size] /\ new \in [Files -> 0..Size]
      /\ new = [st EXCEPT ![f] = st[f] + 1]
  BY DEF Grows
<1>2. /\ NatOn(v, s) /\ NatOn(w, s) /\ IsFiniteSet(s)
      /\ SumFunctionOnSet(v, s) \in Nat /\ SumFunctionOnSet(w, s) \in Nat
  BY <1>1, WeightType
<1>3. ASSUME NEW d \in Entries, d # e PROVE v[d] = w[d]
  <2>1. CASE d[2] = "staging"
    <3>1. d[1] \in Files /\ d[1] # f
      BY <1>3, <2>1 DEF Entries
    <3>2. st[d[1]] = new[d[1]]
      BY <1>1, <3>1
    <3> QED
      BY <2>1, <3>2 DEF Weight
  <2>2. CASE d[2] # "staging"
    BY <2>2 DEF Weight
  <2> QED
    BY <2>1, <2>2
<1>4. e \in Entries /\ v[e] = st[f] /\ w[e] = st[f] + 1 /\ st[f] \in Nat
  BY <1>1, Numbers DEF Weight, Entries
<1> HIDE DEF v, w, e
<1>5. CASE e \in s
  <2>1. SumFunctionOnSet(w, s) - SumFunctionOnSet(v, s) = w[e] - v[e]
    BY <1>2, <1>3, <1>5, SumChangesOne
  <2> QED
    BY <1>2, <1>4, <1>5, <2>1 DEF v, w, e
<1>6. CASE e \notin s
  <2>1. SumFunctionOnSet(v, s) = SumFunctionOnSet(w, s)
    BY <1>2, <1>3, <1>6, SumAgrees
  <2> QED
    BY <1>2, <1>6, <2>1 DEF v, w, e
<1> QED
  BY <1>5, <1>6

(* A file that is moved from the staging area to a free place weighs the   *)
(* same.                                                                   *)
Moves(f, st, pl, st2, pl2) ==
    /\ f \in Files /\ st \in [Files -> 0..Size] /\ pl \in [Files -> Contents]
    /\ st[f] = Size /\ pl[f] = "none"
    /\ st2 \in [Files -> 0..Size] /\ st2 = [st EXCEPT ![f] = 0]
    /\ \E content \in Current : pl2 = [pl EXCEPT ![f] = content]

LEMMA MovedWeighsTheSame ==
    ASSUME NEW f, NEW st, NEW pl, NEW st2, NEW pl2, Moves(f, st, pl, st2, pl2)
    PROVE  SumFunctionOnSet(Weight(st2, pl2), Entries)
               = SumFunctionOnSet(Weight(st, pl), Entries)
<1> DEFINE u == Weight(st, pl)
           v == Weight(st2, pl)
           w == Weight(st2, pl2)
           from == <<f, "staging">>
           to == <<f, "place">>
<1>1. PICK content \in Current :
          /\ f \in Files /\ st \in [Files -> 0..Size] /\ pl \in [Files -> Contents]
          /\ st[f] = Size /\ pl[f] = "none"
          /\ st2 \in [Files -> 0..Size] /\ st2 = [st EXCEPT ![f] = 0]
          /\ pl2 = [pl EXCEPT ![f] = content]
  BY DEF Moves
<1>2. /\ NatOn(u, Entries) /\ NatOn(v, Entries) /\ NatOn(w, Entries) /\ IsFiniteSet(Entries)
  BY <1>1, WeightType
<1>3. ASSUME NEW d \in Entries
      PROVE  (d # from => u[d] = v[d]) /\ (d # to => v[d] = w[d])
  <2>1. d[1] \in Files /\ d = <<d[1], d[2]>> /\ d[2] \in {"staging", "place"}
    BY DEF Entries
  <2>2. d[1] # f => st[d[1]] = st2[d[1]] /\ pl[d[1]] = pl2[d[1]]
    BY <1>1, <2>1
  <2> QED
    BY <2>1, <2>2 DEF Weight
<1>4. /\ from \in Entries /\ u[from] = Size /\ v[from] = 0
      /\ to \in Entries /\ v[to] = 0 /\ w[to] = Size /\ Size \in Nat
  BY <1>1, Numbers DEF Weight, Entries, Current
<1> HIDE DEF u, v, w, from, to
<1>5. /\ SumFunctionOnSet(u, Entries) \in Nat /\ SumFunctionOnSet(v, Entries) \in Nat
      /\ SumFunctionOnSet(v, Entries) - SumFunctionOnSet(u, Entries) = v[from] - u[from]
  BY <1>2, <1>3, <1>4, SumChangesOne
<1>6. /\ SumFunctionOnSet(w, Entries) \in Nat
      /\ SumFunctionOnSet(w, Entries) - SumFunctionOnSet(v, Entries) = w[to] - v[to]
  BY <1>2, <1>3, <1>4, SumChangesOne
<1>7. SumFunctionOnSet(w, Entries) = SumFunctionOnSet(u, Entries)
  BY <1>4, <1>5, <1>6
<1> QED
  BY <1>7 DEF u, w

-----------------------------------------------------------------------------
(* The watchdog.                                                           *)

(* Who is at work while what lasts. *)
Phases ==
    /\ poller.at # "off" => child \in {"live", "hung"}
    /\ hasher.at # "off" => child = "ok"

(* A walk over files that only grow sums up to no more than there is, and  *)
(* to no less than there was when it began.                                *)
WalkSound ==
    /\ Walking => poller.sum + Left <= Total
    /\ poller.at = "walk" => poller.high <= poller.sum + Left
    /\ poller.at \in {"walk", "sleep"} => poller.high <= Total

(* No interval counts as quiet in which a byte came, unless the walk the   *)
(* watchdog is on will find that byte.                                     *)
QuietSound ==
    poller.at \in {"walk", "sleep"} /\ poller.quiet >= 1 =>
        /\ history.wrote => poller.high < Total
        /\ \/ history.silent >= StallTimeout
           \/ history.silent >= poller.quiet - 1
           \/ poller.at = "walk" /\ poller.high < poller.sum + Left

Watched ==
    /\ poller.at = "first" => poller.high = 0 /\ poller.quiet = 0
    /\ ~history.blurred => WalkSound /\ QuietSound
    /\ StallIsFair

WatchInv == Typed /\ Phases /\ Watched

(* The values the watchdog compares are numbers. *)
LEMMA Readings ==
    ASSUME Typed
    PROVE  /\ poller.sum \in Nat /\ poller.high \in Nat /\ poller.quiet \in Nat
           /\ poller.left \in SUBSET Entries /\ poller.quiet <= StallTimeout + 1
           /\ Left \in Nat /\ Total \in Nat
           /\ history.silent \in Nat /\ history.silent <= StallTimeout
           /\ history.wrote \in BOOLEAN /\ history.blurred \in BOOLEAN
           /\ StallTimeout \in Nat
BY Numbers, WeighsWhat DEF Typed, Watchers, Left, Total

LEMMA NothingLeft == Weighs({}) = 0
BY SumOfNone DEF Weighs

LEMMA PhasesNext ==
    ASSUME Typed, Phases, Next
    PROVE  Phases'
<1>1. CASE ChildNext
  <2>1. CASE Launches
    BY <2>1, NoHasherFits DEF Launches, Phases
  <2>2. CASE Hangs
    BY <2>2 DEF Hangs, Phases
  <2>3. CASE Finishes \/ Breaks
    BY <2>3, NoPollerFits DEF Finishes, Breaks, Ends, Phases
  <2>4. CASE \E f \in Files : Fetches(f) \/ Places(f) \/ HubUpdates(f)
    BY <2>4 DEF Fetches, Places, HubUpdates, Phases
  <2> QED
    BY <1>1, <2>1, <2>2, <2>3, <2>4 DEF ChildNext
<1>2. CASE PollerNext
  <2>1. ASSUME NEW e \in Entries, Visits(e) PROVE Phases'
    BY <2>1, Visiting DEF Visits, Phases
  <2>2. CASE Stalls
    BY <2>2, NoPollerFits DEF Stalls, Ends, Walked, Phases
  <2>3. CASE FirstWalk \/ SeesGrowth \/ SeesNone \/ Ticks
    <3>1. poller.at # "off" /\ UNCHANGED <<child, hasher>>
      BY <2>3 DEF FirstWalk, SeesGrowth, SeesNone, Ticks, Walked
    <3> QED
      BY <3>1 DEF Phases
  <2> QED
    BY <1>2, <2>1, <2>2, <2>3 DEF PollerNext
<1>3. CASE HasherNext
  <2>1. UNCHANGED <<child, poller>>
    BY <1>3 DEF HasherNext, Verifies, Aborts, Concludes, PicksFile, ReadsFile, StatsFile,
                Vanishes, HashesOn
  <2>2. child = "ok"
    BY <1>3 DEF HasherNext, Verifies, Aborts, Concludes, PicksFile, ReadsFile, StatsFile,
                Vanishes, Hashing, Phases
  <2> QED
    BY <2>1, <2>2 DEF Phases
<1> QED
  BY <1>1, <1>2, <1>3 DEF Next

(* Nothing is watched once the child has ended. *)
LEMMA WatchOver ==
    ASSUME poller'.at = "off", StallIsFair'
    PROVE  Watched'
BY DEF Watched, WalkSound, QuietSound, Walking

LEMMA FetchesWatched ==
    ASSUME Typed, Watched, NEW f \in Files, Fetches(f), Typed'
    PROVE  Watched'
<1>1. /\ staged' = [staged EXCEPT ![f] = staged[f] + 1] /\ placed' = placed
      /\ poller' = poller /\ child' = child /\ child = "live"
      /\ history'.wrote = TRUE /\ history'.silent = history.silent
      /\ history'.blurred = history.blurred
  BY DEF Fetches, Typed
<1>2. staged \in [Files -> 0..Size] /\ staged' \in [Files -> 0..Size]
      /\ poller.left \in SUBSET Entries
  BY DEF Typed, Watchers
<1>3. <<f, "staging">> \in Entries
  BY DEF Entries
<1>4. PICK st, pl, new, left : st = staged /\ pl = placed /\ new = staged' /\ left = poller.left
  OBVIOUS
<1>5. \A s \in SUBSET Entries :
           SumFunctionOnSet(Weight(new, pl), s)
               = SumFunctionOnSet(Weight(st, pl), s) + IF <<f, "staging">> \in s THEN 1 ELSE 0
  <2>1. Grows(f, st, new)
    BY <1>1, <1>2, <1>4 DEF Grows
  <2> QED
    BY <2>1, OneByteMore
<1>6. /\ Total = SumFunctionOnSet(Weight(st, pl), Entries)
       /\ Left = SumFunctionOnSet(Weight(st, pl), left)
       /\ Total' = SumFunctionOnSet(Weight(new, pl), Entries)
       /\ Left' = SumFunctionOnSet(Weight(new, pl), left)
  BY <1>1, <1>4 DEF Total, Left, Weighs
<1>7. Total' = Total + 1
  BY <1>3, <1>5, <1>6
<1>8. Left' = Left \/ Left' = Left + 1
  BY <1>2, <1>4, <1>5, <1>6, Readings
<1>9. ~history.blurred => WalkSound'
  BY <1>1, <1>7, <1>8, Readings DEF Watched, WalkSound, Walking
<1>10. ~history.blurred => QuietSound'
  BY <1>1, <1>7, <1>8, Readings DEF Watched, WalkSound, QuietSound
<1>11. StallIsFair'
  BY <1>1 DEF StallIsFair
<1> QED
  BY <1>1, <1>9, <1>10, <1>11 DEF Watched

LEMMA PlacesWatched ==
    ASSUME Typed, Watched, NEW f \in Files, Places(f), Typed'
    PROVE  Watched'
<1>1. PICK content \in Current : placed' = [placed EXCEPT ![f] = content]
  BY DEF Places
<1>2. /\ staged' = [staged EXCEPT ![f] = 0] /\ staged[f] = Size
      /\ placed[f] \in {"none", "old"}
      /\ poller' = poller /\ child' = child /\ child = "live"
      /\ history'.wrote = history.wrote /\ history'.silent = history.silent
      /\ history'.blurred = (history.blurred \/ Walking \/ placed[f] = "old")
  BY DEF Places, Typed, Contents
<1>3. StallIsFair'
  BY <1>2 DEF StallIsFair
<1>4. CASE history.blurred \/ Walking \/ placed[f] = "old"
  BY <1>2, <1>3, <1>4 DEF Watched
<1>5. CASE ~history.blurred /\ ~Walking /\ placed[f] = "none"
  <2>1. /\ staged \in [Files -> 0..Size] /\ placed \in [Files -> Contents]
        /\ staged' \in [Files -> 0..Size]
    BY DEF Typed
  <2>2. PICK st, pl, st2, pl2 :
            st = staged /\ pl = placed /\ st2 = staged' /\ pl2 = placed'
    OBVIOUS
  <2>3. SumFunctionOnSet(Weight(st2, pl2), Entries) = SumFunctionOnSet(Weight(st, pl), Entries)
    <3>1. Moves(f, st, pl, st2, pl2)
      BY <1>1, <1>2, <1>5, <2>1, <2>2 DEF Moves
    <3> QED
      BY <3>1, MovedWeighsTheSame
  <2>4. Total' = Total
    BY <2>2, <2>3 DEF Total, Weighs
  <2>5. WalkSound' /\ QuietSound'
    BY <1>2, <1>5, <2>4 DEF Watched, WalkSound, QuietSound, Walking
  <2> QED
    BY <1>2, <1>3, <2>5 DEF Watched
<1> QED
  BY <1>2, <1>4, <1>5

LEMMA LaunchesWatched ==
    ASSUME Typed, Launches, Typed'
    PROVE  Watched'
<1>1. /\ poller'.at = "first" /\ poller'.left = Entries /\ poller'.sum = 0
      /\ poller'.high = 0 /\ poller'.quiet = 0 /\ child' = "live"
      /\ UNCHANGED <<staged, placed>>
  BY DEF Launches, NoPoller
<1>2. Left' = Total' /\ Total' = Total
  BY <1>1 DEF Left, Total, Weighs
<1>3. WalkSound' /\ QuietSound' /\ StallIsFair'
  BY <1>1, <1>2, Readings DEF WalkSound, QuietSound, StallIsFair, Walking
<1> QED
  BY <1>1, <1>3 DEF Watched

LEMMA VisitsWatched ==
    ASSUME Typed, Watched, NEW e \in Entries, Visits(e)
    PROVE  Watched'
<1>1. /\ poller'.at = poller.at /\ poller'.left = poller.left \ {e}
      /\ poller'.sum = poller.sum + SizeOf(e)
      /\ poller'.high = poller.high /\ poller'.quiet = poller.quiet
  BY Visiting
<1>2. UNCHANGED <<staged, placed, child, history>> /\ e \in poller.left
  BY DEF Visits
<1>3. Total' = Total /\ Left' = Weighs(poller.left \ {e})
  BY <1>1, <1>2 DEF Total, Left, Weighs
<1>4. Left = SizeOf(e) + Left'
  BY <1>2, <1>3, Readings, WeighsWhat DEF Left
<1>5. Left' \in Nat /\ SizeOf(e) \in Nat
  BY <1>3, Readings, WeighsWhat, SizesAreSmall
<1>6. poller'.sum + Left' = poller.sum + Left
  BY <1>1, <1>4, <1>5, Readings
<1>7. ~history.blurred => WalkSound' /\ QuietSound'
  BY <1>1, <1>2, <1>3, <1>6 DEF Watched, WalkSound, QuietSound, Walking
<1>8. StallIsFair'
  BY <1>2 DEF Watched, StallIsFair
<1> QED
  BY <1>1, <1>2, <1>7, <1>8 DEF Watched

LEMMA FirstWalkWatched ==
    ASSUME Typed, Phases, Watched, FirstWalk
    PROVE  Watched'
<1>1. /\ poller'.at = "walk" /\ poller'.left = Entries /\ poller'.sum = 0
      /\ poller'.high = poller.sum /\ poller'.quiet = 0
      /\ UNCHANGED <<staged, placed, child, history>>
      /\ poller.at = "first" /\ poller.left = {}
  BY DEF FirstWalk, NoPoller, Walked
<1>2. Left = 0 /\ Left' = Total' /\ Total' = Total
  BY <1>1, NothingLeft DEF Left, Total, Weighs
<1>3. ~history.blurred => poller.sum <= Total
  BY <1>1, <1>2, Readings DEF Watched, WalkSound, Walking
<1>4. ~history.blurred => WalkSound'
  BY <1>1, <1>2, <1>3, Readings DEF WalkSound
<1>5. QuietSound' /\ StallIsFair'
  BY <1>1 DEF QuietSound, Watched, StallIsFair
<1> QED
  BY <1>1, <1>4, <1>5 DEF Watched

LEMMA RestsWatched ==
    ASSUME Typed, Watched, SeesGrowth \/ SeesNone
    PROVE  Watched'
<1>1. /\ poller.at = "walk" /\ poller.left = {} /\ poller'.at = "sleep"
      /\ UNCHANGED <<staged, placed, child, history>>
      /\ \/ poller'.high = poller.sum /\ poller'.quiet = 0
         \/ /\ poller'.high = poller.high /\ poller'.quiet = poller.quiet
            /\ ~(poller.sum > poller.high)
  BY Resting, Readings DEF SeesGrowth, SeesNone, Walked, Grew
<1>2. Left = 0 /\ Total' = Total
  BY <1>1, NothingLeft DEF Left, Total, Weighs
<1>3. ~history.blurred => poller.sum <= Total /\ poller.high <= Total
  BY <1>1, <1>2, Readings DEF Watched, WalkSound, Walking
<1>4. ~history.blurred => WalkSound'
  BY <1>1, <1>2, <1>3 DEF WalkSound, Walking
<1>5. ~history.blurred => QuietSound'
  BY <1>1, <1>2, Readings DEF Watched, QuietSound
<1>6. StallIsFair'
  BY <1>1 DEF Watched, StallIsFair
<1> QED
  BY <1>1, <1>4, <1>5, <1>6 DEF Watched

LEMMA StallsWatched ==
    ASSUME Typed, Watched, Stalls
    PROVE  Watched'
<1>1. /\ poller.at = "walk" /\ poller.left = {} /\ ~(poller.sum > poller.high)
      /\ poller.quiet > StallTimeout
      /\ poller'.at = "off" /\ history' = history
  BY NoPollerFits DEF Stalls, Walked, Grew, Ends
<1>2. Left = 0
  BY <1>1, NothingLeft DEF Left
<1>3. ~history.blurred => history.silent >= StallTimeout
  BY <1>1, <1>2, Readings DEF Watched, QuietSound
<1>4. StallIsFair'
  BY <1>1, <1>3 DEF StallIsFair
<1> QED
  BY <1>1, <1>4, WatchOver

LEMMA TicksWatched ==
    ASSUME Typed, Phases, Watched, Ticks
    PROVE  Watched'
<1>1. /\ poller.at = "sleep" /\ poller.sum = 0
      /\ poller'.at = "walk" /\ poller'.left = Entries /\ poller'.sum = 0
      /\ poller'.high = poller.high /\ poller'.quiet = poller.quiet + 1
      /\ UNCHANGED <<staged, placed, child>>
  BY DEF Ticks, Typed, Watchers
<1>2. /\ history'.wrote = FALSE /\ history'.blurred = history.blurred
      /\ history'.silent = IF history.wrote THEN 0
                           ELSE IF history.silent < StallTimeout THEN history.silent + 1
                           ELSE history.silent
  BY DEF Ticks, Typed
<1>3. Left' = Total' /\ Total' = Total
  BY <1>1 DEF Left, Total, Weighs
<1>4. ~history.blurred => WalkSound'
  BY <1>1, <1>3, Readings DEF Watched, WalkSound, Walking
<1>5. ASSUME ~history.blurred PROVE QuietSound'
  <2>1. \/ history'.silent >= StallTimeout
        \/ history'.silent >= poller'.quiet - 1
        \/ poller'.high < poller'.sum + Left'
    <3>1. CASE poller.quiet = 0
      BY <1>1, <1>2, <3>1, Readings
    <3>2. CASE poller.quiet >= 1 /\ history.wrote
      BY <1>1, <1>3, <1>5, <3>2, Readings DEF Watched, QuietSound
    <3>3. CASE poller.quiet >= 1 /\ ~history.wrote
      <4>1. history.silent >= StallTimeout \/ history.silent >= poller.quiet - 1
        BY <1>1, <1>5, <3>3 DEF Watched, QuietSound
      <4> QED
        BY <1>1, <1>2, <3>3, <4>1, Readings
    <3> QED
      BY <3>1, <3>2, <3>3, Readings
  <2> QED
    BY <1>1, <1>2, <2>1 DEF QuietSound
<1>6. StallIsFair'
  BY <1>1 DEF Phases, StallIsFair
<1> QED
  BY <1>1, <1>2, <1>4, <1>5, <1>6 DEF Watched

LEMMA WatchInvInit == Init => WatchInv
<1> SUFFICES ASSUME Init PROVE WatchInv
  OBVIOUS
<1>1. Typed
  BY TypedInit
<1>2. poller.at = "off" /\ child = "off" /\ hasher.at = "off"
  BY NoPollerFits, NoHasherFits DEF Init
<1>3. Phases
  BY <1>2 DEF Phases
<1>4. Watched
  BY <1>2 DEF Watched, WalkSound, QuietSound, Walking, StallIsFair
<1> QED
  BY <1>1, <1>3, <1>4 DEF WatchInv

LEMMA WatchInvNext == WatchInv /\ [Next]_vars => WatchInv'
<1> SUFFICES ASSUME WatchInv, [Next]_vars PROVE WatchInv'
  OBVIOUS
<1> USE DEF WatchInv
<1>1. CASE UNCHANGED vars
  <2>1. UNCHANGED <<staged, placed, child, poller, hasher, history, gone>>
    BY <1>1 DEF vars
  <2>2. UNCHANGED <<Left, Total>>
    BY <2>1 DEF Left, Total, Weighs
  <2>3. Typed' /\ Phases'
    BY <2>1 DEF Typed, SumFits, Phases
  <2>4. Watched'
    BY <2>1, <2>2 DEF Watched, WalkSound, QuietSound, Walking, StallIsFair
  <2> QED
    BY <2>3, <2>4
<1>2. CASE ChildNext
  <2>1. Typed' /\ Phases'
    BY <1>2, ChildTyped, PhasesNext DEF Next
  <2>2. CASE Launches
    BY <2>1, <2>2, LaunchesWatched
  <2>3. CASE Hangs
    <3>1. UNCHANGED <<staged, placed, poller, history>> /\ child' = "hung"
      BY <2>3 DEF Hangs
    <3>2. UNCHANGED <<Left, Total>>
      BY <3>1 DEF Left, Total, Weighs
    <3>3. Watched'
      BY <3>1, <3>2 DEF Watched, WalkSound, QuietSound, Walking, StallIsFair
    <3> QED
      BY <2>1, <3>3
  <2>4. CASE Finishes \/ Breaks
    <3>1. poller'.at = "off" /\ child' # "stalled"
      BY <2>4, NoPollerFits DEF Finishes, Breaks, Ends
    <3> QED
      BY <2>1, <3>1, WatchOver DEF StallIsFair
  <2>5. ASSUME NEW f \in Files, Fetches(f) PROVE WatchInv'
    BY <2>1, <2>5, FetchesWatched
  <2>6. ASSUME NEW f \in Files, Places(f) PROVE WatchInv'
    BY <2>1, <2>6, PlacesWatched
  <2>7. ASSUME NEW f \in Files, HubUpdates(f) PROVE WatchInv'
    <3>1. poller'.at = "off" /\ UNCHANGED <<child, history>>
      BY <2>7 DEF HubUpdates, Phases
    <3> QED
      BY <2>1, <3>1, WatchOver DEF StallIsFair, Watched
  <2> QED
    BY <1>2, <2>2, <2>3, <2>4, <2>5, <2>6, <2>7 DEF ChildNext
<1>3. CASE PollerNext
  <2>1. Typed' /\ Phases'
    BY <1>3, PollerTyped, PhasesNext DEF Next
  <2>2. Watched'
    BY <1>3, VisitsWatched, FirstWalkWatched, RestsWatched, StallsWatched, TicksWatched
    DEF PollerNext
  <2> QED
    BY <2>1, <2>2
<1>4. CASE HasherNext
  <2>1. Typed' /\ Phases'
    BY <1>4, HasherTyped, PhasesNext DEF Next
  <2>2. UNCHANGED <<child, poller, history>> /\ child = "ok"
    BY <1>4 DEF HasherNext, Verifies, Aborts, Concludes, PicksFile, ReadsFile, StatsFile,
                Vanishes, HashesOn, Hashing, Phases
  <2>3. poller'.at = "off" /\ child' # "stalled"
    BY <2>2 DEF Phases
  <2> QED
    BY <2>1, <2>3, WatchOver DEF StallIsFair
<1> QED
  BY <1>1, <1>2, <1>3, <1>4 DEF Next
-----------------------------------------------------------------------------
(* The verification.                                                       *)

(* The file that is read next, and those whose content has been looked at. *)
InHand ==
    /\ hasher.file \subseteq hasher.left
    /\ \A f, g \in hasher.file : f = g
    /\ hasher.at = "pick" => hasher.file = {}

Pending == hasher.left \ (IF hasher.at = "stat" THEN hasher.file ELSE {})

(* A failure is not good; a file that was looked at and is no failure was  *)
(* good and in its place, wherever it is now.                              *)
FindingsSound ==
    /\ \A f \in hasher.failures : placed[f] # "good"
    /\ \A f \in Hashed \ (Pending \cup hasher.failures) :
          placed[f] \in {"good", "none"} /\ f \notin gone
    /\ \A f \in gone : f \in Hashed /\ placed[f] = "none"

Hashes == InHand /\ (Hashing => FindingsSound) /\ VerdictIsRight

HashInv == Typed /\ Phases /\ Hashes

LEMMA HasherFields ==
    ASSUME Typed
    PROVE  /\ hasher.left \subseteq Hashed /\ hasher.file \subseteq Hashed
           /\ hasher.failures \subseteq Hashed /\ Hashed \subseteq Files
           /\ hasher.at \in {"off", "pick", "open", "stat"} \cup Verdicts
BY TransferAssumption DEF Typed, Hashers

LEMMA HasHashedFields ==
    ASSUME Typed, NEW failures \in SUBSET Hashed, hasher' = HasHashed(failures)
    PROVE  /\ hasher'.at = "pick" /\ hasher'.left = hasher.left \ hasher.file
           /\ hasher'.file = {} /\ hasher'.failures = hasher.failures \cup failures
BY DEF HasHashed, Typed, Hashers

LEMMA FreshHasher ==
    ASSUME hasher' = NoHasher
    PROVE  Hashes'
BY NoHasherFits DEF Hashes, InHand, Hashing, VerdictIsRight

LEMMA PicksHashed ==
    ASSUME Typed, Hashes, NEW f \in Files, PicksFile(f)
    PROVE  Hashes'
<1>1. /\ hasher.at = "pick" /\ f \in hasher.left /\ hasher.file = {} /\ FindingsSound
      /\ UNCHANGED <<placed, gone>>
  BY DEF PicksFile, HashesOn, Hashes, InHand, Hashing
<1>2. CASE placed[f] = "none"
  <2>1. /\ hasher'.at = "pick" /\ hasher'.left = hasher.left \ {f} /\ hasher'.file = {}
        /\ hasher'.failures = hasher.failures \cup {f}
    BY <1>1, <1>2 DEF PicksFile, HashesOn, Typed, Hashers
  <2>2. FindingsSound'
    BY <1>1, <1>2, <2>1 DEF FindingsSound, Pending
  <2> QED
    BY <2>1, <2>2 DEF Hashes, InHand, VerdictIsRight
<1>3. CASE placed[f] # "none"
  <2>1. /\ hasher'.at = "open" /\ hasher'.left = hasher.left /\ hasher'.file = {f}
        /\ hasher'.failures = hasher.failures
    BY <1>3 DEF PicksFile, HashesOn, Typed, Hashers
  <2>2. FindingsSound'
    BY <1>1, <2>1 DEF FindingsSound, Pending
  <2> QED
    BY <1>1, <2>1, <2>2 DEF Hashes, InHand, VerdictIsRight
<1> QED
  BY <1>2, <1>3

LEMMA ReadsHashed ==
    ASSUME Typed, Hashes, NEW f \in Files, ReadsFile(f)
    PROVE  Hashes'
<1>1. /\ hasher.at = "open" /\ f \in hasher.left /\ hasher.file = {f} /\ FindingsSound
      /\ f \in Hashed /\ UNCHANGED <<placed, gone>>
  BY HasherFields DEF ReadsFile, HashesOn, Hashes, InHand, Hashing
<1>2. CASE placed[f] = "none"
  <2>1. hasher' = HasHashed({f})
    BY <1>2 DEF ReadsFile, HashesOn
  <2>2. /\ hasher'.at = "pick" /\ hasher'.left = hasher.left \ {f} /\ hasher'.file = {}
        /\ hasher'.failures = hasher.failures \cup {f}
    BY <1>1, <2>1, HasHashedFields
  <2>3. FindingsSound'
    BY <1>1, <1>2, <2>2 DEF FindingsSound, Pending
  <2> QED
    BY <2>2, <2>3 DEF Hashes, InHand, VerdictIsRight
<1>3. CASE placed[f] = "good"
  <2>1. /\ hasher'.at = "stat" /\ hasher'.left = hasher.left /\ hasher'.file = {f}
        /\ hasher'.failures = hasher.failures
    BY <1>1, <1>3 DEF ReadsFile, HashesOn, Typed, Hashers
  <2>2. FindingsSound'
    BY <1>1, <1>3, <2>1 DEF FindingsSound, Pending
  <2> QED
    BY <1>1, <2>1, <2>2 DEF Hashes, InHand, VerdictIsRight
<1>4. CASE placed[f] \notin {"none", "good"}
  <2>1. /\ hasher'.at = "stat" /\ hasher'.left = hasher.left /\ hasher'.file = {f}
        /\ hasher'.failures = hasher.failures \cup {f}
    BY <1>1, <1>4 DEF ReadsFile, HashesOn, Typed, Hashers
  <2>2. FindingsSound'
    BY <1>1, <1>4, <2>1 DEF FindingsSound, Pending
  <2> QED
    BY <1>1, <2>1, <2>2 DEF Hashes, InHand, VerdictIsRight
<1> QED
  BY <1>2, <1>3, <1>4

LEMMA StatsHashed ==
    ASSUME Typed, Hashes, NEW f \in Files, StatsFile(f)
    PROVE  Hashes'
<1>1. /\ hasher.at = "stat" /\ f \in hasher.left /\ hasher.file = {f} /\ FindingsSound
      /\ f \in Hashed /\ UNCHANGED <<placed, gone>>
  BY HasherFields DEF StatsFile, HashesOn, Hashes, InHand, Hashing
<1>2. CASE placed[f] = "none"
  <2>1. /\ hasher'.at = "raised" /\ hasher'.left = {} /\ hasher'.file = {}
    BY <1>2 DEF StatsFile, HashesOn, NoHasher
  <2> QED
    BY <1>1, <1>2, <2>1 DEF Hashes, InHand, Hashing, VerdictIsRight
<1>3. CASE placed[f] # "none"
  <2>1. hasher' = HasHashed({})
    BY <1>3 DEF StatsFile, HashesOn
  <2>2. /\ hasher'.at = "pick" /\ hasher'.left = hasher.left \ {f} /\ hasher'.file = {}
        /\ hasher'.failures = hasher.failures
    BY <1>1, <2>1, HasHashedFields
  <2>3. FindingsSound'
    BY <1>1, <2>2 DEF FindingsSound, Pending
  <2> QED
    BY <2>2, <2>3 DEF Hashes, InHand, VerdictIsRight
<1> QED
  BY <1>2, <1>3

LEMMA ConcludesHashed ==
    ASSUME Typed, Hashes, Concludes
    PROVE  Hashes'
<1>1. /\ hasher.at = "pick" /\ hasher.left = {} /\ FindingsSound
      /\ UNCHANGED <<placed, gone>>
  BY DEF Concludes, HashesOn, Hashes, Hashing
<1>2. /\ hasher'.at = IF hasher.failures = {} THEN "verified" ELSE "corrupted"
      /\ hasher'.left = {} /\ hasher'.file = hasher.file
  BY <1>1 DEF Concludes, HashesOn, Typed, Hashers
<1>3. InHand' /\ ~Hashing'
  BY <1>1, <1>2 DEF Hashes, InHand, Hashing
<1>4. CASE hasher.failures = {}
  <2>1. \A f \in Hashed : placed[f] \in {"good", "none"} /\ f \notin gone
    BY <1>1, <1>4 DEF FindingsSound, Pending
  <2>2. gone = {}
    BY <1>1, <2>1 DEF FindingsSound
  <2> QED
    BY <1>1, <1>2, <1>3, <1>4, <2>1, <2>2 DEF Hashes, VerdictIsRight
<1>5. CASE hasher.failures # {}
  <2>1. \E f \in Hashed : placed[f] # "good"
    BY <1>1, <1>5, HasherFields DEF FindingsSound
  <2> QED
    BY <1>1, <1>2, <1>3, <1>5, <2>1 DEF Hashes, VerdictIsRight
<1> QED
  BY <1>4, <1>5

LEMMA VanishesHashed ==
    ASSUME Typed, Hashes, NEW f \in Files, Vanishes(f)
    PROVE  Hashes'
<1>1. /\ hasher' = hasher /\ Hashing /\ FindingsSound
      /\ placed' = [placed EXCEPT ![f] = "none"]
      /\ gone' = IF f \in hasher.left /\ ~(f \in hasher.file /\ hasher.at = "stat")
                 THEN gone \cup {f} ELSE gone
  BY DEF Vanishes, Hashes
<1>2. Pending' = Pending
  BY <1>1 DEF Pending
<1>3. gone' = gone \/ (gone' = gone \cup {f} /\ f \in Pending /\ f \in Hashed)
  BY <1>1, HasherFields DEF Pending
<1>4. placed'[f] = "none" /\ \A g \in Files \ {f} : placed'[g] = placed[g]
  BY <1>1 DEF Typed
<1>5. FindingsSound'
  <2>1. \A g \in hasher'.failures : placed'[g] # "good"
    BY <1>1, <1>4, HasherFields DEF FindingsSound
  <2>2. ASSUME NEW g \in Hashed \ (Pending' \cup hasher'.failures)
        PROVE  placed'[g] \in {"good", "none"} /\ g \notin gone'
    BY <1>1, <1>2, <1>4, <1>3, <2>2, HasherFields DEF FindingsSound
  <2>3. \A g \in gone' : g \in Hashed /\ placed'[g] = "none"
    BY <1>1, <1>4, <1>3, HasherFields DEF FindingsSound
  <2> QED
    BY <2>1, <2>2, <2>3 DEF FindingsSound
<1>6. InHand' /\ VerdictIsRight'
  BY <1>1 DEF Hashes, InHand, Hashing, VerdictIsRight
<1> QED
  BY <1>5, <1>6 DEF Hashes

LEMMA HashInvInit == Init => HashInv
<1> SUFFICES ASSUME Init PROVE HashInv
  OBVIOUS
<1>1. Typed /\ Phases
  BY WatchInvInit DEF WatchInv
<1>2. Hashes
  BY NoHasherFits DEF Init, Hashes, InHand, Hashing, VerdictIsRight
<1> QED
  BY <1>1, <1>2 DEF HashInv

LEMMA HashInvNext == HashInv /\ [Next]_vars => HashInv'
<1> SUFFICES ASSUME HashInv, [Next]_vars PROVE HashInv'
  OBVIOUS
<1> USE DEF HashInv
<1>1. ASSUME UNCHANGED <<placed, hasher, gone>> PROVE Hashes'
  BY <1>1 DEF Hashes, InHand, Hashing, FindingsSound, Pending, VerdictIsRight
<1>2. CASE UNCHANGED vars
  <2>1. UNCHANGED <<staged, placed, child, poller, hasher, history, gone>>
    BY <1>2 DEF vars
  <2>2. Typed' /\ Phases'
    BY <2>1 DEF Typed, SumFits, Phases
  <2> QED
    BY <1>1, <2>1, <2>2
<1>3. CASE ChildNext
  <2>1. Typed' /\ Phases'
    BY <1>3, ChildTyped, PhasesNext DEF Next
  <2>2. CASE Launches
    BY <2>1, <2>2, FreshHasher DEF Launches
  <2>3. CASE Hangs \/ Finishes \/ Breaks \/ \E f \in Files : Fetches(f)
    BY <1>1, <2>1, <2>3 DEF Hangs, Finishes, Breaks, Ends, Fetches
  <2>4. ASSUME NEW f \in Files, Places(f) \/ HubUpdates(f) PROVE HashInv'
    <3>1. hasher.at = "off" /\ hasher' = hasher
      BY <2>4 DEF Places, HubUpdates, Phases
    <3>2. Hashes'
      BY <3>1 DEF Hashes, InHand, Hashing, VerdictIsRight
    <3> QED
      BY <2>1, <3>2
  <2> QED
    BY <1>3, <2>2, <2>3, <2>4 DEF ChildNext
<1>4. CASE PollerNext
  <2>1. Typed' /\ Phases'
    BY <1>4, PollerTyped, PhasesNext DEF Next
  <2>2. UNCHANGED <<placed, hasher, gone>>
    BY <1>4 DEF PollerNext, Visits, FirstWalk, SeesGrowth, SeesNone, Stalls, Ticks, Ends
  <2> QED
    BY <1>1, <2>1, <2>2
<1>5. CASE HasherNext
  <2>1. Typed' /\ Phases'
    BY <1>5, HasherTyped, PhasesNext DEF Next
  <2>2. CASE Verifies
    <3>1. /\ hasher'.at = "pick" /\ hasher'.left = Hashed /\ hasher'.file = {}
          /\ hasher'.failures = {} /\ gone' = {}
      BY <2>2 DEF Verifies, NoHasher
    <3>2. Hashes'
      BY <3>1 DEF Hashes, InHand, FindingsSound, Pending, VerdictIsRight
    <3> QED
      BY <2>1, <3>2
  <2>3. CASE Aborts
    <3>1. hasher'.at = "aborted" /\ hasher'.left = {} /\ hasher'.file = {}
      BY <2>3 DEF Aborts, HashesOn, NoHasher
    <3>2. Hashes'
      BY <3>1 DEF Hashes, InHand, Hashing, VerdictIsRight
    <3> QED
      BY <2>1, <3>2
  <2>4. CASE Concludes
    BY <2>1, <2>4, ConcludesHashed
  <2>5. ASSUME NEW f \in Files,
               PicksFile(f) \/ ReadsFile(f) \/ StatsFile(f) \/ Vanishes(f)
        PROVE  HashInv'
    BY <2>1, <2>5, PicksHashed, ReadsHashed, StatsHashed, VanishesHashed
  <2> QED
    BY <1>5, <2>2, <2>3, <2>4, <2>5 DEF HasherNext
<1> QED
  BY <1>2, <1>3, <1>4, <1>5 DEF Next

-----------------------------------------------------------------------------
(* The theorems. *)

(* Whatever is fetched, moved and replaced under the walk, its sum stays   *)
(* within twice the size of the repository, and the watchdog counts no     *)
(* further than one interval over its patience (backup.py:83-98,285-302).  *)
THEOREM TypeCorrect == Spec => []TypeOK
<1>1. Typed => TypeOK
  <2> SUFFICES ASSUME Typed PROVE TypeOK
    OBVIOUS
  <2>1. poller \in Watchers /\ Bound \in Nat
    BY Numbers DEF Typed
  <2>2. Size * Cardinality(poller.left) \in Nat
    BY <2>1, Numbers, FiniteLeft DEF Watchers
  <2>3. poller.sum \in Sums /\ poller.high \in Sums
    BY <2>1, <2>2 DEF Typed, Watchers, SumFits, Sums, Bound
  <2>4. poller.quiet \in 0..(StallTimeout + 1)
    BY <2>1, Numbers DEF Typed, Watchers
  <2>5. poller \in [at : {"off", "first", "walk", "sleep"}, left : SUBSET Entries,
                    sum : Sums, high : Sums, quiet : 0..(StallTimeout + 1)]
    BY <2>1, <2>3, <2>4 DEF Watchers
  <2> QED
    BY <2>5 DEF Typed, TypeOK, Contents, Hashers
<1>2. WatchInv => Typed
  BY DEF WatchInv
<1> QED
  BY <1>1, <1>2, WatchInvInit, WatchInvNext, PTL DEF Spec

(* The watchdog ends a download only after stall_timeout without a byte,   *)
(* or in a run in which a file was moved under a walk, or in place of an   *)
(* outdated one, at any time before (blurred): for any number of files,    *)
(* any sizes and any patience                                              *)
(* (backup.py:83-98,291-302, deploy/hug-face-rip.service:40).              *)
THEOREM StallFair == Spec => []StallIsFair
<1>1. WatchInv => StallIsFair
  BY DEF WatchInv, Watched
<1> QED
  BY <1>1, WatchInvInit, WatchInvNext, PTL DEF Spec

(* 'verified' only if each file with a hash was there and good,            *)
(* 'corrupted' only if one is not, and an error only over a file that went *)
(* away, whichever files vanish between the look-ups (verify.py:72-100).   *)
THEOREM VerdictRight == Spec => []VerdictIsRight
<1>1. HashInv => VerdictIsRight
  BY DEF HashInv, Hashes
<1> QED
  BY <1>1, HashInvInit, HashInvNext, PTL DEF Spec
=============================================================================
